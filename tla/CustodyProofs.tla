--------------------------- MODULE CustodyProofs ----------------------------
(***************************************************************************)
(* What one accepted transaction that spends the program establishes, for  *)
(* every chain, every broadcast package and every value of the constants;  *)
(* and what a chain's transactions therefore keep true of the money, one   *)
(* transaction at a time: a reorganization only removes transactions, and  *)
(* signatures are never taken back.                                        *)
(***************************************************************************)
EXTENDS Bridge, TLAPS

-----------------------------------------------------------------------------
(* Structure                                                               *)

\* A transaction id determines its transaction: ids are injective.
LEMMA TxIdInjective ==
  ASSUME NEW a, NEW b, TxId(a) = TxId(b)
  PROVE  a = b
BY DEF TxId

\* A spend of the program in any input runs one of the two leaves there, and
\* both leaves run in input 0 only (bridge.py, CURRENT_INDEX).
LEMMA ProgramRuns ==
  ASSUME NEW package, NEW chain, Acceptable(package, chain),
         NEW i \in 1 .. Len(package.tx.ins),
         SpentSpk(package.tx, i) = Program
  PROVE  /\ i = 1
         /\ \/ CollectionLeaf(package.tx, 1, package.wit[1])
            \/ SettlementLeaf(package.tx, 1, package.wit[1])
<1>1. ScriptAccepts(package.tx, i, package.wit[i])
  BY DEF Acceptable
<1>2. SpentSpk(package.tx, i).kind = "program"
  BY DEF Program
<1>3. BridgeScript(package.tx, i, package.wit[i])
  BY <1>1, <1>2 DEF ScriptAccepts
<1>4. i = 1
  BY <1>3 DEF BridgeScript, CollectionLeaf, SettlementLeaf
<1> QED
  BY <1>3, <1>4 DEF BridgeScript

\* Input 0 of a leaf spends output 0 of a confirmed, unspent parent, and the
\* parent the witness shows is that transaction.
LEMMA ParentShown ==
  ASSUME NEW package, NEW chain, Acceptable(package, chain),
         NEW w, AuthenticateParent(package.tx, w),
         1 \in 1 .. Len(package.tx.ins)
  PROVE  /\ w.parent = ParentOf(package.tx)
         /\ ParentOf(package.tx) \in chain
         /\ package.tx.ins[1] = OutPoint(ParentOf(package.tx), 0)
         /\ ~ IsSpent(OutPoint(ParentOf(package.tx), 0), chain)
<1>1. TxId(w.parent) = package.tx.ins[1].txid /\ package.tx.ins[1].vout = 0
  BY DEF AuthenticateParent
<1>2. w.parent = ParentOf(package.tx)
  BY <1>1 DEF TxId, ParentOf
<1>3. /\ package.tx.ins[1].txid.tx \in chain
      /\ package.tx.ins[1] =
           OutPoint(package.tx.ins[1].txid.tx, package.tx.ins[1].vout)
      /\ ~ IsSpent(package.tx.ins[1], chain)
  BY DEF Acceptable, InputsAvailable
<1> QED
  BY <1>1, <1>2, <1>3 DEF ParentOf

\* A parent that passes the genesis branch is a genesis, and the identity is
\* its own id; one that passes the continuation branch has itself spent the
\* program, and its caboose already names the identity.
LEMMA ParentKnown ==
  ASSUME NEW tx, NEW w, AuthenticateParent(tx, w)
  PROVE  /\ w.parent.outs[1].spk = Program
         /\ w.parent.outs[1].value = SpentValue(tx, 1)
         /\ StateOf(w.parent) = w.old_state
         /\ w.new_state.bridge_id = w.bridge_id
         /\ \/ /\ IsGenesis(w.parent)
               /\ w.bridge_id = TxId(w.parent)
               /\ w.old_state = GenesisState(GenesisRoot)
            \/ /\ SpendsProgram(w.parent)
               /\ w.bridge_id = w.old_state.bridge_id
<1>1. w.new_state.bridge_id = w.bridge_id
  BY DEF AuthenticateParent
<1>2. CarriesState(w.parent, Program, SpentValue(tx, 1), w.old_state)
  BY DEF AuthenticateParent, GenesisParent, TransitionParent
<1>3. /\ w.parent.outs[1].spk = Program
      /\ w.parent.outs[1].value = SpentValue(tx, 1)
      /\ LastOutput(w.parent) = Output(CabooseValue, Caboose(w.old_state))
  BY <1>2 DEF CarriesState, Output
<1>4. StateOf(w.parent) = w.old_state
  BY <1>3 DEF StateOf, Output, Caboose
<1>5. CASE GenesisParent(tx, w)
  <2>1. /\ OneInputTwoOutputs(w.parent)
        /\ w.parent.ins[1].vout = 0
        /\ w.old_state = GenesisState(GenesisRoot)
        /\ TxId(w.parent) = w.bridge_id
    BY <1>5 DEF GenesisParent
  <2>2. w.parent.outs[2] =
          Output(CabooseValue, Caboose(GenesisState(GenesisRoot)))
    BY <1>3, <2>1 DEF LastOutput, OneInputTwoOutputs, HasShape
  <2>3. w.ancestor = w.parent.ins[1].txid.tx
    BY <1>5 DEF GenesisParent, TxId
  <2>4. OneInputTwoOutputs(w.ancestor) /\ w.ancestor.outs[1].spk = Sponsor
    BY <1>5 DEF GenesisParent
  <2>5. SpentSpk(w.parent, 1) = Sponsor
    BY <2>1, <2>3, <2>4 DEF SpentSpk, SpentOutput
  <2>6. IsGenesis(w.parent)
    BY <1>3, <2>1, <2>2, <2>3, <2>4, <2>5 DEF IsGenesis
  <2> QED
    BY <1>1, <1>3, <1>4, <2>1, <2>6
<1>6. CASE TransitionParent(tx, w)
  <2>1. /\ CollectionShape(w.parent) \/ SettlementShape(w.parent)
        /\ AuthenticAncestor(w.parent, w.ancestor)
        /\ w.bridge_id = w.old_state.bridge_id
    BY <1>6 DEF TransitionParent
  <2>2. 1 \in 1 .. Len(w.parent.ins)
    <3>1. Len(w.parent.ins) = 4 \/ Len(w.parent.ins) = 2
      BY <2>1, Zenon DEF CollectionShape, SettlementShape, HasShape
    <3> QED
      BY <3>1
  <2>3. w.ancestor = w.parent.ins[1].txid.tx /\ w.parent.ins[1].vout = 0
    BY <2>1 DEF AuthenticAncestor, TxId
  <2>4. SpentSpk(w.parent, 1) = Program
    BY <2>1, <2>3 DEF AuthenticAncestor, SpentSpk, SpentOutput
  <2>5. SpendsProgram(w.parent)
    BY <2>2, <2>4 DEF SpendsProgram
  <2> QED
    BY <1>1, <1>3, <1>4, <2>1, <2>5
<1> QED
  BY <1>5, <1>6 DEF AuthenticateParent

\* The two leaves fix the head they create: program, value and caboose.
LEMMA CollectionCreates ==
  ASSUME NEW tx, NEW w, CollectionLeaf(tx, 1, w)
  PROVE  /\ tx.outs[1] = Output(w.public_values.new_backing, Program)
         /\ Len(tx.outs) = 3
         /\ Len(tx.ins) = 4
         /\ StateOf(tx) = w.new_state
         /\ w.public_values.new_root = w.new_state.root
         /\ w.public_values.old_root = w.old_state.root
<1>1. /\ CollectionOutputs(tx, w)
      /\ CollectionStatementBound(tx, w)
      /\ Context(tx, 4, 3)
  BY DEF CollectionLeaf
<1>2. Len(tx.outs) = 3 /\ Len(tx.ins) = 4
  BY <1>1 DEF Context, Running
<1>3. tx.outs[3] = Output(CabooseValue, Caboose(w.new_state))
  BY <1>1 DEF CollectionOutputs
<1>4. tx.outs[1] = Output(CollectedAmount(tx), Program)
  BY <1>1 DEF CollectionOutputs
<1>5. /\ w.public_values.new_backing = CollectedAmount(tx)
      /\ StatementHeader(tx, w, "collect")
  BY <1>1 DEF CollectionStatementBound
<1>6. StateOf(tx) = w.new_state
  BY <1>2, <1>3 DEF StateOf, LastOutput, Output, Caboose
<1> QED
  BY <1>2, <1>4, <1>5, <1>6 DEF StatementHeader

\* What the settlement leaf makes of outputs, inputs and states.
LEMMA SettlementCreates ==
  ASSUME NEW tx, NEW w, SettlementLeaf(tx, 1, w)
  PROVE  /\ tx.outs[1] = Output(w.public_values.new_backing, Program)
         /\ tx.outs[2] = Output(w.public_values.withdrawal_amount,
                                w.public_values.withdrawal_destination)
         /\ Len(tx.outs) = 4
         /\ Len(tx.ins) = 2
         /\ StateOf(tx) = w.new_state
         /\ w.public_values.new_root = w.new_state.root
         /\ w.public_values.old_root = w.old_state.root
<1>1. /\ SettlementOutputs(tx, w)
      /\ SettlementStatementBound(tx, w)
      /\ Context(tx, 2, 4)
  BY DEF SettlementLeaf
<1>2. Len(tx.outs) = 4 /\ Len(tx.ins) = 2
  BY <1>1 DEF Context, Running
<1>3. /\ tx.outs[1] = Output(SpentValue(tx, 1)
                               - w.public_values.withdrawal_amount, Program)
      /\ tx.outs[2] = Output(w.public_values.withdrawal_amount,
                             w.public_values.withdrawal_destination)
      /\ tx.outs[4] = Output(CabooseValue, Caboose(w.new_state))
  BY <1>1 DEF SettlementOutputs
<1>4. /\ w.public_values.new_backing =
           SpentValue(tx, 1) - w.public_values.withdrawal_amount
      /\ StatementHeader(tx, w, "transfer_withdraw")
  BY <1>1 DEF SettlementStatementBound
<1>5. StateOf(tx) = w.new_state
  BY <1>2, <1>3 DEF StateOf, LastOutput, Output, Caboose
<1> QED
  BY <1>2, <1>3, <1>4, <1>5 DEF StatementHeader

\* What both have in common.
LEMMA LeafCreates ==
  ASSUME NEW tx, NEW w,
         CollectionLeaf(tx, 1, w) \/ SettlementLeaf(tx, 1, w)
  PROVE  /\ tx.outs[1] = Output(w.public_values.new_backing, Program)
         /\ tx.outs[1].spk = Program
         /\ Len(tx.outs) \in Nat \ {0}
         /\ StateOf(tx) = w.new_state
         /\ w.public_values.new_root = w.new_state.root
         /\ w.public_values.old_root = w.old_state.root
         /\ VerifyProof(w.proof, w.public_values)
         /\ AuthenticateParent(tx, w)
<1>1. CASE CollectionLeaf(tx, 1, w)
  <2>1. VerifyProof(w.proof, w.public_values) /\ AuthenticateParent(tx, w)
    BY <1>1 DEF CollectionLeaf
  <2> QED
    BY <1>1, <2>1, CollectionCreates DEF Output
<1>2. CASE SettlementLeaf(tx, 1, w)
  <2>1. VerifyProof(w.proof, w.public_values) /\ AuthenticateParent(tx, w)
    BY <1>2 DEF SettlementLeaf
  <2>2. /\ tx.outs[1] = Output(w.public_values.new_backing, Program)
        /\ Len(tx.outs) = 4
        /\ StateOf(tx) = w.new_state
        /\ w.public_values.new_root = w.new_state.root
        /\ w.public_values.old_root = w.old_state.root
    BY <1>2, SettlementCreates, Zenon
  <2> QED
    BY <2>1, <2>2 DEF Output
<1> QED
  BY <1>1, <1>2

-----------------------------------------------------------------------------
(* One step of a lineage                                                   *)

\* A genesis spends a sponsor output only, so it opens and never continues.
LEMMA GenesisOpens ==
  ASSUME NEW tx, IsGenesis(tx)
  PROVE  /\ ~ SpendsProgram(tx)
         /\ tx.outs[1].spk = Program
         /\ Len(tx.outs) = 2
<1>1. Len(tx.ins) = 1 /\ Len(tx.outs) = 2 /\ SpentSpk(tx, 1) = Sponsor
  BY DEF IsGenesis, OneInputTwoOutputs, HasShape
<1>2. Sponsor.kind # Program.kind
  BY DEF Sponsor, Program
<1>3. ~ SpendsProgram(tx)
  BY <1>1, <1>2 DEF SpendsProgram
<1> QED
  BY <1>1, <1>3 DEF IsGenesis

\* An accepted spend of the program runs one leaf in input 0.
LEMMA LeafRuns ==
  ASSUME NEW package, NEW chain, Acceptable(package, chain),
         SpendsProgram(package.tx)
  PROVE  /\ 1 \in 1 .. Len(package.tx.ins)
         /\ AuthenticateParent(package.tx, package.wit[1])
         /\ \/ CollectionLeaf(package.tx, 1, package.wit[1])
            \/ SettlementLeaf(package.tx, 1, package.wit[1])
<1>1. PICK i \in 1 .. Len(package.tx.ins) : SpentSpk(package.tx, i) = Program
  BY DEF SpendsProgram
<1>2. /\ i = 1
      /\ \/ CollectionLeaf(package.tx, 1, package.wit[1])
         \/ SettlementLeaf(package.tx, 1, package.wit[1])
  BY <1>1, ProgramRuns
<1>3. AuthenticateParent(package.tx, package.wit[1])
  BY <1>2 DEF CollectionLeaf, SettlementLeaf
<1> QED
  BY <1>2, <1>3

\* An accepted spend of the program spends output 0 of a head, in input 0,
\* creates one in output 0, and passes the identity on.
LEMMA HeadAdvances ==
  ASSUME NEW package, NEW chain, Acceptable(package, chain),
         SpendsProgram(package.tx)
  PROVE  LET tx == package.tx
             p == ParentOf(package.tx)
         IN  /\ p \in chain
             /\ tx.ins[1] = OutPoint(p, 0)
             /\ ~ IsSpent(OutPoint(p, 0), chain)
             /\ \A i \in 1 .. Len(tx.ins) : SpentSpk(tx, i) = Program => i = 1
             /\ tx.outs[1].spk = Program
             /\ Len(tx.outs) \in Nat \ {0}
             /\ ~ IsGenesis(tx)
             /\ \/ IsGenesis(p) /\ StateOf(tx).bridge_id = TxId(p)
                \/ SpendsProgram(p) /\ StateOf(tx).bridge_id = StateOf(p).bridge_id
<1> DEFINE tx == package.tx
           p == ParentOf(package.tx)
           w == package.wit[1]
<1>1. /\ 1 \in 1 .. Len(tx.ins)
      /\ AuthenticateParent(tx, w)
      /\ CollectionLeaf(tx, 1, w) \/ SettlementLeaf(tx, 1, w)
  BY LeafRuns
<1>2. /\ w.parent = p
      /\ p \in chain
      /\ tx.ins[1] = OutPoint(p, 0)
      /\ ~ IsSpent(OutPoint(p, 0), chain)
  BY <1>1, ParentShown
<1>3. \A i \in 1 .. Len(tx.ins) : SpentSpk(tx, i) = Program => i = 1
  BY ProgramRuns
<1>4. /\ tx.outs[1].spk = Program
      /\ Len(tx.outs) \in Nat \ {0}
      /\ StateOf(tx) = w.new_state
  BY <1>1, LeafCreates
<1>5. ~ IsGenesis(tx)
  BY GenesisOpens
<1>6. \/ IsGenesis(p) /\ StateOf(tx).bridge_id = TxId(p)
      \/ SpendsProgram(p) /\ StateOf(tx).bridge_id = StateOf(p).bridge_id
  BY <1>1, <1>2, <1>4, ParentKnown
<1> QED
  BY <1>2, <1>3, <1>4, <1>5, <1>6

-----------------------------------------------------------------------------
(* What a statement says of the accounts                                   *)

\* The backing of a statement backs the accounts its new root commits to,
\* and the old accounts are those the old root commits to.
LEMMA StatementBacked ==
  ASSUME NEW input, Accepts(input)
  PROVE  /\ Statement(input).new_backing = Backing(Statement(input).new_root.root)
         /\ Statement(input).old_root = Root(input.old_state)
<1>1. CASE input.action = "collect" /\ CollectionAccepted(input)
  <2>1. CollectedBacking(input) = Backing(CollectedState(input))
    BY <1>1 DEF CollectionAccepted, RequireBacking
  <2>2. Statement(input) = CollectionStatement(input)
    BY <1>1 DEF Statement
  <2> QED
    BY <2>1, <2>2 DEF CollectionStatement, Root
<1>2. CASE input.action = "transfer_withdraw" /\ SettlementAccepted(input)
  <2>1. SettledBacking(input) = Backing(SettledState(input))
    BY <1>2 DEF SettlementAccepted, RequireBacking
  <2>2. Statement(input) = SettlementStatement(input)
    BY <1>2 DEF Statement
  <2> QED
    BY <2>1, <2>2 DEF SettlementStatement, Root
<1> QED
  BY <1>1, <1>2 DEF Accepts

\* Crediting keeps an account state within its widths and keeps its keys.
LEMMA CreditKeepsWidth ==
  ASSUME NEW state \in AccountState(ValidKey), NEW deposit,
         deposit.value \in Amount, Creditable(state, deposit)
  PROVE  /\ CreditAccount(state, deposit) \in AccountState(ValidKey)
         /\ \A id \in AccountId :
              CreditAccount(state, deposit)[id].key = state[id].key
<1> USE CoinsAssumption DEF AccountId, Amount, Nonce
<1> DEFINE r == deposit.recipient_id
<1>1. r \in AccountId /\ state[r].balance + deposit.value <= MaxAmount
  BY DEF Creditable
<1>2. state[r] \in [key : ValidKey, balance : Amount, nonce : Nonce]
  BY <1>1 DEF AccountState
<1>3. state[r].balance + deposit.value \in Amount
  BY <1>1, <1>2
<1> QED
  BY <1>1, <1>2, <1>3 DEF CreditAccount, AccountState

\* A collection only credits: widths, keys and nonces stay, and each account
\* gets what the deposits that name it hold.
LEMMA CollectionCredits ==
  ASSUME NEW input, HasWidths(input), input.action = "collect",
         CollectionAccepted(input)
  PROVE  /\ CollectedState(input) \in AccountState(ValidKey)
         /\ \A id \in AccountId :
              CollectedState(input)[id].key = input.old_state[id].key
<1> DEFINE first == CreditAccount(input.old_state, input.deposits[1])
<1>1. /\ input.old_state \in AccountState(ValidKey)
      /\ input.deposits[1].value \in Amount
      /\ input.deposits[2].value \in Amount
  BY DEF HasWidths
<1>2. /\ Creditable(input.old_state, input.deposits[1])
      /\ Creditable(first, input.deposits[2])
  BY DEF CollectionAccepted
<1>3. /\ first \in AccountState(ValidKey)
      /\ \A id \in AccountId : first[id].key = input.old_state[id].key
  BY <1>1, <1>2, CreditKeepsWidth
<1> HIDE DEF first
<1>4. /\ CreditAccount(first, input.deposits[2]) \in AccountState(ValidKey)
      /\ \A id \in AccountId :
           CreditAccount(first, input.deposits[2])[id].key = first[id].key
  BY <1>1, <1>2, <1>3, CreditKeepsWidth
<1> QED
  BY <1>3, <1>4 DEF CollectedState, first

\* Moving a balance keeps an account within its widths when the sums fit.
LEMMA MoveKeepsWidth ==
  ASSUME NEW account \in [key : ValidKey, balance : Amount, nonce : Nonce],
         NEW delta \in Int, account.balance + delta \in Amount,
         NEW requests \in Nat, account.nonce + requests \in Nonce
  PROVE  /\ Moved(account, delta, requests)
              \in [key : ValidKey, balance : Amount, nonce : Nonce]
         /\ Moved(account, delta, requests).key = account.key
         /\ Moved(account, delta, requests).nonce = account.nonce + requests
BY DEF Moved

\* A settlement debits account 0, pays out of account 1, credits account 2,
\* counts one more request of accounts 0 and 1, and stays within the widths.
LEMMA SettlementMoves ==
  ASSUME NEW input, HasWidths(input), input.action = "transfer_withdraw",
         SettlementAccepted(input)
  PROVE  /\ SettledState(input) \in AccountState(ValidKey)
         /\ \A id \in AccountId :
              SettledState(input)[id].key = input.old_state[id].key
         /\ SettledState(input)[0].nonce = input.old_state[0].nonce + 1
         /\ SettledState(input)[1].nonce = input.old_state[1].nonce + 1
<1> DEFINE old == input.old_state
           t == input.transfer
           mid == TransferApplied(old, t)
           paid == input.withdrawal_amount
           account == [key : ValidKey, balance : Amount, nonce : Nonce]
<1>1. /\ old \in [AccountId -> account]
      /\ t.amount \in Nat /\ t.fee \in Nat /\ paid \in Nat
  BY CoinsAssumption DEF HasWidths, Amount, AccountState
<1>2. old[0] \in account /\ old[1] \in account /\ old[2] \in account
  BY <1>1 DEF AccountId
<1>3. /\ t.amount + t.fee <= old[0].balance
      /\ old[0].nonce < MaxNonce
      /\ old[1].balance + t.amount <= MaxAmount
      /\ old[2].balance + t.fee <= MaxAmount
  BY DEF SettlementAccepted, TransferFits, TransferSenderId,
         WithdrawalAccountId, FeeAccountId
<1>4. /\ mid = [old EXCEPT ![0] = Moved(old[0], -(t.amount + t.fee), 1),
                           ![1] = Moved(old[1], t.amount, 0),
                           ![2] = Moved(old[2], t.fee, 0)]
  BY DEF TransferApplied, TransferSenderId, WithdrawalAccountId, FeeAccountId
<1>5. /\ paid <= mid[1].balance
      /\ mid[1].nonce < MaxNonce
  BY DEF SettlementAccepted, WithdrawalFits, WithdrawalAccountId
<1>6. SettledState(input) = [mid EXCEPT ![1] = Moved(mid[1], -paid, 1)]
  BY DEF SettledState, WithdrawalAccountId
<1> HIDE DEF mid
<1>7. /\ mid[0] = Moved(old[0], -(t.amount + t.fee), 1)
      /\ mid[1] = Moved(old[1], t.amount, 0)
      /\ mid[2] = Moved(old[2], t.fee, 0)
      /\ mid \in [AccountId -> {mid[0], mid[1], mid[2]}]
  BY <1>1, <1>4 DEF AccountId
<1>8. /\ mid[0] \in account /\ mid[0].key = old[0].key
      /\ mid[0].nonce = old[0].nonce + 1
  <2>1. /\ old[0].balance + (-(t.amount + t.fee)) \in Amount
        /\ old[0].nonce + 1 \in Nonce
    BY <1>1, <1>2, <1>3, CoinsAssumption DEF Amount, Nonce
  <2> QED
    BY <1>1, <1>2, <1>7, <2>1, MoveKeepsWidth
<1>9. /\ mid[1] \in account /\ mid[1].key = old[1].key
      /\ mid[1].nonce = old[1].nonce
  <2>1. /\ old[1].balance + t.amount \in Amount
        /\ old[1].nonce + 0 \in Nonce
        /\ old[1].nonce + 0 = old[1].nonce
    BY <1>1, <1>2, <1>3, CoinsAssumption DEF Amount, Nonce
  <2> QED
    BY <1>1, <1>2, <1>7, <2>1, MoveKeepsWidth
<1>10. mid[2] \in account /\ mid[2].key = old[2].key
  <2>1. /\ old[2].balance + t.fee \in Amount
        /\ old[2].nonce + 0 \in Nonce
    BY <1>1, <1>2, <1>3, CoinsAssumption DEF Amount, Nonce
  <2> QED
    BY <1>1, <1>2, <1>7, <2>1, MoveKeepsWidth
<1>11. /\ Moved(mid[1], -paid, 1) \in account
       /\ Moved(mid[1], -paid, 1).key = old[1].key
       /\ Moved(mid[1], -paid, 1).nonce = old[1].nonce + 1
  <2>1. /\ mid[1].balance + (-paid) \in Amount
        /\ mid[1].nonce + 1 \in Nonce
    BY <1>1, <1>5, <1>9, CoinsAssumption DEF Amount, Nonce
  <2> QED
    BY <1>1, <1>9, <2>1, MoveKeepsWidth
<1>12. /\ SettledState(input)[0] = mid[0]
       /\ SettledState(input)[1] = Moved(mid[1], -paid, 1)
       /\ SettledState(input)[2] = mid[2]
  BY <1>6, <1>7 DEF AccountId
<1>13. SettledState(input) \in [AccountId -> account]
  <2>1. mid \in [AccountId -> account]
    BY <1>7, <1>8, <1>9, <1>10
  <2> QED
    BY <1>6, <1>11, <2>1
<1> QED
  BY <1>8, <1>9, <1>10, <1>11, <1>12, <1>13 DEF AccountId, AccountState

-----------------------------------------------------------------------------
(* The money in the confirmed transactions                                 *)

\* A step confirms one accepted package, or it confirms nothing and takes no
\* signature back.
LEMMA StepConfirms ==
  ASSUME [Next]_vars
  PROVE  \/ \E package : Confirm(package)
         \/ /\ confirmed' \subseteq confirmed
            /\ agreed \subseteq agreed'
            /\ refunding \subseteq refunding'
<1>1. CASE Pay \/ Collect \/ Settle \/ Refund
  BY <1>1 DEF Pay, Collect, Settle, Refund
<1>2. CASE \E b \in Identities, terms \in Terms : SignSettlement(b, terms)
  BY <1>2 DEF SignSettlement
<1>3. CASE \E outpoint \in Unspent(confirmed) : SignRefund(outpoint)
  BY <1>3 DEF SignRefund
<1>4. CASE \E tx \in confirmed : Disconnect(tx)
  BY <1>4 DEF Disconnect
<1>5. CASE UNCHANGED vars
  BY <1>5 DEF vars
<1> QED
  BY <1>1, <1>2, <1>3, <1>4, <1>5 DEF Next

\* A coinbase spends nothing.
LEMMA CoinbaseSpendsNothing ==
  ASSUME NEW tx \in Coinbases
  PROVE  Len(tx.ins) = 0 /\ ~ SpendsProgram(tx)
<1>1. Len(tx.ins) = 0
  BY CoinbasesAssumption
<1> QED
  BY <1>1 DEF SpendsProgram

-----------------------------------------------------------------------------
(* Money                                                                   *)

\* The head an accepted spend of the program creates holds the backing of
\* the accounts its caboose commits to.
LEMMA HeadBacked ==
  ASSUME NEW package, NEW chain, Acceptable(package, chain),
         SpendsProgram(package.tx)
  PROVE  package.tx.outs[1].value = Backing(AccountsOf(package.tx))
<1> DEFINE tx == package.tx
           w == package.wit[1]
<1>1. CollectionLeaf(tx, 1, w) \/ SettlementLeaf(tx, 1, w)
  BY LeafRuns
<1>2. /\ tx.outs[1] = Output(w.public_values.new_backing, Program)
      /\ StateOf(tx) = w.new_state
      /\ w.public_values.new_root = w.new_state.root
      /\ VerifyProof(w.proof, w.public_values)
  BY <1>1, LeafCreates
<1>3. w.public_values.new_backing = Backing(w.public_values.new_root.root)
  BY <1>2, StatementBacked DEF VerifyProof
<1> QED
  BY <1>2, <1>3 DEF AccountsOf, Output

\* Theorem: what a head holds is the reserve plus every balance of the
\* account state its caboose commits to (docs/protocol.md, the money
\* invariant), in every reachable chain and for every value of the constants.
THEOREM Money == Spec => []MoneyInvariant
<1>1. Init => MoneyInvariant
  BY CoinbaseSpendsNothing DEF Init, MoneyInvariant
<1>2. MoneyInvariant /\ [Next]_vars => MoneyInvariant'
  <2> SUFFICES ASSUME MoneyInvariant, [Next]_vars
               PROVE  MoneyInvariant'
    OBVIOUS
  <2>1. ASSUME NEW package, Confirm(package)
        PROVE  MoneyInvariant'
    <3>1. SpendsProgram(package.tx) =>
            package.tx.outs[1].value = Backing(AccountsOf(package.tx))
      BY <2>1, HeadBacked DEF Confirm
    <3> QED
      BY <2>1, <3>1 DEF Confirm, MoneyInvariant
  <2>2. CASE confirmed' \subseteq confirmed
    BY <2>2 DEF MoneyInvariant
  <2> QED
    BY <2>1, <2>2, StepConfirms
<1> QED
  BY <1>1, <1>2, PTL DEF Spec

-----------------------------------------------------------------------------
(* Widths and keys                                                         *)

\* The proof in an accepted spend of the program starts from the accounts
\* that the parent's caboose commits to, and the new caboose commits to the
\* accounts it computes.
LEMMA ProofFromParent ==
  ASSUME NEW package, NEW chain, Acceptable(package, chain),
         SpendsProgram(package.tx)
  PROVE  LET tx == package.tx
             proof == package.wit[1].proof
         IN  /\ Accepts(proof)
             /\ proof.old_state = AccountsOf(ParentOf(tx))
             /\ AccountsOf(tx) = IF proof.action = "collect"
                                 THEN CollectedState(proof)
                                 ELSE SettledState(proof)
             /\ \/ CollectionLeaf(tx, 1, package.wit[1])
                   /\ proof.action = "collect"
                \/ SettlementLeaf(tx, 1, package.wit[1])
                   /\ proof.action = "transfer_withdraw"
<1> DEFINE tx == package.tx
           w == package.wit[1]
<1>1. /\ 1 \in 1 .. Len(tx.ins)
      /\ AuthenticateParent(tx, w)
      /\ CollectionLeaf(tx, 1, w) \/ SettlementLeaf(tx, 1, w)
  BY LeafRuns
<1>2. /\ w.parent = ParentOf(tx)
      /\ StateOf(w.parent) = w.old_state
  BY <1>1, ParentShown, ParentKnown
<1>3. /\ StateOf(tx) = w.new_state
      /\ w.public_values.new_root = w.new_state.root
      /\ w.public_values.old_root = w.old_state.root
      /\ Accepts(w.proof)
      /\ Statement(w.proof) = w.public_values
  BY <1>1, LeafCreates DEF VerifyProof
<1>4. w.proof.old_state = AccountsOf(ParentOf(tx))
  <2>1. Root(w.proof.old_state) = w.old_state.root
    BY <1>3, StatementBacked
  <2> QED
    BY <1>2, <2>1 DEF Root, AccountsOf
<1>5. w.proof.action \in {"collect", "transfer_withdraw"}
  BY <1>3 DEF Accepts
<1>6. Statement(w.proof).action = w.proof.action
  BY <1>5 DEF Statement, CollectionStatement, SettlementStatement
<1>7. AccountsOf(tx) = IF w.proof.action = "collect"
                       THEN CollectedState(w.proof)
                       ELSE SettledState(w.proof)
  <2>1. Statement(w.proof).new_root =
          IF w.proof.action = "collect" THEN Root(CollectedState(w.proof))
                                        ELSE Root(SettledState(w.proof))
    BY DEF Statement, CollectionStatement, SettlementStatement
  <2>2. AccountsOf(tx) = Statement(w.proof).new_root.root
    BY <1>3 DEF AccountsOf
  <2> QED
    BY <2>1, <2>2 DEF Root
<1>8. CollectionLeaf(tx, 1, w) => w.public_values.action = "collect"
  BY DEF CollectionLeaf, CollectionStatementBound, StatementHeader
<1>9. SettlementLeaf(tx, 1, w) => w.public_values.action = "transfer_withdraw"
  BY DEF SettlementLeaf, SettlementStatementBound, StatementHeader
<1> QED
  BY <1>1, <1>3, <1>4, <1>6, <1>7, <1>8, <1>9

\* The relation keeps every key and every width.
LEMMA AccountsKeepWidth ==
  ASSUME NEW input, Accepts(input)
  PROVE  LET new == IF input.action = "collect" THEN CollectedState(input)
                                                ELSE SettledState(input)
         IN  /\ new \in AccountState(ValidKey)
             /\ \A id \in AccountId : new[id].key = input.old_state[id].key
<1>1. CASE input.action = "collect" /\ CollectionAccepted(input)
  BY <1>1, CollectionCredits DEF Accepts
<1>2. CASE input.action = "transfer_withdraw" /\ SettlementAccepted(input)
  BY <1>2, SettlementMoves DEF Accepts
<1> QED
  BY <1>1, <1>2 DEF Accepts

\* The accounts a genesis commits to have the deployment's keys.
LEMMA GenesisKeys ==
  ASSUME NEW tx, IsGenesis(tx)
  PROVE  \A id \in AccountId : AccountsOf(tx)[id].key = AccountKeys[id]
<1>1. Len(tx.outs) = 2
  BY GenesisOpens
<1>2. tx.outs[2] = Output(CabooseValue, Caboose(GenesisState(GenesisRoot)))
  BY DEF IsGenesis
<1>3. AccountsOf(tx) = ZeroState(AccountKeys)
  BY <1>1, <1>2 DEF AccountsOf, StateOf, LastOutput, Output, Caboose,
                    GenesisState, GenesisRoot, Root
<1> QED
  BY <1>3 DEF ZeroState

\* Theorem: no balance and no nonce a head commits to ever leaves its integer
\* width, and the account keys stay the deployment's, in every lineage.
THEOREM Widths == Spec => []AccountsInWidth
<1>1. Init => AccountsInWidth
  BY CoinbaseSpendsNothing DEF Init, AccountsInWidth
<1>2. AccountsInWidth /\ [Next]_vars => AccountsInWidth'
  <2> SUFFICES ASSUME AccountsInWidth, [Next]_vars
               PROVE  AccountsInWidth'
    OBVIOUS
  <2>1. ASSUME NEW package, Confirm(package)
        PROVE  AccountsInWidth'
    <3> DEFINE tx == package.tx
               p == ParentOf(tx)
    <3>1. ASSUME SpendsProgram(tx), NEW id \in AccountId
          PROVE  /\ AccountsOf(tx)[id].key = AccountKeys[id]
                 /\ AccountsOf(tx)[id].balance \in Amount
                 /\ AccountsOf(tx)[id].nonce \in Nonce
      <4>1. Acceptable(package, confirmed)
        BY <2>1 DEF Confirm
      <4>2. /\ AccountsOf(tx) \in AccountState(ValidKey)
            /\ AccountsOf(tx)[id].key = AccountsOf(p)[id].key
        BY <3>1, <4>1, ProofFromParent, AccountsKeepWidth
      <4>3. /\ p \in confirmed
            /\ IsGenesis(p) \/ SpendsProgram(p)
        BY <3>1, <4>1, HeadAdvances
      <4>4. AccountsOf(p)[id].key = AccountKeys[id]
        BY <4>3, GenesisKeys DEF AccountsInWidth
      <4> QED
        BY <4>2, <4>4 DEF AccountState
    <3> QED
      BY <2>1, <3>1 DEF Confirm, AccountsInWidth
  <2>2. CASE confirmed' \subseteq confirmed
    BY <2>2 DEF AccountsInWidth
  <2> QED
    BY <2>1, <2>2, StepConfirms
<1> QED
  BY <1>1, <1>2, PTL DEF Spec

-----------------------------------------------------------------------------
(* Deposits                                                                *)

\* Crediting one deposit moves the account it names and no other.
LEMMA CreditMoves ==
  ASSUME NEW state \in AccountState(ValidKey), NEW deposit,
         deposit.value \in Amount, NEW id \in AccountId
  PROVE  CreditAccount(state, deposit)[id] =
           Moved(state[id], IF deposit.recipient_id = id THEN deposit.value
                                                         ELSE 0, 0)
<1> DEFINE r == deposit.recipient_id
<1>1. /\ state \in [AccountId -> [key : ValidKey, balance : Amount, nonce : Nonce]]
      /\ state[id] \in [key : ValidKey, balance : Amount, nonce : Nonce]
  BY DEF AccountState
<1>2. /\ state[id].balance \in Int /\ state[id].nonce \in Int
      /\ state[id].balance + 0 = state[id].balance
      /\ state[id].nonce + 0 = state[id].nonce
  BY <1>1, CoinsAssumption DEF Amount, Nonce
<1>3. CASE r = id
  <2>1. CreditAccount(state, deposit)[id] =
          [state[id] EXCEPT !.balance = @ + deposit.value]
    BY <1>1, <1>3 DEF CreditAccount
  <2> QED
    BY <1>1, <1>2, <1>3, <2>1 DEF Moved
<1>4. CASE r # id
  <2>1. CreditAccount(state, deposit)[id] = state[id]
    BY <1>1, <1>4 DEF CreditAccount
  <2> QED
    BY <1>1, <1>2, <1>4, <2>1 DEF Moved
<1> QED
  BY <1>3, <1>4

\* A collection moves each account by the deposits that name it.
LEMMA CollectionMoves ==
  ASSUME NEW input, HasWidths(input), input.action = "collect",
         CollectionAccepted(input), NEW id \in AccountId
  PROVE  LET held(k) == IF input.deposits[k].recipient_id = id
                        THEN input.deposits[k].value ELSE 0
         IN  CollectedState(input)[id] =
               Moved(input.old_state[id], held(1) + held(2), 0)
<1> DEFINE old == input.old_state
           first == CreditAccount(old, input.deposits[1])
           held(k) == IF input.deposits[k].recipient_id = id
                      THEN input.deposits[k].value ELSE 0
<1>1. /\ old \in AccountState(ValidKey)
      /\ input.deposits[1].value \in Amount
      /\ input.deposits[2].value \in Amount
  BY DEF HasWidths
<1>2. first \in AccountState(ValidKey)
  BY <1>1, CreditKeepsWidth DEF CollectionAccepted
<1>3. first[id] = Moved(old[id], held(1), 0)
  BY <1>1, CreditMoves
<1> HIDE DEF first
<1>4. CreditAccount(first, input.deposits[2])[id] = Moved(first[id], held(2), 0)
  BY <1>1, <1>2, CreditMoves
<1>5. /\ old[id].balance \in Int /\ old[id].nonce \in Int
      /\ held(1) \in Int /\ held(2) \in Int
  BY <1>1, CoinsAssumption DEF AccountState, Amount, Nonce
<1>6. Moved(Moved(old[id], held(1), 0), held(2), 0) =
        Moved(old[id], held(1) + held(2), 0)
  BY <1>5 DEF Moved
<1> QED
  BY <1>3, <1>4, <1>6 DEF CollectedState, first

\* A deposit input that takes the collection path is credited: input 0 runs
\* the collection leaf of the same program, which binds the identity, the
\* account and the value of both deposits to the proved statement.
LEMMA CollectedDeposit ==
  ASSUME NEW package, NEW chain, Acceptable(package, chain),
         NEW i \in 1 .. Len(package.tx.ins),
         SpentSpk(package.tx, i).program = Program,
         DepositCollectPath(SpentSpk(package.tx, i), package.tx, i,
                            package.wit[i])
  PROVE  LET tx == package.tx
         IN  /\ IsCollection(tx)
             /\ StateOf(tx).bridge_id = SpentSpk(tx, i).bridge_id
             /\ \A id \in AccountId :
                  AccountsOf(tx)[id] =
                    Moved(AccountsOf(ParentOf(tx))[id],
                          CreditTo(tx, 2, id) + CreditTo(tx, 3, id), 0)
<1> DEFINE tx == package.tx
           w == package.wit[1]
<1>1. Len(tx.ins) = 4 /\ i \in 2 .. 3 /\ SpentSpk(tx, 1) = Program
  BY DEF DepositCollectPath, Running
<1>2. SpendsProgram(tx) /\ IsCollection(tx)
  <2>1. 1 \in 1 .. Len(tx.ins)
    BY <1>1
  <2> QED
    BY <1>1, <2>1 DEF SpendsProgram, IsCollection
<1>3. /\ Accepts(w.proof)
      /\ w.proof.old_state = AccountsOf(ParentOf(tx))
      /\ CollectionLeaf(tx, 1, w) /\ w.proof.action = "collect"
      /\ AccountsOf(tx) = CollectedState(w.proof)
  <2>1. ~ SettlementLeaf(tx, 1, w)
    BY <1>1 DEF SettlementLeaf, Context, Running
  <2> QED
    BY <1>2, <2>1, ProofFromParent
<1>4. /\ AuthenticateDeposit(tx, w, 1)
      /\ AuthenticateDeposit(tx, w, 2)
      /\ AuthenticateParent(tx, w)
      /\ CollectionStatementBound(tx, w)
      /\ Statement(w.proof) = w.public_values
  BY <1>3 DEF CollectionLeaf, VerifyProof
<1>5. /\ SpentSpk(tx, 2).bridge_id = w.bridge_id
      /\ SpentSpk(tx, 2).recipient_id = w.recipients[1]
      /\ SpentSpk(tx, 3).bridge_id = w.bridge_id
      /\ SpentSpk(tx, 3).recipient_id = w.recipients[2]
  BY <1>4 DEF AuthenticateDeposit, DepositSpk
<1>6. StateOf(tx).bridge_id = SpentSpk(tx, i).bridge_id
  <2>1. StateOf(tx) = w.new_state
    BY <1>3, LeafCreates
  <2>2. w.new_state.bridge_id = w.bridge_id
    BY <1>4 DEF AuthenticateParent
  <2>3. i = 2 \/ i = 3
    BY <1>1
  <2> QED
    BY <1>5, <2>1, <2>2, <2>3
<1>7. \A k \in 1 .. 2 :
        /\ w.proof.deposits[k].value = SpentValue(tx, k + 1)
        /\ w.proof.deposits[k].recipient_id = w.recipients[k]
  <2> SUFFICES ASSUME NEW k \in 1 .. 2
               PROVE  /\ w.proof.deposits[k].value = SpentValue(tx, k + 1)
                      /\ w.proof.deposits[k].recipient_id = w.recipients[k]
    OBVIOUS
  <2>1. w.public_values.deposits[k] =
          [outpoint |-> tx.ins[k + 1], value |-> SpentValue(tx, k + 1),
           recipient_id |-> w.recipients[k], key |-> AccountKeys[w.recipients[k]]]
    BY <1>4 DEF CollectionStatementBound
  <2>2. w.public_values.deposits[k] =
          [outpoint |-> w.proof.deposits[k].outpoint,
           value |-> w.proof.deposits[k].value,
           recipient_id |-> w.proof.deposits[k].recipient_id,
           key |-> w.proof.old_state[w.proof.deposits[k].recipient_id].key]
    <3>1. Statement(w.proof) = CollectionStatement(w.proof)
      BY <1>3 DEF Statement
    <3>2. CollectionStatement(w.proof).deposits[k] =
            [outpoint |-> w.proof.deposits[k].outpoint,
             value |-> w.proof.deposits[k].value,
             recipient_id |-> w.proof.deposits[k].recipient_id,
             key |-> w.proof.old_state[w.proof.deposits[k].recipient_id].key]
      BY DEF CollectionStatement
    <3> QED
      BY <1>4, <3>1, <3>2
  <2> QED
    BY <2>1, <2>2
<1>8. ASSUME NEW id \in AccountId
      PROVE  AccountsOf(tx)[id] =
               Moved(AccountsOf(ParentOf(tx))[id],
                     CreditTo(tx, 2, id) + CreditTo(tx, 3, id), 0)
  <2>1. /\ w.proof.deposits[1].value = SpentValue(tx, 2)
        /\ w.proof.deposits[1].recipient_id = SpentSpk(tx, 2).recipient_id
        /\ w.proof.deposits[2].value = SpentValue(tx, 3)
        /\ w.proof.deposits[2].recipient_id = SpentSpk(tx, 3).recipient_id
    BY <1>5, <1>7
  <2>2. HasWidths(w.proof) /\ CollectionAccepted(w.proof)
    BY <1>3 DEF Accepts
  <2> QED
    BY <1>3, <2>1, <2>2, CollectionMoves DEF CreditTo
<1> QED
  BY <1>2, <1>6, <1>8

\* The signature of a refund is only ever made for that refund: the requests'
\* signatures sign messages of other domains.
LEMMA RefundsAreSigned ==
  ASSUME NEW key, NEW tx, Signature(key, TxId(tx)) \in Signatures
  PROVE  \E outpoint \in refunding : tx = RefundTx(outpoint)
<1>1. \A request \in agreed :
        Signature(key, TxId(tx)) \notin RequestSignatures(request)
  <2> SUFFICES ASSUME NEW request \in agreed
               PROVE  Signature(key, TxId(tx)) \notin RequestSignatures(request)
    OBVIOUS
  <2>1. Signature(key, TxId(tx)).message = [tx |-> tx]
    BY DEF Signature, TxId
  <2>2. \A s \in RequestSignatures(request) : "domain" \in DOMAIN s.message
    BY DEF RequestSignatures, NativeSignature, ScopedSignature,
           WithdrawalSignature, Signature, NativeMessage,
           ScopedTransferMessage, WithdrawalMessage
  <2> QED
    BY <2>1, <2>2
<1>2. PICK outpoint \in refunding :
        Signature(key, TxId(tx)) = RefundSignature(outpoint)
  BY <1>1 DEF Signatures
<1> QED
  BY <1>2 DEF RefundSignature, Signature, TxId

\* Theorem: a deposit is spent by the refund its owner signed, or by a
\* collection of the instance it names that credits its value to the account
\* it names, and never in any other way, reorganizations included.
THEOREM Deposits == Spec => []DepositsRefundedOrCredited
<1>1. Init => DepositsRefundedOrCredited
  BY CoinbaseSpendsNothing DEF Init, DepositsRefundedOrCredited
<1>2. DepositsRefundedOrCredited /\ [Next]_vars => DepositsRefundedOrCredited'
  <2> SUFFICES ASSUME DepositsRefundedOrCredited, [Next]_vars
               PROVE  DepositsRefundedOrCredited'
    OBVIOUS
  <2>1. ASSUME NEW package, Confirm(package)
        PROVE  DepositsRefundedOrCredited'
    <3> DEFINE tx == package.tx
    <3>1. ASSUME NEW i \in 1 .. Len(tx.ins),
                 SpentSpk(tx, i).kind = "deposit",
                 SpentSpk(tx, i).program = Program
          PROVE  \/ tx.ins[i] \in refunding /\ tx = RefundTx(tx.ins[i])
                 \/ /\ IsCollection(tx)
                    /\ StateOf(tx).bridge_id = SpentSpk(tx, i).bridge_id
                    /\ \A id \in AccountId :
                         AccountsOf(tx)[id] =
                           Moved(AccountsOf(ParentOf(tx))[id],
                                 CreditTo(tx, 2, id) + CreditTo(tx, 3, id), 0)
      <4> DEFINE spk == SpentSpk(tx, i)
                 w == package.wit[i]
      <4>1. Acceptable(package, confirmed) /\ Unforged(package, Signatures)
        BY <2>1 DEF Confirm
      <4>2. DepositScript(spk, tx, i, w)
        BY <3>1, <4>1 DEF Acceptable, ScriptAccepts
      <4>3. CASE DepositCollectPath(spk, tx, i, w)
        BY <3>1, <4>1, <4>3, CollectedDeposit
      <4>4. CASE w.path = "refund" /\ DepositRefundPath(spk, tx, w)
        <5>1. Signature(spk.refund_key, TxId(tx)) \in Signatures
          BY <3>1, <4>1, <4>4 DEF Unforged, SignaturesIn, DepositRefundPath,
                                  ValidSignature
        <5>2. PICK outpoint \in refunding : tx = RefundTx(outpoint)
          BY <5>1, RefundsAreSigned
        <5>3. tx.ins = <<outpoint>>
          BY <5>2 DEF RefundTx
        <5>4. tx.ins[i] = outpoint
          BY <3>1, <5>3
        <5> QED
          BY <5>2, <5>4
      <4> QED
        BY <4>2, <4>3, <4>4 DEF DepositScript
    <3> QED
      BY <2>1, <3>1 DEF Confirm, DepositsRefundedOrCredited
  <2>2. CASE confirmed' \subseteq confirmed /\ refunding \subseteq refunding'
    BY <2>2 DEF DepositsRefundedOrCredited
  <2> QED
    BY <2>1, <2>2, StepConfirms
<1> QED
  BY <1>1, <1>2, PTL DEF Spec

-----------------------------------------------------------------------------
(* Settlements                                                             *)

\* No refund signature is a request's: its message has no domain.
LEMMA RefundHasNoDomain ==
  ASSUME NEW key, NEW message, "domain" \in DOMAIN message,
         Signature(key, message) \in Signatures
  PROVE  \E request \in agreed :
           Signature(key, message) \in RequestSignatures(request)
<1>1. \A outpoint \in refunding :
        Signature(key, message) # RefundSignature(outpoint)
  <2> SUFFICES ASSUME NEW outpoint \in refunding,
                      Signature(key, message) = RefundSignature(outpoint)
               PROVE  FALSE
    OBVIOUS
  <2>1. message = [tx |-> RefundTx(outpoint)]
    BY DEF RefundSignature, Signature, TxId
  <2> QED
    BY <2>1
<1> QED
  BY <1>1 DEF Signatures

\* A scoped transfer signature that exists is of a request for that identity,
\* at the nonce and for the transfer the native message names.
LEMMA TransfersAreSigned ==
  ASSUME NEW key, NEW b, NEW transfer, NEW nonce,
         Signature(key, ScopedTransferMessage(b, NativeMessage(transfer, nonce)))
           \in Signatures
  PROVE  \E request \in agreed :
           /\ request.bridge_id = b
           /\ request.sender_nonce = nonce
           /\ TransferOf(request.terms) = transfer
<1> DEFINE message == ScopedTransferMessage(b, NativeMessage(transfer, nonce))
<1>1. message.domain = "transfer-auth" /\ "domain" \in DOMAIN message
  BY DEF ScopedTransferMessage
<1>2. PICK request \in agreed :
        Signature(key, message) \in RequestSignatures(request)
  BY <1>1, RefundHasNoDomain
<1>3. /\ NativeSignature(request.sender_nonce, request.terms).message.domain
           = "native"
      /\ WithdrawalSignature(request.bridge_id, request.withdrawal_nonce,
                             request.terms).message.domain = "withdrawal"
  BY DEF NativeSignature, WithdrawalSignature, Signature, NativeMessage,
         WithdrawalMessage
<1>4. Signature(key, message).message = message
  BY DEF Signature
<1>5. Signature(key, message) =
        ScopedSignature(request.bridge_id, request.sender_nonce, request.terms)
  BY <1>1, <1>2, <1>3, <1>4 DEF RequestSignatures
<1>6. message = ScopedTransferMessage(request.bridge_id,
                  NativeMessage(TransferOf(request.terms), request.sender_nonce))
  BY <1>4, <1>5 DEF ScopedSignature, Signature
<1>7. /\ b = request.bridge_id
      /\ NativeMessage(transfer, nonce) =
           NativeMessage(TransferOf(request.terms), request.sender_nonce)
  BY <1>6 DEF ScopedTransferMessage
<1> QED
  BY <1>7 DEF NativeMessage

\* A withdrawal signature that exists is of a request for that identity, at
\* that nonce, for that amount and destination.
LEMMA WithdrawalsAreSigned ==
  ASSUME NEW key, NEW b, NEW nonce, NEW amount, NEW destination,
         Signature(key, WithdrawalMessage(b, nonce, amount, destination))
           \in Signatures
  PROVE  \E request \in agreed :
           /\ request.bridge_id = b
           /\ request.withdrawal_nonce = nonce
           /\ request.terms.withdrawal_amount = amount
           /\ request.terms.withdrawal_destination = destination
<1> DEFINE message == WithdrawalMessage(b, nonce, amount, destination)
<1>1. message.domain = "withdrawal" /\ "domain" \in DOMAIN message
  BY DEF WithdrawalMessage
<1>2. PICK request \in agreed :
        Signature(key, message) \in RequestSignatures(request)
  BY <1>1, RefundHasNoDomain
<1>3. /\ NativeSignature(request.sender_nonce, request.terms).message.domain
           = "native"
      /\ ScopedSignature(request.bridge_id, request.sender_nonce,
                         request.terms).message.domain = "transfer-auth"
  BY DEF NativeSignature, ScopedSignature, Signature, NativeMessage,
         ScopedTransferMessage
<1>4. Signature(key, message).message = message
  BY DEF Signature
<1>5. Signature(key, message) =
        WithdrawalSignature(request.bridge_id, request.withdrawal_nonce,
                            request.terms)
  BY <1>1, <1>2, <1>3, <1>4 DEF RequestSignatures
<1>6. message = WithdrawalMessage(request.bridge_id, request.withdrawal_nonce,
                  request.terms.withdrawal_amount,
                  request.terms.withdrawal_destination)
  BY <1>4, <1>5 DEF WithdrawalSignature, Signature
<1> QED
  BY <1>6 DEF WithdrawalMessage

\* A settlement moves each account by what its transfer and withdrawal say.
LEMMA SettlementPays ==
  ASSUME NEW input, HasWidths(input), input.action = "transfer_withdraw",
         SettlementAccepted(input)
  PROVE  LET old == input.old_state
             t == input.transfer
         IN  /\ SettledState(input)[0] = Moved(old[0], -(t.amount + t.fee), 1)
             /\ SettledState(input)[1] =
                  Moved(old[1], t.amount - input.withdrawal_amount, 1)
             /\ SettledState(input)[2] = Moved(old[2], t.fee, 0)
             /\ input.withdrawal_nonce = old[1].nonce
<1> DEFINE old == input.old_state
           t == input.transfer
           mid == TransferApplied(old, t)
           account == [key : ValidKey, balance : Amount, nonce : Nonce]
<1>1. /\ old \in [AccountId -> account]
      /\ t.amount \in Nat /\ input.withdrawal_amount \in Nat
  BY CoinsAssumption DEF HasWidths, Amount, AccountState
<1>2. old[1].balance \in Int /\ old[1].nonce \in Int
  BY <1>1, CoinsAssumption DEF AccountId, Amount, Nonce
<1>3. mid = [old EXCEPT ![0] = Moved(old[0], -(t.amount + t.fee), 1),
                        ![1] = Moved(old[1], t.amount, 0),
                        ![2] = Moved(old[2], t.fee, 0)]
  BY DEF TransferApplied, TransferSenderId, WithdrawalAccountId, FeeAccountId
<1>4. input.withdrawal_nonce = mid[1].nonce
  BY DEF SettlementAccepted, WithdrawalAuthorized, WithdrawalAccountId
<1>5. SettledState(input) =
        [mid EXCEPT ![1] = Moved(mid[1], -input.withdrawal_amount, 1)]
  BY DEF SettledState, WithdrawalAccountId
<1> HIDE DEF mid
<1>6. /\ mid[0] = Moved(old[0], -(t.amount + t.fee), 1)
      /\ mid[1] = Moved(old[1], t.amount, 0)
      /\ mid[2] = Moved(old[2], t.fee, 0)
      /\ DOMAIN mid = AccountId
  BY <1>1, <1>3 DEF AccountId
<1>7. /\ SettledState(input)[0] = mid[0]
      /\ SettledState(input)[1] = Moved(mid[1], -input.withdrawal_amount, 1)
      /\ SettledState(input)[2] = mid[2]
  BY <1>5, <1>6 DEF AccountId
<1>8. Moved(Moved(old[1], t.amount, 0), -input.withdrawal_amount, 1) =
        Moved(old[1], t.amount - input.withdrawal_amount, 1)
  BY <1>1, <1>2 DEF Moved
<1>9. Moved(old[1], t.amount, 0).nonce = old[1].nonce
  BY <1>2 DEF Moved
<1> QED
  BY <1>4, <1>6, <1>7, <1>8, <1>9

\* An accepted settlement reveals a signature of each holder, and so moves
\* what a request of each of them says.
LEMMA SettlementAuthorized ==
  ASSUME NEW package, Acceptable(package, confirmed),
         Unforged(package, Signatures), IsSettlement(package.tx)
  PROVE  LET tx == package.tx
             old == AccountsOf(ParentOf(tx))
             b == StateOf(tx).bridge_id
         IN  \E moved, paid \in agreed :
               /\ moved.bridge_id = b
               /\ moved.sender_nonce = old[0].nonce
               /\ paid.bridge_id = b
               /\ paid.withdrawal_nonce = old[1].nonce
               /\ tx.outs[2] = Output(paid.terms.withdrawal_amount,
                                      paid.terms.withdrawal_destination)
               /\ AccountsOf(tx)[0] =
                    Moved(old[0], -(moved.terms.transfer_amount
                                      + moved.terms.transfer_fee), 1)
               /\ AccountsOf(tx)[1] =
                    Moved(old[1], moved.terms.transfer_amount
                                    - paid.terms.withdrawal_amount, 1)
               /\ AccountsOf(tx)[2] =
                    Moved(old[2], moved.terms.transfer_fee, 0)
               /\ moved.terms.transfer_amount \in Nat
               /\ moved.terms.transfer_fee \in Nat
               /\ paid.terms.withdrawal_amount \in Nat
<1> DEFINE tx == package.tx
           w == package.wit[1]
           proof == w.proof
           old == AccountsOf(ParentOf(tx))
           b == StateOf(tx).bridge_id
<1>1. SpendsProgram(tx) /\ Len(tx.ins) = 2
  BY DEF IsSettlement
<1>2. /\ Accepts(proof)
      /\ proof.old_state = old
      /\ SettlementLeaf(tx, 1, w)
      /\ proof.action = "transfer_withdraw"
      /\ AccountsOf(tx) = SettledState(proof)
  <2>1. ~ CollectionLeaf(tx, 1, w)
    BY <1>1 DEF CollectionLeaf, Context, Running
  <2> QED
    BY <1>1, <2>1, ProofFromParent
<1>3. HasWidths(proof) /\ SettlementAccepted(proof)
  BY <1>2 DEF Accepts
<1>4. /\ StateOf(tx) = w.new_state
      /\ AuthenticateParent(tx, w)
      /\ Statement(proof) = w.public_values
  BY <1>2, LeafCreates DEF VerifyProof
<1>5. /\ proof.bridge_id = b
      /\ w.public_values.withdrawal_amount = proof.withdrawal_amount
      /\ w.public_values.withdrawal_destination = proof.withdrawal_destination
  <2>1. Statement(proof) = SettlementStatement(proof)
    BY <1>2 DEF Statement
  <2>2. w.public_values.bridge_id = w.bridge_id
    BY <1>2 DEF SettlementLeaf, SettlementStatementBound, StatementHeader
  <2>3. w.bridge_id = b
    BY <1>4 DEF AuthenticateParent
  <2> QED
    BY <1>4, <2>1, <2>2, <2>3 DEF SettlementStatement
<1>6. w.path = "settlement"
  <2>1. 1 \in 1 .. Len(tx.ins)
    BY <1>1
  <2>2. SpentSpk(tx, 1).kind = "program"
    <3>1. PICK i \in 1 .. Len(tx.ins) : SpentSpk(tx, i) = Program
      BY <1>1 DEF SpendsProgram
    <3>2. i = 1
      BY <3>1, ProgramRuns
    <3> QED
      BY <3>1, <3>2 DEF Program
  <2>3. BridgeScript(tx, 1, w)
    BY <2>1, <2>2 DEF Acceptable, ScriptAccepts
  <2> QED
    BY <1>1, <2>3 DEF BridgeScript, CollectionLeaf, Context, Running
<1>7. /\ proof.scoped_transfer_signature \in Signatures
      /\ proof.withdrawal_signature \in Signatures
  <2>1. SignaturesIn(w) \subseteq Signatures
    <3>1. 1 \in 1 .. Len(tx.ins)
      BY <1>1
    <3> QED
      BY <3>1 DEF Unforged
  <2> QED
    BY <1>6, <2>1 DEF SignaturesIn
<1>8. PICK moved \in agreed :
        /\ moved.bridge_id = b
        /\ moved.sender_nonce = old[0].nonce
        /\ TransferOf(moved.terms) = proof.transfer
  <2>1. proof.scoped_transfer_signature =
          Signature(old[0].key,
                    ScopedTransferMessage(b,
                      NativeMessage(proof.transfer, old[0].nonce)))
    BY <1>2, <1>3, <1>5 DEF SettlementAccepted, TransferAuthorized,
                            ValidSignature, TransferSenderId
  <2> QED
    BY <1>7, <2>1, TransfersAreSigned
<1>9. /\ AccountsOf(tx)[0] = Moved(old[0], -(proof.transfer.amount
                                               + proof.transfer.fee), 1)
      /\ AccountsOf(tx)[1] = Moved(old[1], proof.transfer.amount
                                             - proof.withdrawal_amount, 1)
      /\ AccountsOf(tx)[2] = Moved(old[2], proof.transfer.fee, 0)
      /\ proof.withdrawal_nonce = old[1].nonce
  BY <1>2, <1>3, SettlementPays
<1>10. PICK paid \in agreed :
         /\ paid.bridge_id = b
         /\ paid.withdrawal_nonce = old[1].nonce
         /\ paid.terms.withdrawal_amount = proof.withdrawal_amount
         /\ paid.terms.withdrawal_destination = proof.withdrawal_destination
  <2>1. PICK key : proof.withdrawal_signature =
          Signature(key, WithdrawalMessage(b, proof.withdrawal_nonce,
                                           proof.withdrawal_amount,
                                           proof.withdrawal_destination))
    BY <1>3, <1>5 DEF SettlementAccepted, WithdrawalAuthorized, ValidSignature
  <2> QED
    BY <1>7, <1>9, <2>1, WithdrawalsAreSigned
<1>11. tx.outs[2] = Output(paid.terms.withdrawal_amount,
                           paid.terms.withdrawal_destination)
  BY <1>2, <1>5, <1>10, SettlementCreates
<1>12. /\ proof.transfer.amount = moved.terms.transfer_amount
       /\ proof.transfer.fee = moved.terms.transfer_fee
  BY <1>8 DEF TransferOf
<1>13. /\ moved.terms.transfer_amount \in Nat
       /\ moved.terms.transfer_fee \in Nat
       /\ paid.terms.withdrawal_amount \in Nat
  BY <1>2, <1>3, <1>10, <1>12, CoinsAssumption DEF HasWidths, Amount
<1> QED
  BY <1>8, <1>9, <1>10, <1>11, <1>12, <1>13

\* Theorem: every settlement on the chain moves and pays out only what the
\* holders of accounts 0 and 1 signed for this identity at these nonces,
\* whatever else they signed, for this instance or another.
THEOREM Settlements_Authorized == Spec => []SettlementsAuthorized
<1>1. Init => SettlementsAuthorized
  BY CoinbaseSpendsNothing DEF Init, SettlementsAuthorized, IsSettlement
<1>2. SettlementsAuthorized /\ [Next]_vars => SettlementsAuthorized'
  <2> SUFFICES ASSUME SettlementsAuthorized, [Next]_vars
               PROVE  SettlementsAuthorized'
    OBVIOUS
  <2>1. ASSUME NEW package, Confirm(package)
        PROVE  SettlementsAuthorized'
    <3>1. /\ Acceptable(package, confirmed) /\ Unforged(package, Signatures)
          /\ confirmed' = confirmed \cup {package.tx}
          /\ agreed' = agreed
      BY <2>1 DEF Confirm
    <3> QED
      BY <3>1, SettlementAuthorized DEF SettlementsAuthorized
  <2>2. CASE confirmed' \subseteq confirmed /\ agreed \subseteq agreed'
    BY <2>2 DEF SettlementsAuthorized
  <2> QED
    BY <2>1, <2>2, StepConfirms
<1> QED
  BY <1>1, <1>2, PTL DEF Spec

=============================================================================
