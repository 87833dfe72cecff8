----------------------------- MODULE SpendProofs -----------------------------
(***************************************************************************)
(* What can be spent, for every chain and every value of the constants:    *)
(* the exact fee of a transition, and that honest packages are accepted.   *)
(* The lineage invariant says which transactions the heads are; what they  *)
(* look like is the invariant HeadForms, established by the leaf that      *)
(* created each head and needed by the leaf that spends it.                *)
(***************************************************************************)
EXTENDS LineageProofs, WellFoundedInduction

-----------------------------------------------------------------------------
(* Sums                                                                    *)

\* A non-empty set of naturals has a least element.
LEMMA LeastNatural ==
  ASSUME NEW T \in SUBSET Nat, T # {}
  PROVE  \E x \in T : \A y \in T : x <= y
<1>1. IsWellFoundedOn(OpToRel(<, Nat), Nat)
  BY NatLessThanWellFounded
<1>2. PICK x \in T : \A y \in T : ~ (<<y, x>> \in OpToRel(<, Nat))
  BY <1>1, WFMin
<1>3. \A y \in T : ~ (y < x)
  BY <1>2 DEF OpToRel
<1> QED
  BY <1>3

\* The partial sums of any number of integers exist: were m the least count
\* they do not exist for, those of m - 1 extended by one would be they.
LEMMA SumsExist ==
  ASSUME NEW values, NEW count \in Nat, \A k \in 1 .. count : values[k] \in Int
  PROVE  \E sum \in [0 .. count -> Int] :
           sum = [k \in 0 .. count |->
                    IF k = 0 THEN 0 ELSE sum[k - 1] + values[k]]
<1> DEFINE Sums(m, sum) ==
             /\ sum \in [0 .. m -> Int]
             /\ sum = [k \in 0 .. m |->
                         IF k = 0 THEN 0 ELSE sum[k - 1] + values[k]]
           T == {m \in 0 .. count : ~ \E sum : Sums(m, sum)}
<1>1. SUFFICES ASSUME T # {} PROVE FALSE
  <2>1. CASE count \notin T
    <3>1. PICK sum : Sums(count, sum)
      BY <2>1
    <3> QED
      BY <3>1
  <2> QED
    BY <2>1
<1>2. PICK m \in T : \A y \in T : m <= y
  <2>1. T \in SUBSET Nat
    OBVIOUS
  <2> HIDE DEF T
  <2> QED
    BY <1>1, <2>1, LeastNatural
<1>3. m \in 0 .. count
  OBVIOUS
<1>4. m # 0
  <2>1. Sums(0, [k \in 0 .. 0 |-> 0])
    OBVIOUS
  <2> QED
    BY <2>1
<1>5. PICK sum : Sums(m - 1, sum)
  <2>1. m - 1 \in 0 .. count /\ ~ (m <= m - 1)
    BY <1>3, <1>4
  <2>2. m - 1 \notin T
    <3> HIDE DEF T
    <3> QED
      BY <1>2, <2>1
  <2> QED
    BY <2>1, <2>2
<1> DEFINE next == [k \in 0 .. m |->
                      IF k = m THEN sum[m - 1] + values[m] ELSE sum[k]]
<1>6. next \in [0 .. m -> Int]
  BY <1>3, <1>4, <1>5
<1>7. \A k \in 0 .. m :
        next[k] = IF k = 0 THEN 0 ELSE next[k - 1] + values[k]
  BY <1>3, <1>4, <1>5
<1>8. Sums(m, next)
  BY <1>6, <1>7
<1> QED
  BY <1>8

\* So a total is the last of its partial sums.
LEMMA TotalIsLast ==
  ASSUME NEW values, NEW count \in Nat, \A k \in 1 .. count : values[k] \in Int
  PROVE  \E sum \in [0 .. count -> Int] :
           /\ sum[0] = 0
           /\ \A k \in 1 .. count : sum[k] = sum[k - 1] + values[k]
           /\ Total(values, count) = sum[count]
<1> DEFINE g == CHOOSE sum :
                  sum = [k \in 0 .. count |->
                           IF k = 0 THEN 0 ELSE sum[k - 1] + values[k]]
<1>1. g = [k \in 0 .. count |-> IF k = 0 THEN 0 ELSE g[k - 1] + values[k]]
  <2>1. \E sum : sum = [k \in 0 .. count |->
                          IF k = 0 THEN 0 ELSE sum[k - 1] + values[k]]
    <3>1. PICK sum \in [0 .. count -> Int] :
            sum = [k \in 0 .. count |->
                     IF k = 0 THEN 0 ELSE sum[k - 1] + values[k]]
      BY SumsExist
    <3> QED
      BY <3>1, Zenon
  <2> QED
    BY <2>1, Zenon
<1>2. Total(values, count) = g[count]
  BY DEF Total
<1> HIDE DEF g
<1>3. g[0] = 0 /\ \A k \in 1 .. count : g[k] = g[k - 1] + values[k]
  BY <1>1
<1>4. \A k \in 0 .. count : g[k] \in Int
  <2> DEFINE T == {k \in 0 .. count : g[k] \notin Int}
  <2> SUFFICES ASSUME T # {} PROVE FALSE
    OBVIOUS
  <2>1. PICK m \in T : \A y \in T : m <= y
    <3>1. T \in SUBSET Nat
      OBVIOUS
    <3> HIDE DEF T
    <3> QED
      BY <3>1, LeastNatural
  <2>2. m \in 1 .. count /\ m - 1 \in 0 .. count
    BY <1>3, <2>1
  <2>3. g[m - 1] \in Int
    BY <2>1, <2>2
  <2> QED
    BY <1>3, <2>1, <2>2, <2>3
<1>5. g \in [0 .. count -> Int]
  BY <1>1, <1>4
<1> QED
  BY <1>2, <1>3, <1>5

\* Up to four summands, written out.
LEMMA TotalOfFew ==
  ASSUME NEW values, NEW count \in 1 .. 4,
         \A k \in 1 .. count : values[k] \in Int
  PROVE  /\ count = 1 => Total(values, count) = values[1]
         /\ count = 2 => Total(values, count) = values[1] + values[2]
         /\ count = 3 =>
              Total(values, count) = values[1] + values[2] + values[3]
         /\ count = 4 =>
              Total(values, count) = values[1] + values[2] + values[3] + values[4]
<1>1. count \in Nat
  OBVIOUS
<1> PICK sum \in [0 .. count -> Int] :
      /\ sum[0] = 0
      /\ \A k \in 1 .. count : sum[k] = sum[k - 1] + values[k]
      /\ Total(values, count) = sum[count]
  BY <1>1, TotalIsLast
<1>2. sum[1] = values[1]
  OBVIOUS
<1>3. count >= 2 => sum[2] = values[1] + values[2]
  BY <1>2
<1>4. count >= 3 => sum[3] = values[1] + values[2] + values[3]
  BY <1>3
<1>5. count >= 4 => sum[4] = values[1] + values[2] + values[3] + values[4]
  BY <1>4
<1> QED
  BY <1>2, <1>3, <1>4, <1>5

\* What a transaction of one, two or four inputs spends.
LEMMA InputsSum ==
  ASSUME NEW tx, NEW n \in 1 .. 4, Len(tx.ins) = n,
         \A i \in 1 .. n : SpentValue(tx, i) \in Int
  PROVE  /\ n = 1 => InputValue(tx) = SpentValue(tx, 1)
         /\ n = 2 => InputValue(tx) = SpentValue(tx, 1) + SpentValue(tx, 2)
         /\ n = 4 => InputValue(tx) = SpentValue(tx, 1) + SpentValue(tx, 2)
                                        + SpentValue(tx, 3) + SpentValue(tx, 4)
<1> DEFINE values == [i \in 1 .. n |-> SpentValue(tx, i)]
<1>1. /\ \A i \in 1 .. n : values[i] = SpentValue(tx, i)
      /\ \A i \in 1 .. n : values[i] \in Int
  OBVIOUS
<1>2. InputValue(tx) = Total(values, n)
  BY Zenon DEF InputValue
<1> HIDE DEF values
<1>3. /\ n = 1 => InputValue(tx) = values[1]
      /\ n = 2 => InputValue(tx) = values[1] + values[2]
      /\ n = 4 => InputValue(tx) = values[1] + values[2] + values[3] + values[4]
  BY <1>1, <1>2, TotalOfFew
<1> QED
  BY <1>1, <1>3

\* What a transaction of one, three or four outputs pays.
LEMMA OutputsSum ==
  ASSUME NEW tx, NEW n \in 1 .. 4, Len(tx.outs) = n,
         \A j \in 1 .. n : tx.outs[j].value \in Int
  PROVE  /\ n = 1 => OutputValue(tx) = tx.outs[1].value
         /\ n = 3 => OutputValue(tx) = tx.outs[1].value + tx.outs[2].value
                                         + tx.outs[3].value
         /\ n = 4 => OutputValue(tx) = tx.outs[1].value + tx.outs[2].value
                                         + tx.outs[3].value + tx.outs[4].value
<1> DEFINE values == [j \in 1 .. n |-> tx.outs[j].value]
<1>1. /\ \A j \in 1 .. n : values[j] = tx.outs[j].value
      /\ \A j \in 1 .. n : values[j] \in Int
  OBVIOUS
<1>2. OutputValue(tx) = Total(values, n)
  BY Zenon DEF OutputValue
<1> HIDE DEF values
<1>3. /\ n = 1 => OutputValue(tx) = values[1]
      /\ n = 3 => OutputValue(tx) = values[1] + values[2] + values[3]
      /\ n = 4 => OutputValue(tx) = values[1] + values[2] + values[3] + values[4]
  BY <1>1, <1>2, TotalOfFew
<1> QED
  BY <1>1, <1>3

-----------------------------------------------------------------------------
(* The fee                                                                 *)

\* vout counts from zero, outs from one.
LEMMA IndexFromZero ==
  ASSUME NEW n \in Nat, NEW vout \in 0 .. n - 1
  PROVE  vout + 1 \in 1 .. n
OBVIOUS

\* The statement of a collection repeats the amounts of its input.
LEMMA CollectionStates ==
  ASSUME NEW input
  PROVE  /\ CollectionStatement(input).old_backing = input.old_backing
         /\ CollectionStatement(input).deposits[1].value =
              input.deposits[1].value
         /\ CollectionStatement(input).deposits[2].value =
              input.deposits[2].value
BY DEF CollectionStatement

\* Every output of a confirmed transaction holds an amount.
LEMMA OutputsInWidth ==
  ASSUME TypeOK, NEW tx \in confirmed, NEW j \in 1 .. Len(tx.outs)
  PROVE  tx.outs[j].value \in Amount
BY CoinbasesAssumption DEF TypeOK, WellFormed

\* An input spends an output of a well-formed transaction.
LEMMA InputsInWidth ==
  ASSUME TypeOK, NEW package, Acceptable(package, confirmed),
         NEW i \in 1 .. Len(package.tx.ins)
  PROVE  SpentValue(package.tx, i) \in Amount
<1> DEFINE o == package.tx.ins[i]
<1>1. o.txid.tx \in confirmed /\ o.vout \in 0 .. Len(o.txid.tx.outs) - 1
  BY DEF Acceptable, InputsAvailable
<1>2. Len(o.txid.tx.outs) \in Nat
  BY <1>1, CoinbasesAssumption DEF TypeOK, WellFormed
<1>3. o.vout + 1 \in 1 .. Len(o.txid.tx.outs)
  BY <1>1, <1>2, IndexFromZero
<1> QED
  BY <1>1, <1>3, OutputsInWidth DEF SpentValue, SpentOutput

\* An accepted spend of the program pays the miner fee exactly: the sponsor's
\* change is fixed by the leaf, and the statement the proof is bound to keeps
\* the head's new value from wrapping.
LEMMA FeeIsExact ==
  ASSUME TypeOK, NEW package, Acceptable(package, confirmed),
         SpendsProgram(package.tx)
  PROVE  InputValue(package.tx) - OutputValue(package.tx) = MinerFee
<1> USE CoinsAssumption, CovenantAssumption
<1> DEFINE tx == package.tx
           w == package.wit[1]
           proof == w.proof
<1>1. \A i \in 1 .. Len(tx.ins) : SpentValue(tx, i) \in Amount
  BY InputsInWidth
<1>2. /\ Accepts(proof)
      /\ Statement(proof) = w.public_values
      /\ \/ CollectionLeaf(tx, 1, w) /\ proof.action = "collect"
         \/ SettlementLeaf(tx, 1, w) /\ proof.action = "transfer_withdraw"
  BY ProofFromParent, LeafRuns, LeafCreates DEF VerifyProof
<1>3. CASE CollectionLeaf(tx, 1, w) /\ proof.action = "collect"
  <2>1. /\ Len(tx.ins) = 4 /\ Len(tx.outs) = 3
        /\ tx.outs[1].value = CollectedAmount(tx)
        /\ tx.outs[2].value = SponsorChange(SpentValue(tx, 4))
        /\ tx.outs[3].value = CabooseValue
    BY <1>3 DEF CollectionLeaf, Context, Running, CollectionOutputs, Output
  <2>2. /\ w.public_values.old_backing = SpentValue(tx, 1)
        /\ w.public_values.deposits[1].value = SpentValue(tx, 2)
        /\ w.public_values.deposits[2].value = SpentValue(tx, 3)
    BY <1>3 DEF CollectionLeaf, CollectionStatementBound, StatementHeader
  <2>3. /\ w.public_values.old_backing = proof.old_backing
        /\ w.public_values.deposits[1].value = proof.deposits[1].value
        /\ w.public_values.deposits[2].value = proof.deposits[2].value
    BY <1>2, <1>3, CollectionStates DEF Statement
  <2>4. CollectedBacking(proof) <= MaxAmount
    BY <1>2, <1>3 DEF Accepts, CollectionAccepted
  <2>5. SpentValue(tx, 1) \in Nat /\ SpentValue(tx, 2) \in Nat
          /\ SpentValue(tx, 3) \in Nat /\ SpentValue(tx, 4) \in Nat
    BY <1>1, <2>1 DEF Amount
  <2>6. SpentValue(tx, 1) + SpentValue(tx, 2) + SpentValue(tx, 3) \in 0 .. MaxAmount
    BY <2>2, <2>3, <2>4, <2>5 DEF CollectedBacking
  <2>7. CollectedAmount(tx) =
          SpentValue(tx, 1) + SpentValue(tx, 2) + SpentValue(tx, 3)
    BY <2>6 DEF CollectedAmount
  <2>8. InputValue(tx) = SpentValue(tx, 1) + SpentValue(tx, 2)
                           + SpentValue(tx, 3) + SpentValue(tx, 4)
    BY <2>1, <2>5, InputsSum
  <2>9. OutputValue(tx) = CollectedAmount(tx)
          + SponsorChange(SpentValue(tx, 4)) + CabooseValue
    <3>1. \A j \in 1 .. 3 : tx.outs[j].value \in Int
      BY <2>1, <2>5, <2>6, <2>7 DEF SponsorChange
    <3> QED
      BY <2>1, <3>1, OutputsSum
  <2> QED
    BY <2>5, <2>6, <2>7, <2>8, <2>9 DEF SponsorChange
<1>4. CASE SettlementLeaf(tx, 1, w) /\ proof.action = "transfer_withdraw"
  <2> DEFINE payout == w.public_values.withdrawal_amount
  <2>1. /\ Len(tx.ins) = 2 /\ Len(tx.outs) = 4
        /\ tx.outs[1].value = SpentValue(tx, 1) - payout
        /\ tx.outs[2].value = payout
        /\ tx.outs[3].value = SponsorChange(SpentValue(tx, 2))
        /\ tx.outs[4].value = CabooseValue
    BY <1>4 DEF SettlementLeaf, Context, Running, SettlementOutputs, Output
  <2>2. payout \in Nat
    BY <1>2, <1>4 DEF Statement, SettlementStatement, Accepts, HasWidths, Amount
  <2>3. SpentValue(tx, 1) \in Nat /\ SpentValue(tx, 2) \in Nat
    BY <1>1, <2>1 DEF Amount
  <2>4. InputValue(tx) = SpentValue(tx, 1) + SpentValue(tx, 2)
    BY <2>1, <2>3, InputsSum
  <2>5. OutputValue(tx) = (SpentValue(tx, 1) - payout) + payout
          + SponsorChange(SpentValue(tx, 2)) + CabooseValue
    <3>1. \A j \in 1 .. 4 : tx.outs[j].value \in Int
      BY <2>1, <2>2, <2>3 DEF SponsorChange
    <3> QED
      BY <2>1, <3>1, OutputsSum
  <2> QED
    BY <2>2, <2>3, <2>4, <2>5 DEF SponsorChange
<1> QED
  BY <1>2, <1>3, <1>4

\* Theorem: the sponsor of every confirmed transition pays the exact miner
\* fee (docs/protocol.md), whatever the spender put in the outputs.
THEOREM FeeExact == Spec => []ExactFee
<1>1. Init => ExactFee
  BY CoinbaseSpendsNothing DEF Init, ExactFee
<1>2. TypeOK /\ ExactFee /\ [Next]_vars => ExactFee'
  <2> SUFFICES ASSUME TypeOK, ExactFee, [Next]_vars
               PROVE  ExactFee'
    OBVIOUS
  <2>1. ASSUME NEW package, Confirm(package)
        PROVE  ExactFee'
    BY <2>1, FeeIsExact DEF Confirm, ExactFee
  <2>2. CASE confirmed' \subseteq confirmed
    BY <2>2 DEF ExactFee
  <2> QED
    BY <2>1, <2>2, StepConfirms
<1> QED
  BY <1>1, <1>2, TypeCorrect, PTL DEF Spec

-----------------------------------------------------------------------------
(* The form of a head                                                      *)

\* What a leaf and the deposit program read of any head.
HeadForm(tx) ==
  /\ tx.ins[1] = OutPoint(ParentOf(tx), 0)
  /\ tx.outs[1] = Output(tx.outs[1].value, Program)
  /\ LastOutput(tx) = Output(CabooseValue, Caboose(StateOf(tx)))
  /\ StateOf(tx).root = Root(AccountsOf(tx))
  /\ AccountsOf(tx) \in AccountState(ValidKey)

\* And of a head that is no genesis.
Continues(tx) ==
  /\ CollectionShape(tx) \/ SettlementShape(tx)
  /\ tx.outs[Len(tx.outs) - 1].spk = Sponsor
  /\ AuthenticAncestor(tx, ParentOf(tx))
  /\ StateOf(tx).phase = "active"

HeadForms ==
  \A tx \in confirmed :
    /\ IsGenesis(tx) \/ SpendsProgram(tx) => HeadForm(tx)
    /\ SpendsProgram(tx) => Continues(tx)

\* The deployment's zero state is a state of the relation.
LEMMA ZeroStateTyped == ZeroState(AccountKeys) \in AccountState(ValidKey)
<1>1. \A id \in AccountId : AccountKeys[id] \in ValidKey
  BY AccountKeysAssumption DEF Validate, ZeroState
<1> QED
  BY <1>1, CoinsAssumption DEF ZeroState, AccountState, Amount, Nonce

\* A genesis has the form of a head.
LEMMA GenesisForm ==
  ASSUME NEW package, NEW chain, Acceptable(package, chain),
         IsGenesis(package.tx)
  PROVE  HeadForm(package.tx)
<1> DEFINE tx == package.tx
<1>1. /\ Len(tx.ins) = 1 /\ Len(tx.outs) = 2
      /\ tx.outs[1].spk = Program
      /\ tx.outs[2] = Output(CabooseValue, Caboose(GenesisState(GenesisRoot)))
      /\ tx.ins[1].vout = 0
  BY DEF IsGenesis, OneInputTwoOutputs, HasShape
<1>2. tx.ins[1] = OutPoint(ParentOf(tx), 0)
  BY <1>1 DEF Acceptable, InputsAvailable, ParentOf
<1>3. tx.outs[1] = Output(tx.outs[1].value, Program)
  BY <1>1 DEF Acceptable, WellFormed
<1>4. StateOf(tx) = GenesisState(GenesisRoot)
  BY <1>1 DEF StateOf, LastOutput, Output, Caboose
<1>5. AccountsOf(tx) = ZeroState(AccountKeys)
  BY <1>4 DEF AccountsOf, GenesisState, GenesisRoot, Root
<1>6. StateOf(tx).root = Root(AccountsOf(tx))
  BY <1>4, <1>5 DEF GenesisState, GenesisRoot
<1> QED
  BY <1>1, <1>2, <1>3, <1>4, <1>5, <1>6, ZeroStateTyped DEF HeadForm, LastOutput

\* What the leaf that created a head fixed of it.
LEMMA LeafFixesForm ==
  ASSUME NEW tx, NEW w,
         CollectionLeaf(tx, 1, w) \/ SettlementLeaf(tx, 1, w)
  PROVE  /\ CollectionShape(tx) \/ SettlementShape(tx)
         /\ tx.outs[Len(tx.outs) - 1].spk = Sponsor
         /\ tx.outs[1] = Output(tx.outs[1].value, Program)
         /\ LastOutput(tx) = Output(CabooseValue, Caboose(w.new_state))
<1>1. /\ Is34Bytes(Program) /\ Is34Bytes(Sponsor)
      /\ Is34Bytes(Caboose(w.new_state))
  BY DEF Is34Bytes, Program, Sponsor, Caboose
<1>2. CASE CollectionLeaf(tx, 1, w)
  <2>1. /\ tx.form = 0 /\ Len(tx.ins) = 4 /\ Len(tx.outs) = 3
        /\ tx.outs[1] = Output(CollectedAmount(tx), Program)
        /\ tx.outs[2] = Output(SponsorChange(SpentValue(tx, 4)), Sponsor)
        /\ tx.outs[3] = Output(CabooseValue, Caboose(w.new_state))
    BY <1>2 DEF CollectionLeaf, Context, Running, CollectionOutputs
  <2>2. /\ tx.outs[1].spk = Program /\ tx.outs[2].spk = Sponsor
        /\ tx.outs[3].spk = Caboose(w.new_state)
        /\ tx.outs[1].value = CollectedAmount(tx)
    BY <2>1 DEF Output
  <2>3. \A j \in 1 .. 3 : j = 1 \/ j = 2 \/ j = 3
    OBVIOUS
  <2>4. CollectionShape(tx)
    BY <1>1, <2>1, <2>2, <2>3 DEF CollectionShape, HasShape
  <2> QED
    BY <2>1, <2>2, <2>4 DEF LastOutput
<1>3. CASE SettlementLeaf(tx, 1, w)
  <2> DEFINE destination == w.public_values.withdrawal_destination
             payout == w.public_values.withdrawal_amount
  <2>1. /\ tx.form = 0 /\ Len(tx.ins) = 2 /\ Len(tx.outs) = 4
        /\ tx.outs[1] = Output(SpentValue(tx, 1) - payout, Program)
        /\ tx.outs[2] = Output(payout, destination)
        /\ tx.outs[3] = Output(SponsorChange(SpentValue(tx, 2)), Sponsor)
        /\ tx.outs[4] = Output(CabooseValue, Caboose(w.new_state))
    BY <1>3 DEF SettlementLeaf, Context, Running, SettlementOutputs
  <2>2. /\ tx.outs[1].spk = Program /\ tx.outs[2].spk = destination
        /\ tx.outs[3].spk = Sponsor /\ tx.outs[4].spk = Caboose(w.new_state)
        /\ tx.outs[1].value = SpentValue(tx, 1) - payout
    BY <2>1 DEF Output
  <2>3. Is34Bytes(destination)
    BY <1>3 DEF SettlementLeaf, SettlementStatementBound
  <2>4. \A j \in 1 .. 4 : j = 1 \/ j = 2 \/ j = 3 \/ j = 4
    OBVIOUS
  <2>5. SettlementShape(tx)
    BY <1>1, <2>1, <2>2, <2>3, <2>4 DEF SettlementShape, HasShape
  <2> QED
    BY <2>1, <2>2, <2>5 DEF LastOutput
<1> QED
  BY <1>2, <1>3

\* Either leaf gives its transaction the form of a head, whose state continues
\* its parent's.
LEMMA TransitionForm ==
  ASSUME NEW package, NEW chain, Acceptable(package, chain),
         SpendsProgram(package.tx)
  PROVE  HeadForm(package.tx) /\ Continues(package.tx)
<1> DEFINE tx == package.tx
           w == package.wit[1]
<1>1. /\ 1 \in 1 .. Len(tx.ins)
      /\ AuthenticateParent(tx, w)
      /\ CollectionLeaf(tx, 1, w) \/ SettlementLeaf(tx, 1, w)
  BY LeafRuns
<1>2. w.parent = ParentOf(tx) /\ tx.ins[1] = OutPoint(ParentOf(tx), 0)
  BY <1>1, ParentShown
<1>3. /\ StateOf(tx) = w.new_state
      /\ w.public_values.new_root = w.new_state.root
      /\ VerifyProof(w.proof, w.public_values)
  BY <1>1, LeafCreates
<1>4. /\ CollectionShape(tx) \/ SettlementShape(tx)
      /\ tx.outs[Len(tx.outs) - 1].spk = Sponsor
      /\ tx.outs[1] = Output(tx.outs[1].value, Program)
      /\ LastOutput(tx) = Output(CabooseValue, Caboose(StateOf(tx)))
  BY <1>1, <1>3, LeafFixesForm
<1>5. AuthenticAncestor(tx, ParentOf(tx))
  <2>1. /\ \/ OneInputTwoOutputs(w.parent)
           \/ CollectionShape(w.parent)
           \/ SettlementShape(w.parent)
        /\ TxId(w.parent) = tx.ins[1].txid
        /\ tx.ins[1].vout = 0
    BY <1>1 DEF AuthenticateParent, GenesisParent, TransitionParent
  <2>2. w.parent.outs[1].spk = Program
    BY <1>1, ParentKnown
  <2> QED
    BY <1>2, <2>1, <2>2 DEF AuthenticAncestor
<1>6. StateOf(tx).phase = "active"
  BY <1>1, <1>3 DEF AuthenticateParent
<1>7. AccountsOf(tx) \in AccountState(ValidKey)
  BY ProofFromParent, AccountsKeepWidth
<1>8. StateOf(tx).root = Root(AccountsOf(tx))
  <2>1. PICK accounts : Statement(w.proof).new_root = Root(accounts)
    BY DEF Statement, CollectionStatement, SettlementStatement
  <2>2. StateOf(tx).root = Root(accounts)
    BY <1>3, <2>1 DEF VerifyProof
  <2> QED
    BY <2>2 DEF AccountsOf, Root
<1> QED
  BY <1>2, <1>4, <1>5, <1>6, <1>7, <1>8 DEF HeadForm, Continues

\* Theorem: every confirmed head has the form the next leaf reads.
THEOREM HeadsHaveForm == Spec => []HeadForms
<1>1. Init => HeadForms
  BY CoinbaseSpendsNothing
     DEF Init, HeadForms, IsGenesis, OneInputTwoOutputs, HasShape
<1>2. HeadForms /\ [Next]_vars => HeadForms'
  <2> SUFFICES ASSUME HeadForms, [Next]_vars
               PROVE  HeadForms'
    OBVIOUS
  <2>1. ASSUME NEW package, Confirm(package)
        PROVE  HeadForms'
    <3>1. /\ Acceptable(package, confirmed)
          /\ confirmed' = confirmed \cup {package.tx}
      BY <2>1 DEF Confirm
    <3>2. /\ IsGenesis(package.tx) => HeadForm(package.tx)
          /\ SpendsProgram(package.tx) =>
               HeadForm(package.tx) /\ Continues(package.tx)
      BY <3>1, GenesisForm, TransitionForm
    <3> QED
      BY <3>1, <3>2 DEF HeadForms
  <2>2. CASE confirmed' \subseteq confirmed
    BY <2>2 DEF HeadForms
  <2> QED
    BY <2>1, <2>2, StepConfirms
<1> QED
  BY <1>1, <1>2, PTL DEF Spec

-----------------------------------------------------------------------------
(* Spendable coins                                                         *)

\* An unspent output is one of a confirmed transaction's, with a value in width.
LEMMA CoinFacts ==
  ASSUME TypeOK, NEW o \in Unspent(confirmed)
  PROVE  /\ o.txid.tx \in confirmed
         /\ o = OutPoint(o.txid.tx, o.vout)
         /\ o.vout \in 0 .. Len(o.txid.tx.outs) - 1
         /\ ~ IsSpent(o, confirmed)
         /\ SpentOutput(o).value \in Amount
<1>1. PICK tx \in confirmed :
        /\ o \in {OutPoint(tx, j - 1) : j \in 1 .. Len(tx.outs)}
        /\ ~ IsSpent(o, confirmed)
  BY DEF Unspent
<1>2. PICK j \in 1 .. Len(tx.outs) : o = OutPoint(tx, j - 1)
  BY <1>1
<1>3. o.txid.tx = tx /\ o.vout = j - 1
  BY <1>2 DEF OutPoint, TxId
<1>4. Len(tx.outs) \in Nat
  BY CoinbasesAssumption DEF TypeOK, WellFormed
<1>5. j - 1 \in 0 .. Len(tx.outs) - 1 /\ (j - 1) + 1 = j
  BY <1>4
<1>6. SpentOutput(o) = tx.outs[j]
  BY <1>3, <1>5 DEF SpentOutput
<1> QED
  BY <1>1, <1>2, <1>3, <1>5, <1>6, OutputsInWidth

\* A transaction of unspent coins is new and finds its inputs.
LEMMA CoinsAvailable ==
  ASSUME TypeOK, NEW tx, 1 \in 1 .. Len(tx.ins),
         \A i \in 1 .. Len(tx.ins) : tx.ins[i] \in Unspent(confirmed)
  PROVE  tx \notin confirmed /\ InputsAvailable(tx, confirmed)
<1>1. \A i \in 1 .. Len(tx.ins) :
        /\ tx.ins[i].txid.tx \in confirmed
        /\ tx.ins[i] = OutPoint(tx.ins[i].txid.tx, tx.ins[i].vout)
        /\ tx.ins[i].vout \in 0 .. Len(tx.ins[i].txid.tx.outs) - 1
        /\ ~ IsSpent(tx.ins[i], confirmed)
  BY CoinFacts
<1> QED
  BY <1>1 DEF InputsAvailable, IsSpent

\* The owner of a deposit can take it back, alone and at any time.
LEMMA RefundAccepted ==
  ASSUME TypeOK, NEW o \in Unspent(confirmed),
         SpentOutput(o).spk.kind = "deposit", SpentOutput(o).value >= MinerFee
  PROVE  LET package == RefundPackage(o, RefundSignature(o))
         IN  /\ Acceptable(package, confirmed)
             /\ o \in refunding => Unforged(package, Signatures)
<1> DEFINE package == RefundPackage(o, RefundSignature(o))
           tx == RefundTx(o)
           value == SpentOutput(o).value
<1>1. /\ package.tx = tx
      /\ package.wit[1] = [path |-> "refund", signature |-> RefundSignature(o)]
  BY DEF RefundPackage, Package
<1>2. /\ tx.ins = <<o>> /\ tx.ins[1] = o /\ Len(tx.ins) = 1
      /\ Len(tx.outs) = 1
      /\ tx.outs[1] = Output(value - MinerFee, Sponsor)
      /\ tx.outs[1].value = value - MinerFee
      /\ tx.outs[1].spk = Sponsor
      /\ DOMAIN tx = {"form", "ins", "outs"}
  BY DEF RefundTx, Output
<1>3. value \in Nat /\ value <= MaxAmount /\ value - MinerFee \in Amount
  BY CoinFacts, CoinsAssumption, CovenantAssumption DEF Amount
<1>4. SpentValue(tx, 1) = value /\ SpentSpk(tx, 1) = SpentOutput(o).spk
  BY <1>2 DEF SpentValue, SpentSpk
<1>5. tx \notin confirmed /\ InputsAvailable(tx, confirmed)
  BY <1>2, CoinsAvailable
<1>6. WellFormed(tx)
  BY <1>2, <1>3 DEF WellFormed
<1>7. OutputValue(tx) <= InputValue(tx)
  <2>1. OutputValue(tx) = value - MinerFee
    <3>1. \A j \in 1 .. 1 : tx.outs[j].value \in Int
      BY <1>2, <1>3, CovenantAssumption
    <3> QED
      BY <1>2, <3>1, OutputsSum
  <2>2. InputValue(tx) = value
    <3>1. \A i \in 1 .. 1 : SpentValue(tx, i) \in Int
      BY <1>3, <1>4
    <3> HIDE DEF tx
    <3>2. 1 \in 1 .. 4 /\ Len(tx.ins) = 1
      BY <1>2
    <3>3. InputValue(tx) = SpentValue(tx, 1)
      BY <3>1, <3>2, InputsSum
    <3> QED
      BY <1>4, <3>3
  <2> QED
    BY <1>3, <2>1, <2>2, CovenantAssumption
<1>8. ScriptAccepts(tx, 1, package.wit[1])
  BY <1>1, <1>4 DEF ScriptAccepts, DepositScript, DepositRefundPath,
                    ValidSignature, RefundSignature
<1>9. Acceptable(package, confirmed)
  BY <1>1, <1>2, <1>5, <1>6, <1>7, <1>8 DEF Acceptable
<1>10. ASSUME o \in refunding
       PROVE  Unforged(package, Signatures)
  <2>1. RefundSignature(o) \in Signatures
    BY <1>10 DEF Signatures
  <2>2. SignaturesIn(package.wit[1]) = {RefundSignature(o)}
    BY <1>1 DEF SignaturesIn
  <2> QED
    BY <1>1, <1>2, <2>1, <2>2 DEF Unforged
<1> QED
  BY <1>9, <1>10

-----------------------------------------------------------------------------
(* A head that can advance                                                 *)

SpendInv == LineageInv /\ MoneyInvariant /\ AccountsInWidth /\ HeadForms

\* What a genesis commits to: the zero ledger.
LEMMA GenesisCommits ==
  ASSUME NEW tx, IsGenesis(tx)
  PROVE  /\ StateOf(tx) = GenesisState(GenesisRoot)
         /\ AccountsOf(tx) = ZeroState(AccountKeys)
<1>1. /\ Len(tx.outs) = 2
      /\ tx.outs[2] = Output(CabooseValue, Caboose(GenesisState(GenesisRoot)))
  BY DEF IsGenesis, OneInputTwoOutputs, HasShape
<1>2. StateOf(tx) = GenesisState(GenesisRoot)
  BY <1>1 DEF StateOf, LastOutput, Output, Caboose
<1> QED
  BY <1>2 DEF AccountsOf, GenesisState, GenesisRoot, Root

\* The head of an identity can be spent, and has the form of a head.
LEMMA HeadUnspent ==
  ASSUME SpendInv, NEW b \in Identities
  PROVE  LET head == HeadOf(b)
         IN  /\ head \in confirmed
             /\ IsGenesis(head) \/ SpendsProgram(head)
             /\ IdentityOf(head) = b
             /\ HeadForm(head)
             /\ Len(head.outs) \in Nat \ {0}
             /\ head.outs[1].value \in Amount
             /\ OutPoint(head, 0) \in Unspent(confirmed)
<1> DEFINE head == HeadOf(b)
<1>1. /\ Len(lineage[b]) \in 1 .. Len(lineage[b])
      /\ head \in confirmed
  BY LineFacts DEF SpendInv, HeadOf
<1>2. /\ IsGenesis(head) \/ SpendsProgram(head)
      /\ IdentityOf(head) = b
  BY <1>1, OfItsIdentity DEF SpendInv, HeadOf
<1>3. ~ IsSpent(OutPoint(head, 0), confirmed)
  BY <1>1, <1>2, InvOneHead DEF SpendInv, OneHead
<1>4. HeadForm(head)
  BY <1>1, <1>2 DEF SpendInv, HeadForms
<1>5. head \notin Coinbases
  BY <1>2, CoinbaseSpendsNothing DEF IsGenesis, OneInputTwoOutputs, HasShape
<1>6. WellFormed(head)
  BY <1>1, <1>5 DEF SpendInv, LineageInv, TypeOK
<1>7. Len(head.outs) \in Nat \ {0} /\ head.outs[1].value \in Amount
  BY <1>6 DEF WellFormed
<1>8. OutPoint(head, 0) \in Unspent(confirmed)
  <2>1. 1 \in 1 .. Len(head.outs) /\ 1 - 1 = 0
    BY <1>7
  <2>2. OutPoint(head, 0) \in {OutPoint(head, j - 1) : j \in 1 .. Len(head.outs)}
    BY <2>1
  <2> QED
    BY <1>1, <1>3, <2>2 DEF Unspent
<1> QED
  BY <1>1, <1>2, <1>4, <1>7, <1>8

\* What the relation needs of the accounts of a head that can advance.
LEMMA HeadAccounts ==
  ASSUME SpendInv, NEW b \in Identities, Advances(b)
  PROVE  LET old == AccountsOf(HeadOf(b))
         IN  /\ old \in AccountState(ValidKey)
             /\ \A id \in AccountId : old[id].key = AccountKeys[id]
             /\ Validate(old)
             /\ HeadOf(b).outs[1].value = Backing(old)
<1> DEFINE head == HeadOf(b)
           old == AccountsOf(head)
<1>1. /\ head \in confirmed
      /\ IsGenesis(head) \/ SpendsProgram(head)
      /\ HeadForm(head)
  BY HeadUnspent
<1>2. old \in AccountState(ValidKey)
  BY <1>1 DEF HeadForm
<1>3. \A id \in AccountId : old[id].key = AccountKeys[id]
  BY <1>1, GenesisKeys DEF SpendInv, AccountsInWidth
<1>4. Validate(old)
  <2>1. \A id \in AccountId : \A earlier \in 0 .. id - 1 : earlier \in AccountId
    BY DEF AccountId
  <2>2. \A id \in AccountId : ZeroState(AccountKeys)[id].key = AccountKeys[id]
    BY DEF ZeroState
  <2> QED
    BY <1>3, <2>1, <2>2, AccountKeysAssumption DEF Validate
<1>5. head.outs[1].value = Backing(old)
  <2>1. CASE IsGenesis(head)
    <3>1. Len(lineage[b]) = 1
      <4>1. Len(lineage[b]) \in 1 .. Len(lineage[b]) /\ LineageInv
        BY LineFacts DEF SpendInv
      <4> QED
        BY <2>1, <4>1, OfItsIdentity DEF HeadOf
    <3>2. head.outs[1].value = Reserve
      BY <3>1 DEF Advances
    <3>3. old[0].balance = 0 /\ old[1].balance = 0 /\ old[2].balance = 0
      BY <2>1, GenesisCommits DEF ZeroState, AccountId
    <3> QED
      BY <3>2, <3>3, CoinsAssumption DEF Backing
  <2>2. CASE SpendsProgram(head)
    BY <1>1, <2>2 DEF SpendInv, MoneyInvariant
  <2> QED
    BY <1>1, <2>1, <2>2
<1> QED
  BY <1>2, <1>3, <1>4, <1>5

\* Both leaves recognize the head and its own parent.
LEMMA HeadAuthenticated ==
  ASSUME SpendInv, NEW b \in Identities, NEW tx, NEW w, NEW root,
         tx.ins[1] = OutPoint(HeadOf(b), 0),
         w.parent = HeadOf(b), w.ancestor = ParentOf(HeadOf(b)),
         w.old_state = StateOf(HeadOf(b)), w.bridge_id = b,
         w.new_state = ActiveState(b, root)
  PROVE  AuthenticateParent(tx, w)
<1> DEFINE head == HeadOf(b)
<1>1. /\ IsGenesis(head) \/ SpendsProgram(head)
      /\ IdentityOf(head) = b
      /\ HeadForm(head)
      /\ head \in confirmed
  BY HeadUnspent
<1>2. tx.ins[1].txid = TxId(head) /\ tx.ins[1].vout = 0
  BY DEF OutPoint
<1>3. SpentValue(tx, 1) = head.outs[1].value
  BY <1>2 DEF SpentValue, SpentOutput, TxId
<1>4. CarriesState(w.parent, Program, SpentValue(tx, 1), w.old_state)
  BY <1>1, <1>3 DEF CarriesState, HeadForm
<1>5. TxId(w.ancestor) = w.parent.ins[1].txid /\ w.parent.ins[1].vout = 0
  BY <1>1 DEF HeadForm, OutPoint
<1>6. w.new_state.phase = "active" /\ w.new_state.bridge_id = w.bridge_id
  BY DEF ActiveState
<1>7. CASE IsGenesis(head)
  <2>1. /\ OneInputTwoOutputs(w.parent)
        /\ OneInputTwoOutputs(w.ancestor)
    BY <1>7 DEF IsGenesis, ParentOf
  <2>2. w.ancestor.outs[1].spk = Sponsor
    <3>1. SpentSpk(head, 1) = Sponsor /\ head.ins[1].vout = 0
      BY <1>7 DEF IsGenesis
    <3> QED
      BY <3>1 DEF SpentSpk, SpentOutput, ParentOf
  <2>3. w.old_state = GenesisState(GenesisRoot)
    BY <1>7, GenesisCommits
  <2>4. TxId(w.parent) = w.bridge_id
    BY <1>1, <1>7 DEF IdentityOf
  <2>5. GenesisParent(tx, w)
    BY <1>4, <1>5, <2>1, <2>2, <2>3, <2>4 DEF GenesisParent
  <2> QED
    BY <1>2, <1>6, <2>5 DEF AuthenticateParent
<1>8. CASE SpendsProgram(head)
  <2>1. Continues(head)
    BY <1>1, <1>8 DEF SpendInv, HeadForms
  <2>2. w.old_state.bridge_id = w.bridge_id
    BY <1>1, <1>8, GenesisOpens DEF IdentityOf
  <2>3. TransitionParent(tx, w)
    BY <1>4, <2>1, <2>2 DEF TransitionParent, Continues
  <2> QED
    BY <1>2, <1>6, <2>3 DEF AuthenticateParent
<1> QED
  BY <1>1, <1>7, <1>8

\* The shapes are exclusive, so a deposit reads the caboose its leaf reads.
LEMMA DepositRuns ==
  ASSUME SpendInv, NEW b \in Identities, NEW tx, NEW w, NEW spk, NEW i \in 2 .. 3,
         Running(tx, 4, 3), tx.ins[1] = OutPoint(HeadOf(b), 0),
         spk.program = Program, spk.bridge_id = b,
         w.parent = HeadOf(b), w.old_state = StateOf(HeadOf(b))
  PROVE  DepositCollectPath(spk, tx, i, w)
<1> DEFINE head == HeadOf(b)
<1>1. /\ IsGenesis(head) \/ SpendsProgram(head)
      /\ IdentityOf(head) = b
      /\ HeadForm(head)
      /\ head \in confirmed
  BY HeadUnspent
<1>2. TxId(w.parent) = tx.ins[1].txid /\ tx.ins[1].vout = 0
  BY DEF OutPoint
<1>3. /\ SpentSpk(tx, 1) = head.outs[1].spk
      /\ SpentValue(tx, 1) = head.outs[1].value
  BY <1>2 DEF SpentSpk, SpentValue, SpentOutput, TxId
<1>4. SpentSpk(tx, 1) = spk.program
  BY <1>1, <1>3 DEF HeadForm, Output
<1>5. CarriesState(w.parent, spk.program, SpentValue(tx, 1), w.old_state)
  BY <1>1, <1>3 DEF CarriesState, HeadForm
<1>6. CASE IsGenesis(head)
  <2>1. OneInputTwoOutputs(w.parent)
    BY <1>6 DEF IsGenesis
  <2>2. w.old_state.phase = "genesis" /\ TxId(w.parent) = spk.bridge_id
    BY <1>1, <1>6, GenesisCommits DEF GenesisState, IdentityOf
  <2> QED
    BY <1>2, <1>4, <1>5, <2>1, <2>2 DEF DepositCollectPath
<1>7. CASE SpendsProgram(head)
  <2>1. Continues(head)
    BY <1>1, <1>7 DEF SpendInv, HeadForms
  <2>2. /\ CollectionShape(head) \/ SettlementShape(head)
        /\ ~ OneInputTwoOutputs(head)
    BY <2>1 DEF Continues, CollectionShape, SettlementShape,
                OneInputTwoOutputs, HasShape
  <2>3. w.old_state.phase = "active" /\ w.old_state.bridge_id = spk.bridge_id
    BY <1>1, <1>7, <2>1, GenesisOpens DEF Continues, IdentityOf
  <2> QED
    BY <1>2, <1>4, <1>5, <2>2, <2>3 DEF DepositCollectPath
<1> QED
  BY <1>1, <1>6, <1>7

-----------------------------------------------------------------------------
(* What the relation accepts                                               *)

\* A credit adds the deposit to the backing and to nobody else.
LEMMA CreditBacks ==
  ASSUME NEW state \in AccountState(ValidKey), NEW deposit,
         deposit.value \in Nat, deposit.recipient_id \in AccountId
  PROVE  /\ Backing(CreditAccount(state, deposit)) = Backing(state) + deposit.value
         /\ CreditAccount(state, deposit)[deposit.recipient_id].balance =
              state[deposit.recipient_id].balance + deposit.value
         /\ \A id \in AccountId :
              id # deposit.recipient_id =>
                CreditAccount(state, deposit)[id] = state[id]
<1> USE CoinsAssumption DEF AccountId
<1> DEFINE r == deposit.recipient_id
           new == CreditAccount(state, deposit)
<1>1. \A id \in 0 .. 2 :
        state[id] \in [key : ValidKey, balance : Amount, nonce : Nonce]
  BY DEF AccountState
<1>2. DOMAIN state = 0 .. 2
  BY DEF AccountState
<1>3. /\ new[r].balance = state[r].balance + deposit.value
      /\ \A id \in 0 .. 2 : id # r => new[id] = state[id]
  BY <1>1, <1>2 DEF CreditAccount
<1>4. state[0].balance \in Nat /\ state[1].balance \in Nat
        /\ state[2].balance \in Nat
  BY <1>1 DEF Amount
<1> HIDE DEF new
<1>5. r = 0 \/ r = 1 \/ r = 2
  OBVIOUS
<1>6. Backing(new) = Backing(state) + deposit.value
  BY <1>3, <1>4, <1>5 DEF Backing
<1> QED
  BY <1>3, <1>6 DEF new

\* No account holds more than the backing.
LEMMA BackingBounds ==
  ASSUME NEW state \in AccountState(ValidKey)
  PROVE  /\ Backing(state) \in Nat
         /\ \A id \in AccountId : /\ state[id].balance \in Nat
                                  /\ state[id].nonce \in Nat
                                  /\ state[id].balance <= Backing(state)
         /\ \A id, other \in AccountId :
              id # other =>
                state[id].balance + state[other].balance <= Backing(state)
<1>1. \A id \in 0 .. 2 : state[id].balance \in Nat /\ state[id].nonce \in Nat
  BY CoinsAssumption DEF AccountState, AccountId, Amount, Nonce
<1>2. state[0].balance \in Nat /\ state[1].balance \in Nat
        /\ state[2].balance \in Nat
  BY <1>1
<1> QED
  BY <1>1, <1>2, CoinsAssumption DEF Backing, AccountId

\* Two deposits that fit the backing are collected.
LEMMA CollectionAccepts ==
  ASSUME NEW old \in AccountState(ValidKey), Validate(old),
         NEW backing \in Amount, backing = Backing(old),
         NEW b, NEW prevout, NEW ds,
         \A k \in 1 .. 2 : /\ ds[k].value \in Amount
                           /\ ds[k].value # 0
                           /\ ds[k].recipient_id \in AccountId,
         Before(ds[1].outpoint, ds[2].outpoint),
         backing + ds[1].value + ds[2].value <= MaxAmount
  PROVE  LET input == CollectionInput(b, prevout, old, backing, ds)
         IN  /\ Accepts(input)
             /\ CollectedBacking(input) = backing + ds[1].value + ds[2].value
<1> USE CoinsAssumption
<1> DEFINE input == CollectionInput(b, prevout, old, backing, ds)
           first == CreditAccount(old, ds[1])
           second == CreditAccount(first, ds[2])
<1>1. /\ input.action = "collect" /\ input.old_state = old
      /\ input.old_backing = backing /\ input.deposits = ds
  BY DEF CollectionInput
<1>2. /\ ds[1].value \in Nat /\ ds[1].value # 0 /\ ds[1].recipient_id \in AccountId
      /\ ds[2].value \in Nat /\ ds[2].value # 0 /\ ds[2].recipient_id \in AccountId
      /\ ds[1].value \in Amount /\ backing \in Nat
  BY DEF Amount
<1>3. Creditable(old, ds[1])
  <2>1. old[ds[1].recipient_id].balance \in Nat
          /\ old[ds[1].recipient_id].balance <= Backing(old)
    BY <1>2, BackingBounds
  <2> QED
    BY <1>2, <2>1 DEF Creditable
<1>4. first \in AccountState(ValidKey)
  BY <1>2, <1>3, CreditKeepsWidth
<1>5. Backing(first) = backing + ds[1].value
  BY <1>2, CreditBacks
<1>6. Backing(second) = backing + ds[1].value + ds[2].value
  <2> HIDE DEF first
  <2> QED
    BY <1>2, <1>4, <1>5, CreditBacks
<1>7. Creditable(first, ds[2])
  <2> HIDE DEF first
  <2>1. first[ds[2].recipient_id].balance \in Nat
          /\ first[ds[2].recipient_id].balance <= Backing(first)
    BY <1>2, <1>4, BackingBounds
  <2> QED
    BY <1>2, <1>5, <2>1 DEF Creditable
<1>8. /\ CollectedState(input) = second
      /\ CollectedBacking(input) = backing + ds[1].value + ds[2].value
  BY <1>1, <1>2 DEF CollectedState, CollectedBacking
<1>9. RequireBacking(old, backing)
  BY DEF RequireBacking, Amount
<1>10. RequireBacking(CollectedState(input), CollectedBacking(input))
  BY <1>6, <1>8 DEF RequireBacking
<1>11. ds[1].value + ds[2].value <= MaxAmount
  BY <1>2
<1> HIDE DEF input, first, second
<1>12. CollectionAccepted(input)
  BY <1>1, <1>3, <1>7, <1>8, <1>9, <1>10, <1>11
     DEF CollectionAccepted, first
<1>13. HasWidths(input)
  BY <1>1 DEF HasWidths
<1> QED
  BY <1>1, <1>8, <1>12, <1>13 DEF Accepts, input

-----------------------------------------------------------------------------
(* Honest packages are confirmable                                         *)

\* A deposit of an instance, as the collection leaf reads it.
LEMMA DepositFacts ==
  ASSUME SpendInv, NEW b \in Identities, NEW o \in DepositsOf(b)
  PROVE  LET spk == SpentOutput(o).spk
         IN  /\ o \in Unspent(confirmed)
             /\ SpentOutput(o).value \in Amount
             /\ SpentOutput(o).value # 0
             /\ spk.recipient_id \in AccountId
             /\ spk = DepositSpk(Program, b, spk.recipient_id,
                                 AccountKeys[spk.recipient_id], spk.refund_key)
             /\ spk.kind = "deposit" /\ spk.program = Program
             /\ spk.bridge_id = b
<1> DEFINE spk == SpentOutput(o).spk
<1>1. /\ o \in Unspent(confirmed)
      /\ SpentOutput(o).value # 0
      /\ spk.recipient_id \in AccountId
      /\ spk = DepositFor(b, spk.recipient_id, spk.refund_key)
      /\ spk.kind = "deposit"
  BY DEF DepositsOf
<1>2. SpentOutput(o).value \in Amount
  BY <1>1, CoinFacts DEF SpendInv, LineageInv
<1>3. spk = DepositSpk(Program, b, spk.recipient_id,
                       AccountKeys[spk.recipient_id], spk.refund_key)
  BY <1>1 DEF DepositFor
<1> HIDE DEF spk
<1>4. spk.program = Program /\ spk.bridge_id = b
  BY <1>3 DEF DepositSpk
<1> QED
  BY <1>1, <1>2, <1>3, <1>4 DEF spk

\* A sponsor coin pays the fee and the caboose.
LEMMA SponsorFacts ==
  ASSUME SpendInv, NEW o \in SponsorCoins
  PROVE  /\ o \in Unspent(confirmed)
         /\ SpentOutput(o).spk = Sponsor
         /\ SpentOutput(o).value \in Nat
         /\ SpentOutput(o).value <= MaxAmount
         /\ MinerFee + CabooseValue <= SpentOutput(o).value
<1>1. /\ o \in Unspent(confirmed)
      /\ SpentOutput(o).spk = Sponsor
      /\ SpentOutput(o).value >= MinerFee + CabooseValue
  BY DEF SponsorCoins
<1>2. SpentOutput(o).value \in Amount
  BY <1>1, CoinFacts DEF SpendInv, LineageInv
<1> QED
  BY <1>1, <1>2, CoinsAssumption, CovenantAssumption DEF Amount

\* The collection feature_bridge.py builds, by its parts.
CollectionOf(package, b, d1, d2, sponsor) ==
  LET head == HeadOf(b)
      tx == package.tx
      w == package.wit[1]
  IN  /\ tx.form = 0 /\ Len(tx.ins) = 4 /\ Len(tx.outs) = 3
      /\ DOMAIN tx = {"form", "ins", "outs"}
      /\ tx.ins[1] = OutPoint(head, 0)
      /\ tx.ins[2] = d1 /\ tx.ins[3] = d2 /\ tx.ins[4] = sponsor
      /\ tx.outs = <<Output(head.outs[1].value + SpentOutput(d1).value
                              + SpentOutput(d2).value, Program),
                     Output(SpentOutput(sponsor).value - MinerFee
                              - CabooseValue, Sponsor),
                     Output(CabooseValue, Caboose(w.new_state))>>
      /\ w.path = "collection"
      /\ w.parent = head /\ w.ancestor = ParentOf(head)
      /\ w.old_state = StateOf(head) /\ w.bridge_id = b
      /\ w.new_state = ActiveState(b, Statement(w.proof).new_root)
      /\ w.recipients[1] = SpentSpk(tx, 2).recipient_id
      /\ w.recipients[2] = SpentSpk(tx, 3).recipient_id
      /\ w.refund_keys[1] = SpentSpk(tx, 2).refund_key
      /\ w.refund_keys[2] = SpentSpk(tx, 3).refund_key
      /\ w.public_values = Statement(w.proof)
      /\ \E ds : /\ w.proof = CollectionInput(b, OutPoint(head, 0),
                                AccountsOf(head), head.outs[1].value, ds)
                 /\ ds[1] = DepositRecord(d1)
                 /\ ds[2] = DepositRecord(d2)
      /\ \A i \in 2 .. 3 :
           /\ package.wit[i].path = "collect"
           /\ package.wit[i].parent = head
           /\ package.wit[i].old_state = StateOf(head)
      /\ package.wit[4].path = "sponsor"

\* The collection that the host builds, part by part.
LEMMA CollectionParts ==
  ASSUME NEW b, NEW d1, NEW d2, NEW sponsor
  PROVE  CollectionOf(HonestCollection(b, <<d1, d2>>, sponsor), b, d1, d2, sponsor)
<1> DEFINE head == HeadOf(b)
           ds == [k \in 1 .. 2 |-> DepositRecord(<<d1, d2>>[k])]
           proof == CollectionInput(b, OutPoint(head, 0), AccountsOf(head),
                                    head.outs[1].value, ds)
           new_state == ActiveState(b, Statement(proof).new_root)
           tx == CollectTx(head, <<d1, d2>>, sponsor, new_state)
           package == CollectionPackage(tx, head, ParentOf(head), b,
                                        StateOf(head), new_state, proof)
<1>1. HonestCollection(b, <<d1, d2>>, sponsor) = package
  BY Zenon DEF HonestCollection
<1>2. ds[1] = DepositRecord(d1) /\ ds[2] = DepositRecord(d2)
  OBVIOUS
<1>3. /\ tx.form = 0 /\ Len(tx.ins) = 4 /\ Len(tx.outs) = 3
      /\ DOMAIN tx = {"form", "ins", "outs"}
      /\ tx.ins[1] = OutPoint(head, 0)
      /\ tx.ins[2] = d1 /\ tx.ins[3] = d2 /\ tx.ins[4] = sponsor
      /\ tx.outs = <<Output(head.outs[1].value + SpentOutput(d1).value
                              + SpentOutput(d2).value, Program),
                     Output(SpentOutput(sponsor).value - MinerFee
                              - CabooseValue, Sponsor),
                     Output(CabooseValue, Caboose(new_state))>>
  <2> HIDE DEF new_state, head
  <2> QED
    BY DEF CollectTx
<1> HIDE DEF head, ds, proof, new_state, tx
<1>4. /\ package.tx = tx
      /\ package.wit[1].path = "collection"
      /\ package.wit[1].parent = head /\ package.wit[1].ancestor = ParentOf(head)
      /\ package.wit[1].old_state = StateOf(head) /\ package.wit[1].bridge_id = b
      /\ package.wit[1].new_state = new_state
      /\ package.wit[1].recipients[1] = SpentSpk(tx, 2).recipient_id
      /\ package.wit[1].recipients[2] = SpentSpk(tx, 3).recipient_id
      /\ package.wit[1].refund_keys[1] = SpentSpk(tx, 2).refund_key
      /\ package.wit[1].refund_keys[2] = SpentSpk(tx, 3).refund_key
      /\ package.wit[1].public_values = Statement(proof)
      /\ package.wit[1].proof = proof
  BY DEF CollectionPackage, Package
<1>5. /\ \A i \in 2 .. 3 :
           /\ package.wit[i].path = "collect"
           /\ package.wit[i].parent = head
           /\ package.wit[i].old_state = StateOf(head)
      /\ package.wit[4].path = "sponsor"
  <2>1. /\ package.wit[2] = [path |-> "collect", parent |-> head,
                             old_state |-> StateOf(head)]
        /\ package.wit[3] = [path |-> "collect", parent |-> head,
                             old_state |-> StateOf(head)]
        /\ package.wit[4] = SponsorWitness
    BY DEF CollectionPackage, Package
  <2>2. \A i \in 2 .. 3 : i = 2 \/ i = 3
    OBVIOUS
  <2> QED
    BY <2>1, <2>2 DEF SponsorWitness
<1> HIDE DEF package
<1>6. /\ \E other : /\ proof = CollectionInput(b, OutPoint(head, 0),
                                 AccountsOf(head), head.outs[1].value, other)
                    /\ other[1] = DepositRecord(d1)
                    /\ other[2] = DepositRecord(d2)
      /\ new_state = ActiveState(b, Statement(proof).new_root)
  BY <1>2, Zenon DEF proof, new_state
<1>7. CollectionOf(package, b, d1, d2, sponsor)
  BY <1>3, <1>4, <1>5, <1>6, Zenon DEF CollectionOf, head
<1> QED
  BY <1>1, <1>7, Zenon

\* Its leaf runs.
LEMMA CollectionLeafRuns ==
  ASSUME SpendInv, NEW b \in Identities, Advances(b),
         NEW d1 \in DepositsOf(b), NEW d2 \in DepositsOf(b),
         NEW sponsor \in SponsorCoins, Before(d1, d2),
         HeadOf(b).outs[1].value + SpentOutput(d1).value
           + SpentOutput(d2).value <= MaxAmount,
         NEW package, CollectionOf(package, b, d1, d2, sponsor)
  PROVE  CollectionLeaf(package.tx, 1, package.wit[1])
<1> USE CoinsAssumption, CovenantAssumption
<1> DEFINE head == HeadOf(b)
           old == AccountsOf(head)
           tx == package.tx
           w == package.wit[1]
           proof == w.proof
           backing == head.outs[1].value
           v1 == SpentOutput(d1).value
           v2 == SpentOutput(d2).value
           v3 == SpentOutput(sponsor).value
<1>1. /\ tx.form = 0 /\ Len(tx.ins) = 4 /\ Len(tx.outs) = 3
      /\ tx.ins[1] = OutPoint(head, 0)
      /\ tx.ins[2] = d1 /\ tx.ins[3] = d2 /\ tx.ins[4] = sponsor
  BY DEF CollectionOf
<1>2. tx.outs = <<Output(backing + v1 + v2, Program),
                  Output(v3 - MinerFee - CabooseValue, Sponsor),
                  Output(CabooseValue, Caboose(w.new_state))>>
  BY DEF CollectionOf
<1>3. /\ w.parent = head /\ w.ancestor = ParentOf(head)
      /\ w.old_state = StateOf(head) /\ w.bridge_id = b
      /\ w.new_state = ActiveState(b, Statement(proof).new_root)
      /\ w.public_values = Statement(proof)
  BY DEF CollectionOf
<1>4. /\ w.recipients[1] = SpentSpk(tx, 2).recipient_id
      /\ w.recipients[2] = SpentSpk(tx, 3).recipient_id
      /\ w.refund_keys[1] = SpentSpk(tx, 2).refund_key
      /\ w.refund_keys[2] = SpentSpk(tx, 3).refund_key
  BY DEF CollectionOf
<1>5. PICK ds : /\ proof = CollectionInput(b, OutPoint(head, 0), old, backing, ds)
                /\ ds[1] = DepositRecord(d1)
                /\ ds[2] = DepositRecord(d2)
  BY DEF CollectionOf
<1>6. /\ ds[1].outpoint = d1 /\ ds[1].value = v1
      /\ ds[1].recipient_id = SpentOutput(d1).spk.recipient_id
      /\ ds[2].outpoint = d2 /\ ds[2].value = v2
      /\ ds[2].recipient_id = SpentOutput(d2).spk.recipient_id
  BY <1>5 DEF DepositRecord
<1>7. /\ SpentSpk(tx, 2) = SpentOutput(d1).spk /\ SpentValue(tx, 2) = v1
      /\ SpentSpk(tx, 3) = SpentOutput(d2).spk /\ SpentValue(tx, 3) = v2
      /\ SpentSpk(tx, 4) = Sponsor /\ SpentValue(tx, 4) = v3
      /\ SpentSpk(tx, 1) = head.outs[1].spk /\ SpentValue(tx, 1) = backing
  <2>1. SpentOutput(tx.ins[1]) = head.outs[1]
    BY <1>1 DEF SpentOutput, OutPoint, TxId
  <2>2. SpentOutput(sponsor).spk = Sponsor
    BY SponsorFacts
  <2> QED
    BY <1>1, <2>1, <2>2 DEF SpentSpk, SpentValue
<1>8. /\ backing \in Amount /\ HeadForm(head)
      /\ old \in AccountState(ValidKey)
      /\ \A id \in AccountId : old[id].key = AccountKeys[id]
      /\ Validate(old) /\ backing = Backing(old)
  BY HeadUnspent, HeadAccounts
<1>9. /\ v1 \in Amount /\ v1 # 0 /\ v2 \in Amount /\ v2 # 0
      /\ v3 \in Nat /\ MinerFee + CabooseValue <= v3
  BY DepositFacts, SponsorFacts
<1>10. /\ SpentOutput(d1).spk.recipient_id \in AccountId
       /\ SpentOutput(d2).spk.recipient_id \in AccountId
       /\ SpentOutput(d1).spk.kind = "deposit"
       /\ SpentOutput(d2).spk.kind = "deposit"
  BY DepositFacts
<1> HIDE DEF head, old, tx, w, proof, backing, v1, v2, v3
<1>11. /\ Accepts(proof)
       /\ CollectedBacking(proof) = backing + v1 + v2
  <2>1. \A k \in 1 .. 2 : k = 1 \/ k = 2
    OBVIOUS
  <2>2. \A k \in 1 .. 2 : /\ ds[k].value \in Amount
                          /\ ds[k].value # 0
                          /\ ds[k].recipient_id \in AccountId
    BY <1>6, <1>9, <1>10, <2>1
  <2>3. /\ Before(ds[1].outpoint, ds[2].outpoint)
        /\ backing + ds[1].value + ds[2].value <= MaxAmount
    BY <1>6 DEF head, backing, v1, v2
  <2> QED
    BY <1>5, <1>6, <1>8, <2>2, <2>3, CollectionAccepts
<1>12. Context(tx, 4, 3)
  <2>1. tx.ins[1].vout = 0
    BY <1>1 DEF OutPoint
  <2>2. SpentSpk(tx, 1) = Program
    BY <1>7, <1>8 DEF HeadForm, Output
  <2>3. \A i \in 1 .. 4 : i = 1 \/ i = 2 \/ i = 3 \/ i = 4
    OBVIOUS
  <2>4. /\ Is34Bytes(SpentSpk(tx, 1)) /\ Is34Bytes(SpentSpk(tx, 2))
        /\ Is34Bytes(SpentSpk(tx, 3)) /\ Is34Bytes(SpentSpk(tx, 4))
    BY <1>7, <1>10, <2>2 DEF Is34Bytes, Program, Sponsor
  <2> QED
    BY <1>1, <2>1, <2>3, <2>4 DEF Context, Running
<1>13. backing + v1 + v2 \in 0 .. MaxAmount
  <2>1. backing + v1 + v2 <= MaxAmount
    BY DEF head, backing, v1, v2
  <2> QED
    BY <1>8, <1>9, <2>1 DEF Amount
<1>14. CollectedAmount(tx) = backing + v1 + v2
  BY <1>7, <1>13 DEF CollectedAmount
<1>15. CollectionOutputs(tx, w)
  <2>1. SponsorChange(v3) = v3 - MinerFee - CabooseValue
    BY <1>9 DEF SponsorChange
  <2> QED
    BY <1>2, <1>7, <1>9, <1>14, <2>1 DEF CollectionOutputs
<1>16. AuthenticateDeposit(tx, w, 1) /\ AuthenticateDeposit(tx, w, 2)
  <2>1. /\ SpentOutput(d1).spk =
             DepositSpk(Program, b, SpentOutput(d1).spk.recipient_id,
                        AccountKeys[SpentOutput(d1).spk.recipient_id],
                        SpentOutput(d1).spk.refund_key)
        /\ SpentOutput(d2).spk =
             DepositSpk(Program, b, SpentOutput(d2).spk.recipient_id,
                        AccountKeys[SpentOutput(d2).spk.recipient_id],
                        SpentOutput(d2).spk.refund_key)
    BY DepositFacts
  <2>2. 1 + 1 = 2 /\ 2 + 1 = 3
    OBVIOUS
  <2> QED
    BY <1>3, <1>4, <1>7, <1>10, <2>1, <2>2, Zenon DEF AuthenticateDeposit
<1>17. AuthenticateParent(tx, w)
  BY <1>1, <1>3, HeadAuthenticated DEF head
<1>18. /\ Statement(proof) = CollectionStatement(proof)
       /\ proof.deposits = ds /\ proof.old_state = old
       /\ proof.bridge_id = b /\ proof.bridge_prevout = OutPoint(head, 0)
       /\ proof.old_backing = backing
  BY <1>5 DEF Statement, CollectionInput
<1>19. StatementHeader(tx, w, "collect")
  <2>1. w.old_state.root = Root(old)
    BY <1>3, <1>8 DEF HeadForm, old
  <2>2. w.new_state.root = Statement(proof).new_root
    BY <1>3 DEF ActiveState
  <2>3. /\ Statement(proof).action = "collect"
        /\ Statement(proof).bridge_id = b
        /\ Statement(proof).bridge_prevout = OutPoint(head, 0)
        /\ Statement(proof).old_root = Root(old)
        /\ Statement(proof).old_backing = backing
    BY <1>18 DEF CollectionStatement
  <2> QED
    BY <1>1, <1>3, <1>7, <2>1, <2>2, <2>3 DEF StatementHeader
<1>20. CollectionStatementBound(tx, w)
  <2>1. Statement(proof).new_backing = CollectedAmount(tx)
    BY <1>11, <1>14, <1>18 DEF CollectionStatement
  <2>2. \A k \in 1 .. 2 :
          Statement(proof).deposits[k] =
            [outpoint |-> ds[k].outpoint, value |-> ds[k].value,
             recipient_id |-> ds[k].recipient_id,
             key |-> old[ds[k].recipient_id].key]
    BY <1>18 DEF CollectionStatement
  <2>3. /\ old[ds[1].recipient_id].key = AccountKeys[w.recipients[1]]
        /\ old[ds[2].recipient_id].key = AccountKeys[w.recipients[2]]
    BY <1>4, <1>6, <1>7, <1>8, <1>10
  <2>4. \A k \in 1 .. 2 :
          /\ ds[k].outpoint = tx.ins[k + 1]
          /\ ds[k].value = SpentValue(tx, k + 1)
          /\ ds[k].recipient_id = w.recipients[k]
          /\ old[ds[k].recipient_id].key = AccountKeys[w.recipients[k]]
    <3>1. \A k \in 1 .. 2 : (k = 1 /\ k + 1 = 2) \/ (k = 2 /\ k + 1 = 3)
      OBVIOUS
    <3> QED
      BY <1>1, <1>4, <1>6, <1>7, <2>3, <3>1
  <2> QED
    BY <1>3, <1>19, <2>1, <2>2, <2>4 DEF CollectionStatementBound
<1>21. VerifyProof(w.proof, w.public_values)
  BY <1>3, <1>11 DEF VerifyProof, proof
<1> QED
  BY <1>7, <1>12, <1>15, <1>16, <1>17, <1>20, <1>21 DEF CollectionLeaf, tx, w

\* Any two deposits that fit are collected at the head.
LEMMA CollectionConfirmable ==
  ASSUME SpendInv, NEW b \in Identities, Advances(b),
         NEW d1 \in DepositsOf(b), NEW d2 \in DepositsOf(b),
         NEW sponsor \in SponsorCoins, d1 # d2, Before(d1, d2),
         HeadOf(b).outs[1].value + SpentOutput(d1).value
           + SpentOutput(d2).value <= MaxAmount
  PROVE  Confirmable(HonestCollection(b, <<d1, d2>>, sponsor))
<1> USE CoinsAssumption, CovenantAssumption
<1> DEFINE head == HeadOf(b)
           package == HonestCollection(b, <<d1, d2>>, sponsor)
           tx == package.tx
           w == package.wit[1]
           backing == head.outs[1].value
           v1 == SpentOutput(d1).value
           v2 == SpentOutput(d2).value
           v3 == SpentOutput(sponsor).value
<1>1. CollectionOf(package, b, d1, d2, sponsor)
  BY CollectionParts
<1>2. /\ tx.form = 0 /\ Len(tx.ins) = 4 /\ Len(tx.outs) = 3
      /\ DOMAIN tx = {"form", "ins", "outs"}
      /\ tx.ins[1] = OutPoint(head, 0)
      /\ tx.ins[2] = d1 /\ tx.ins[3] = d2 /\ tx.ins[4] = sponsor
      /\ tx.outs = <<Output(backing + v1 + v2, Program),
                     Output(v3 - MinerFee - CabooseValue, Sponsor),
                     Output(CabooseValue, Caboose(w.new_state))>>
      /\ w.path = "collection"
      /\ \A i \in 2 .. 3 : /\ package.wit[i].path = "collect"
                           /\ package.wit[i].parent = head
                           /\ package.wit[i].old_state = StateOf(head)
      /\ package.wit[4].path = "sponsor"
  BY <1>1 DEF CollectionOf
<1>3. CollectionLeaf(tx, 1, w)
  BY <1>1, CollectionLeafRuns
<1>4. /\ HeadForm(head) /\ backing \in Amount
      /\ OutPoint(head, 0) \in Unspent(confirmed)
  BY HeadUnspent
<1>5. /\ d1 \in Unspent(confirmed) /\ d2 \in Unspent(confirmed)
      /\ SpentOutput(d1).spk.kind = "deposit"
      /\ SpentOutput(d2).spk.kind = "deposit"
      /\ SpentOutput(d1).spk.program = Program
      /\ SpentOutput(d2).spk.program = Program
      /\ SpentOutput(d1).spk.bridge_id = b
      /\ SpentOutput(d2).spk.bridge_id = b
      /\ v1 \in Nat /\ v2 \in Nat
  BY DepositFacts DEF Amount
<1>6. /\ sponsor \in Unspent(confirmed)
      /\ SpentOutput(sponsor).spk = Sponsor
      /\ v3 \in Nat /\ v3 <= MaxAmount /\ MinerFee + CabooseValue <= v3
  BY SponsorFacts
<1>7. backing + v1 + v2 <= MaxAmount
  OBVIOUS
<1>8. SpentOutput(OutPoint(head, 0)).spk = Program
        /\ SpentOutput(OutPoint(head, 0)).value = backing
  BY <1>4 DEF SpentOutput, OutPoint, TxId, HeadForm, Output
<1> HIDE DEF head, package, tx, w, backing, v1, v2, v3
<1>9. \A i \in 1 .. 4 : i = 1 \/ i \in 2 .. 3 \/ i = 4
  OBVIOUS
<1>10. /\ Program.kind = "program" /\ Sponsor.kind = "sponsor"
  BY DEF Program, Sponsor
<1>11. /\ 1 \in 1 .. Len(tx.ins)
       /\ \A i \in 1 .. Len(tx.ins) : tx.ins[i] \in Unspent(confirmed)
  <2>1. \A i \in 2 .. 3 : i = 2 \/ i = 3
    OBVIOUS
  <2> QED
    BY <1>2, <1>4, <1>5, <1>6, <1>9, <2>1
<1>12. tx \notin confirmed /\ InputsAvailable(tx, confirmed)
  BY <1>11, CoinsAvailable DEF SpendInv, LineageInv
<1>13. /\ tx.outs[1] = Output(backing + v1 + v2, Program)
       /\ tx.outs[2] = Output(v3 - MinerFee - CabooseValue, Sponsor)
       /\ tx.outs[3] = Output(CabooseValue, Caboose(w.new_state))
       /\ tx.outs[1].value = backing + v1 + v2
       /\ tx.outs[2].value = v3 - MinerFee - CabooseValue
       /\ tx.outs[3].value = CabooseValue
  BY <1>2 DEF Output
<1>14. \A j \in 1 .. 3 : /\ tx.outs[j] = Output(tx.outs[j].value, tx.outs[j].spk)
                         /\ tx.outs[j].value \in Amount
  <2>1. \A j \in 1 .. 3 : j = 1 \/ j = 2 \/ j = 3
    OBVIOUS
  <2>2. /\ backing + v1 + v2 \in Amount
        /\ v3 - MinerFee - CabooseValue \in Amount
        /\ CabooseValue \in Amount
    BY <1>4, <1>5, <1>6, <1>7 DEF Amount
  <2>3. /\ tx.outs[1] = Output(tx.outs[1].value, tx.outs[1].spk)
        /\ tx.outs[2] = Output(tx.outs[2].value, tx.outs[2].spk)
        /\ tx.outs[3] = Output(tx.outs[3].value, tx.outs[3].spk)
    BY <1>13 DEF Output
  <2> QED
    BY <1>13, <2>1, <2>2, <2>3
<1>15. \A i, j \in 1 .. Len(tx.ins) : tx.ins[i] = tx.ins[j] => i = j
  <2>1. /\ OutPoint(head, 0) # d1 /\ OutPoint(head, 0) # d2
        /\ OutPoint(head, 0) # sponsor /\ d1 # sponsor /\ d2 # sponsor
    BY <1>5, <1>6, <1>8, <1>10
  <2>2. \A i \in 1 .. 4 : i = 1 \/ i = 2 \/ i = 3 \/ i = 4
    OBVIOUS
  <2> QED
    BY <1>2, <2>1, <2>2
<1>16. WellFormed(tx)
  BY <1>2, <1>14, <1>15 DEF WellFormed
<1>17. OutputValue(tx) <= InputValue(tx)
  <2>1. /\ SpentValue(tx, 1) = backing /\ SpentValue(tx, 2) = v1
        /\ SpentValue(tx, 3) = v2 /\ SpentValue(tx, 4) = v3
    BY <1>2, <1>8 DEF SpentValue, v1, v2, v3
  <2>2. InputValue(tx) = backing + v1 + v2 + v3
    <3>1. \A i \in 1 .. 4 : SpentValue(tx, i) \in Int
      <4>1. \A i \in 1 .. 4 : i = 1 \/ i = 2 \/ i = 3 \/ i = 4
        OBVIOUS
      <4> QED
        BY <1>4, <1>5, <1>6, <2>1, <4>1 DEF Amount
    <3>2. 4 \in 1 .. 4
      OBVIOUS
    <3>3. InputValue(tx) = SpentValue(tx, 1) + SpentValue(tx, 2)
                             + SpentValue(tx, 3) + SpentValue(tx, 4)
      BY <1>2, <3>1, <3>2, InputsSum
    <3> QED
      BY <2>1, <3>3
  <2>3. OutputValue(tx) = (backing + v1 + v2)
          + (v3 - MinerFee - CabooseValue) + CabooseValue
    <3>1. \A j \in 1 .. 3 : tx.outs[j].value \in Int
      BY <1>14 DEF Amount
    <3>2. 3 \in 1 .. 4
      OBVIOUS
    <3> QED
      BY <1>2, <1>13, <3>1, <3>2, OutputsSum
  <2> QED
    BY <1>4, <1>5, <1>6, <2>2, <2>3 DEF Amount
<1>18. \A i \in 1 .. Len(tx.ins) : ScriptAccepts(tx, i, package.wit[i])
  <2>1. ScriptAccepts(tx, 1, package.wit[1])
    <3>1. SpentSpk(tx, 1).kind = "program"
      BY <1>2, <1>8, <1>10 DEF SpentSpk
    <3> QED
      BY <1>2, <1>3, <3>1 DEF ScriptAccepts, BridgeScript, w
  <2>2. ASSUME NEW i \in 2 .. 3
        PROVE  ScriptAccepts(tx, i, package.wit[i])
    <3> DEFINE spk == SpentSpk(tx, i)
    <3>1. spk.kind = "deposit" /\ spk.program = Program /\ spk.bridge_id = b
      <4>1. i = 2 \/ i = 3
        OBVIOUS
      <4> QED
        BY <1>2, <1>5, <4>1 DEF SpentSpk
    <3>2. Running(tx, 4, 3) /\ tx.ins[1] = OutPoint(head, 0)
      BY <1>2, <1>3 DEF CollectionLeaf, Context
    <3>3. /\ package.wit[i].path = "collect"
          /\ package.wit[i].parent = head
          /\ package.wit[i].old_state = StateOf(head)
      BY <1>2
    <3>4. DepositCollectPath(spk, tx, i, package.wit[i])
      BY <3>1, <3>2, <3>3, DepositRuns DEF head
    <3> QED
      BY <3>1, <3>3, <3>4 DEF ScriptAccepts, DepositScript
  <2>3. ScriptAccepts(tx, 4, package.wit[4])
    BY <1>2, <1>6, <1>10 DEF ScriptAccepts, SpentSpk
  <2> QED
    BY <1>2, <1>9, <2>1, <2>2, <2>3
<1>19. Acceptable(package, confirmed)
  BY <1>12, <1>16, <1>17, <1>18 DEF Acceptable, tx
<1>20. Unforged(package, Signatures)
  <2>1. /\ SignaturesIn(package.wit[1]) = {}
        /\ \A i \in 2 .. 3 : SignaturesIn(package.wit[i]) = {}
        /\ SignaturesIn(package.wit[4]) = {}
    BY <1>2 DEF SignaturesIn, w
  <2> QED
    BY <1>2, <1>9, <2>1 DEF Unforged, tx
<1> QED
  BY <1>19, <1>20 DEF Confirmable, package

\* Deposits stay spendable in every state that the invariant describes.
LEMMA InvSpendable ==
  ASSUME SpendInv
  PROVE  DepositsStaySpendable
<1>1. TypeOK
  BY DEF SpendInv, LineageInv
<1> QED
  BY <1>1, CollectionConfirmable, RefundAccepted, Zenon DEF DepositsStaySpendable

\* The lineages and the forms of heads are inductive together.
LEMMA SpendInvHolds == Spec => []SpendInv
BY Lineages, Money, Widths, HeadsHaveForm, PTL DEF SpendInv

\* Theorem: any two unspent deposits of an instance can be collected at its
\* head, and any deposit refunded by its owner, in every reachable chain.
THEOREM DepositsSpendable == Spec => []DepositsStaySpendable
<1>1. SpendInv => DepositsStaySpendable
  BY InvSpendable
<1> QED
  BY <1>1, SpendInvHolds, PTL

-----------------------------------------------------------------------------
(* Signed requests settle                                                  *)

\* A funded request of the two holders, at the nonces of the accounts, is
\* accepted, and pays out of the backing what it withdraws.
LEMMA SettlementAccepts ==
  ASSUME NEW old \in AccountState(ValidKey), Validate(old),
         \A id \in AccountId : old[id].key = AccountKeys[id],
         NEW backing \in Amount, backing = Backing(old),
         NEW b, NEW prevout, NEW terms \in Terms, Funded(terms, old),
         NEW signed,
         signed[1] = NativeSignature(old[0].nonce, terms),
         signed[2] = ScopedSignature(b, old[0].nonce, terms),
         signed[3] = WithdrawalSignature(b, old[1].nonce, terms)
  PROVE  LET input == SettlementInput(b, prevout, old, backing, terms, signed)
         IN  /\ Accepts(input)
             /\ terms.withdrawal_amount \in Nat
             /\ terms.withdrawal_amount <= backing
<1> USE CoinsAssumption
<1> DEFINE input == SettlementInput(b, prevout, old, backing, terms, signed)
           t == TransferOf(terms)
           account == [key : ValidKey, balance : Amount, nonce : Nonce]
           amount == terms.transfer_amount
           fee == terms.transfer_fee
           paid == terms.withdrawal_amount
           mid == TransferApplied(old, t)
<1>1. /\ input.action = "transfer_withdraw" /\ input.old_state = old
      /\ input.old_backing = backing /\ input.bridge_id = b
      /\ input.transfer = t
      /\ input.transfer_signature = NativeSignature(old[0].nonce, terms)
      /\ input.scoped_transfer_signature =
           ScopedSignature(b, old[0].nonce, terms)
      /\ input.withdrawal_nonce = old[1].nonce
      /\ input.withdrawal_amount = paid
      /\ input.withdrawal_destination = terms.withdrawal_destination
      /\ input.withdrawal_signature = WithdrawalSignature(b, old[1].nonce, terms)
  BY DEF SettlementInput, WithdrawalAccountId
<1>2. /\ t.sender_id = TransferSenderId
      /\ t.recipient_pk = AccountKeys[WithdrawalAccountId]
      /\ t.token_id = NativeToken /\ t.amount = amount /\ t.fee = fee
  BY DEF TransferOf
<1>3. /\ amount \in Amount /\ fee \in Amount /\ paid \in Amount
      /\ amount \in Nat /\ fee \in Nat /\ paid \in Nat /\ backing \in Nat
      /\ backing <= MaxAmount
  BY TermsAssumption DEF Amount
<1>4. /\ amount + fee <= old[0].balance
      /\ paid <= old[1].balance + amount
      /\ paid # 0
      /\ IsP2TR(terms.withdrawal_destination)
      /\ old[0].nonce < MaxNonce /\ old[1].nonce < MaxNonce
  BY DEF Funded
<1>5. /\ old[0].balance \in Nat /\ old[1].balance \in Nat /\ old[2].balance \in Nat
      /\ old[0].nonce \in Nat /\ old[1].nonce \in Nat
      /\ old[0].balance <= backing
      /\ old[0].balance + old[1].balance <= backing
      /\ old[0].balance + old[2].balance <= backing
  <2>1. 0 \in AccountId /\ 1 \in AccountId /\ 2 \in AccountId
    BY DEF AccountId
  <2> QED
    BY <2>1, BackingBounds
<1>6. DOMAIN old = AccountId
  BY DEF AccountState
<1>7. /\ mid[0] = Moved(old[0], -(amount + fee), 1)
      /\ mid[1] = Moved(old[1], amount, 0)
      /\ mid[2] = Moved(old[2], fee, 0)
      /\ DOMAIN mid = AccountId
  <2> HIDE DEF t
  <2> QED
    BY <1>2, <1>6 DEF TransferApplied, TransferSenderId, WithdrawalAccountId,
                      FeeAccountId, AccountId
<1>8. /\ old[0].key = AccountKeys[0] /\ old[1].key = AccountKeys[1]
  BY DEF AccountId
<1> HIDE DEF input, t, mid
<1>9. /\ mid[1].key = old[1].key /\ mid[1].balance = old[1].balance + amount
      /\ mid[1].nonce = old[1].nonce
  BY <1>5, <1>7 DEF Moved
<1>10. TransferSupported(input)
  BY <1>1, <1>2, <1>8 DEF TransferSupported, WithdrawalAccountId
<1>11. TransferAuthorized(input)
  BY <1>1, <1>8 DEF TransferAuthorized, ValidSignature, NativeSignature,
                    ScopedSignature, TransferSenderId, t
<1>12. TransferFits(input)
  BY <1>1, <1>2, <1>3, <1>4, <1>5
     DEF TransferFits, TransferSenderId, WithdrawalAccountId, FeeAccountId
<1>13. WithdrawalAuthorized(input)
  BY <1>1, <1>4, <1>8, <1>9
     DEF WithdrawalAuthorized, WithdrawalAccountId, ValidSignature,
         WithdrawalSignature, mid
<1>14. paid <= backing
  BY <1>3, <1>4, <1>5
<1>15. WithdrawalFits(input)
  BY <1>1, <1>4, <1>9, <1>14 DEF WithdrawalFits, WithdrawalAccountId, mid
<1>16. RequireBacking(SettledState(input), SettledBacking(input))
  <2>1. SettledState(input) = [mid EXCEPT ![1] = Moved(mid[1], -paid, 1)]
    BY <1>1 DEF SettledState, WithdrawalAccountId, mid
  <2>2. /\ SettledState(input)[0].balance = old[0].balance - (amount + fee)
        /\ SettledState(input)[1].balance = old[1].balance + amount - paid
        /\ SettledState(input)[2].balance = old[2].balance + fee
    BY <1>3, <1>5, <1>7, <1>9, <2>1 DEF AccountId, Moved
  <2>3. Backing(SettledState(input)) = backing - paid
    BY <1>3, <1>5, <2>2 DEF Backing
  <2> QED
    BY <1>1, <1>3, <2>3 DEF RequireBacking, SettledBacking
<1>17. RequireBacking(old, backing)
  BY <1>3 DEF RequireBacking
<1>18. SettlementAccepted(input)
  BY <1>1, <1>10, <1>11, <1>12, <1>13, <1>15, <1>16, <1>17
     DEF SettlementAccepted
<1>19. HasWidths(input)
  BY <1>1, <1>2, <1>3 DEF HasWidths
<1> QED
  BY <1>1, <1>3, <1>14, <1>18, <1>19 DEF Accepts, input

\* The settlement feature_bridge.py builds, by its parts.
SettlementOf(package, b, terms, sponsor) ==
  LET head == HeadOf(b)
      old == AccountsOf(head)
      tx == package.tx
      w == package.wit[1]
  IN  /\ tx.form = 0 /\ Len(tx.ins) = 2 /\ Len(tx.outs) = 4
      /\ DOMAIN tx = {"form", "ins", "outs"}
      /\ tx.ins[1] = OutPoint(head, 0) /\ tx.ins[2] = sponsor
      /\ tx.outs = <<Output(head.outs[1].value - terms.withdrawal_amount, Program),
                     Output(terms.withdrawal_amount, terms.withdrawal_destination),
                     Output(SpentOutput(sponsor).value - MinerFee
                              - CabooseValue, Sponsor),
                     Output(CabooseValue, Caboose(w.new_state))>>
      /\ w.path = "settlement"
      /\ w.parent = head /\ w.ancestor = ParentOf(head)
      /\ w.old_state = StateOf(head) /\ w.bridge_id = b
      /\ w.new_state = ActiveState(b, Statement(w.proof).new_root)
      /\ w.public_values = Statement(w.proof)
      /\ \E signed : /\ w.proof = SettlementInput(b, OutPoint(head, 0), old,
                                    head.outs[1].value, terms, signed)
                     /\ signed[1] = NativeSignature(old[0].nonce, terms)
                     /\ signed[2] = ScopedSignature(b, old[0].nonce, terms)
                     /\ signed[3] = WithdrawalSignature(b, old[1].nonce, terms)
      /\ package.wit[2].path = "sponsor"

\* The settlement that the host builds, part by part.
LEMMA SettlementParts ==
  ASSUME NEW b, NEW terms, NEW sponsor
  PROVE  SettlementOf(HonestSettlement(b, terms, sponsor), b, terms, sponsor)
<1> DEFINE head == HeadOf(b)
           old == AccountsOf(head)
           signed == <<NativeSignature(old[0].nonce, terms),
                       ScopedSignature(b, old[0].nonce, terms),
                       WithdrawalSignature(b, old[1].nonce, terms)>>
           proof == SettlementInput(b, OutPoint(head, 0), old,
                                    head.outs[1].value, terms, signed)
           new_state == ActiveState(b, Statement(proof).new_root)
           tx == SettlementTx(head, sponsor, new_state, terms.withdrawal_amount,
                              terms.withdrawal_destination)
           package == SettlementPackage(tx, head, ParentOf(head), b,
                                        StateOf(head), new_state, proof)
<1>1. HonestSettlement(b, terms, sponsor) = package
  BY Zenon DEF HonestSettlement
<1>2. /\ signed[1] = NativeSignature(old[0].nonce, terms)
      /\ signed[2] = ScopedSignature(b, old[0].nonce, terms)
      /\ signed[3] = WithdrawalSignature(b, old[1].nonce, terms)
  <2> HIDE DEF old
  <2> QED
    OBVIOUS
<1>3. /\ tx.form = 0 /\ Len(tx.ins) = 2 /\ Len(tx.outs) = 4
      /\ DOMAIN tx = {"form", "ins", "outs"}
      /\ tx.ins[1] = OutPoint(head, 0) /\ tx.ins[2] = sponsor
      /\ tx.outs = <<Output(head.outs[1].value - terms.withdrawal_amount, Program),
                     Output(terms.withdrawal_amount, terms.withdrawal_destination),
                     Output(SpentOutput(sponsor).value - MinerFee
                              - CabooseValue, Sponsor),
                     Output(CabooseValue, Caboose(new_state))>>
  <2> HIDE DEF new_state, head
  <2> QED
    BY DEF SettlementTx
<1> HIDE DEF head, old, signed, proof, new_state, tx
<1>4. /\ package.tx = tx
      /\ package.wit[1].path = "settlement"
      /\ package.wit[1].parent = head /\ package.wit[1].ancestor = ParentOf(head)
      /\ package.wit[1].old_state = StateOf(head) /\ package.wit[1].bridge_id = b
      /\ package.wit[1].new_state = new_state
      /\ package.wit[1].public_values = Statement(proof)
      /\ package.wit[1].proof = proof
      /\ package.wit[2].path = "sponsor"
  BY DEF SettlementPackage, Package, SponsorWitness
<1> HIDE DEF package
<1>5. /\ \E other : /\ proof = SettlementInput(b, OutPoint(head, 0), old,
                                 head.outs[1].value, terms, other)
                    /\ other[1] = NativeSignature(old[0].nonce, terms)
                    /\ other[2] = ScopedSignature(b, old[0].nonce, terms)
                    /\ other[3] = WithdrawalSignature(b, old[1].nonce, terms)
      /\ new_state = ActiveState(b, Statement(proof).new_root)
  BY <1>2, Zenon DEF proof, new_state
<1>6. SettlementOf(package, b, terms, sponsor)
  BY <1>3, <1>4, <1>5, Zenon DEF SettlementOf, head, old
<1> QED
  BY <1>1, <1>6, Zenon

\* Its leaf runs, and its proof shows the three signatures of the request.
LEMMA SettlementLeafRuns ==
  ASSUME SpendInv, NEW b \in Identities, Advances(b),
         NEW terms \in Terms, Funded(terms, AccountsOf(HeadOf(b))),
         NEW sponsor \in SponsorCoins,
         NEW package, SettlementOf(package, b, terms, sponsor)
  PROVE  /\ SettlementLeaf(package.tx, 1, package.wit[1])
         /\ terms.withdrawal_amount \in Nat
         /\ terms.withdrawal_amount <= HeadOf(b).outs[1].value
<1> USE CoinsAssumption, CovenantAssumption
<1> DEFINE head == HeadOf(b)
           old == AccountsOf(head)
           tx == package.tx
           w == package.wit[1]
           proof == w.proof
           backing == head.outs[1].value
           paid == terms.withdrawal_amount
           v == SpentOutput(sponsor).value
<1>1. /\ tx.form = 0 /\ Len(tx.ins) = 2 /\ Len(tx.outs) = 4
      /\ tx.ins[1] = OutPoint(head, 0) /\ tx.ins[2] = sponsor
      /\ tx.outs = <<Output(backing - paid, Program),
                     Output(paid, terms.withdrawal_destination),
                     Output(v - MinerFee - CabooseValue, Sponsor),
                     Output(CabooseValue, Caboose(w.new_state))>>
  BY DEF SettlementOf
<1>2. /\ w.parent = head /\ w.ancestor = ParentOf(head)
      /\ w.old_state = StateOf(head) /\ w.bridge_id = b
      /\ w.new_state = ActiveState(b, Statement(proof).new_root)
      /\ w.public_values = Statement(proof)
  BY DEF SettlementOf
<1>3. PICK signed :
        /\ proof = SettlementInput(b, OutPoint(head, 0), old, backing, terms, signed)
        /\ signed[1] = NativeSignature(old[0].nonce, terms)
        /\ signed[2] = ScopedSignature(b, old[0].nonce, terms)
        /\ signed[3] = WithdrawalSignature(b, old[1].nonce, terms)
  BY DEF SettlementOf
<1>4. /\ SpentSpk(tx, 2) = Sponsor /\ SpentValue(tx, 2) = v
      /\ SpentSpk(tx, 1) = head.outs[1].spk /\ SpentValue(tx, 1) = backing
  <2>1. SpentOutput(tx.ins[1]) = head.outs[1]
    BY <1>1 DEF SpentOutput, OutPoint, TxId
  <2>2. SpentOutput(sponsor).spk = Sponsor
    BY SponsorFacts
  <2> QED
    BY <1>1, <2>1, <2>2 DEF SpentSpk, SpentValue
<1>5. /\ backing \in Amount /\ HeadForm(head)
      /\ old \in AccountState(ValidKey)
      /\ \A id \in AccountId : old[id].key = AccountKeys[id]
      /\ Validate(old) /\ backing = Backing(old)
  BY HeadUnspent, HeadAccounts
<1>6. v \in Nat /\ MinerFee + CabooseValue <= v
  BY SponsorFacts
<1>7. Funded(terms, old)
  OBVIOUS
<1> HIDE DEF old, tx, w, proof, backing, v, head
<1>8. Accepts(proof) /\ paid \in Nat /\ paid <= backing
  BY <1>3, <1>5, <1>7, SettlementAccepts
<1> HIDE DEF paid
<1>9. /\ Statement(proof) = SettlementStatement(proof)
      /\ proof.old_state = old /\ proof.bridge_id = b
      /\ proof.bridge_prevout = OutPoint(head, 0)
      /\ proof.old_backing = backing /\ proof.withdrawal_amount = paid
      /\ proof.withdrawal_destination = terms.withdrawal_destination
  BY <1>3 DEF Statement, SettlementInput, paid
<1>10. /\ Statement(proof).action = "transfer_withdraw"
       /\ Statement(proof).bridge_id = b
       /\ Statement(proof).bridge_prevout = OutPoint(head, 0)
       /\ Statement(proof).old_root = Root(old)
       /\ Statement(proof).old_backing = backing
       /\ Statement(proof).new_backing = backing - paid
       /\ Statement(proof).withdrawal_amount = paid
       /\ Statement(proof).withdrawal_destination = terms.withdrawal_destination
  BY <1>9 DEF SettlementStatement, SettledBacking
<1>11. /\ SpentSpk(tx, 1) = Program
       /\ Is34Bytes(SpentSpk(tx, 1)) /\ Is34Bytes(SpentSpk(tx, 2))
  BY <1>4, <1>5 DEF HeadForm, Output, Is34Bytes, Program, Sponsor
<1>12. Context(tx, 2, 4)
  <2>1. tx.ins[1].vout = 0
    BY <1>1 DEF OutPoint
  <2>2. \A i \in 1 .. 2 : i = 1 \/ i = 2
    OBVIOUS
  <2> QED
    BY <1>1, <1>11, <2>1, <2>2 DEF Context, Running
<1>13. SettlementOutputs(tx, w)
  <2>1. SponsorChange(v) = v - MinerFee - CabooseValue
    BY <1>6 DEF SponsorChange
  <2> QED
    BY <1>1, <1>2, <1>4, <1>6, <1>8, <1>10, <2>1 DEF SettlementOutputs
<1>14. AuthenticateParent(tx, w)
  BY <1>1, <1>2, HeadAuthenticated DEF head
<1>15. StatementHeader(tx, w, "transfer_withdraw")
  <2>1. w.old_state.root = Root(old)
    BY <1>2, <1>5 DEF HeadForm, old
  <2>2. w.new_state.root = Statement(proof).new_root
    BY <1>2 DEF ActiveState
  <2> QED
    BY <1>1, <1>2, <1>4, <1>10, <2>1, <2>2 DEF StatementHeader
<1>16. SettlementStatementBound(tx, w)
  <2>1. Is34Bytes(terms.withdrawal_destination)
    BY <1>7 DEF Funded, IsP2TR, Is34Bytes
  <2> QED
    BY <1>2, <1>4, <1>8, <1>10, <1>15, <2>1 DEF SettlementStatementBound
<1>17. VerifyProof(w.proof, w.public_values)
  BY <1>2, <1>8 DEF VerifyProof, proof
<1>18. SettlementLeaf(tx, 1, w)
  BY <1>4, <1>12, <1>13, <1>14, <1>16, <1>17 DEF SettlementLeaf
<1> QED
  BY <1>8, <1>18 DEF tx, w, paid, backing, head

\* A funded request that both holders have signed settles at the head.
LEMMA SettlementConfirmable ==
  ASSUME SpendInv, NEW b \in Identities, Advances(b),
         NEW terms \in Terms, Funded(terms, AccountsOf(HeadOf(b))),
         NEW sponsor \in SponsorCoins,
         [bridge_id |-> b,
          sender_nonce |-> AccountsOf(HeadOf(b))[0].nonce,
          withdrawal_nonce |-> AccountsOf(HeadOf(b))[1].nonce,
          terms |-> terms] \in agreed
  PROVE  Confirmable(HonestSettlement(b, terms, sponsor))
<1> USE CoinsAssumption, CovenantAssumption
<1> DEFINE head == HeadOf(b)
           old == AccountsOf(head)
           package == HonestSettlement(b, terms, sponsor)
           tx == package.tx
           w == package.wit[1]
           backing == head.outs[1].value
           paid == terms.withdrawal_amount
           v == SpentOutput(sponsor).value
           request == [bridge_id |-> b, sender_nonce |-> old[0].nonce,
                       withdrawal_nonce |-> old[1].nonce, terms |-> terms]
<1>1. SettlementOf(package, b, terms, sponsor)
  BY SettlementParts
<1>2. /\ tx.form = 0 /\ Len(tx.ins) = 2 /\ Len(tx.outs) = 4
      /\ DOMAIN tx = {"form", "ins", "outs"}
      /\ tx.ins[1] = OutPoint(head, 0) /\ tx.ins[2] = sponsor
      /\ tx.outs = <<Output(backing - paid, Program),
                     Output(paid, terms.withdrawal_destination),
                     Output(v - MinerFee - CabooseValue, Sponsor),
                     Output(CabooseValue, Caboose(w.new_state))>>
      /\ w.path = "settlement"
      /\ package.wit[2].path = "sponsor"
  BY <1>1 DEF SettlementOf
<1>3. SettlementLeaf(tx, 1, w) /\ paid \in Nat /\ paid <= backing
  BY <1>1, SettlementLeafRuns
<1>4. /\ HeadForm(head) /\ backing \in Amount
      /\ OutPoint(head, 0) \in Unspent(confirmed)
  BY HeadUnspent
<1>5. /\ sponsor \in Unspent(confirmed)
      /\ SpentOutput(sponsor).spk = Sponsor
      /\ v \in Nat /\ v <= MaxAmount /\ MinerFee + CabooseValue <= v
  BY SponsorFacts
<1>6. /\ SpentOutput(OutPoint(head, 0)).spk = Program
      /\ SpentOutput(OutPoint(head, 0)).value = backing
  BY <1>4 DEF SpentOutput, OutPoint, TxId, HeadForm, Output
<1>7. SignaturesIn(w) \subseteq Signatures
  <2>1. PICK signed :
          /\ w.proof = SettlementInput(b, OutPoint(head, 0), old, backing,
                                       terms, signed)
          /\ signed[1] = NativeSignature(old[0].nonce, terms)
          /\ signed[2] = ScopedSignature(b, old[0].nonce, terms)
          /\ signed[3] = WithdrawalSignature(b, old[1].nonce, terms)
    BY <1>1 DEF SettlementOf
  <2>2. SignaturesIn(w) = {signed[1], signed[2], signed[3]}
    <3>1. /\ w.proof.transfer_signature = signed[1]
          /\ w.proof.scoped_transfer_signature = signed[2]
          /\ w.proof.withdrawal_signature = signed[3]
      BY <2>1 DEF SettlementInput
    <3> HIDE DEF w
    <3> QED
      BY <1>2, <3>1 DEF SignaturesIn
  <2>3. request \in agreed
    OBVIOUS
  <2>4. RequestSignatures(request) = {signed[1], signed[2], signed[3]}
    <3>1. /\ request.bridge_id = b /\ request.sender_nonce = old[0].nonce
          /\ request.withdrawal_nonce = old[1].nonce /\ request.terms = terms
      OBVIOUS
    <3> HIDE DEF request, old
    <3> QED
      BY <2>1, <3>1 DEF RequestSignatures
  <2> HIDE DEF request, w
  <2> QED
    BY <2>2, <2>3, <2>4 DEF Signatures
<1> HIDE DEF head, old, package, tx, w, backing, paid, v, request
<1>8. \A i \in 1 .. 2 : i = 1 \/ i = 2
  OBVIOUS
<1>9. Program.kind = "program" /\ Sponsor.kind = "sponsor"
  BY DEF Program, Sponsor
<1>10. /\ 1 \in 1 .. Len(tx.ins)
       /\ \A i \in 1 .. Len(tx.ins) : tx.ins[i] \in Unspent(confirmed)
  BY <1>2, <1>4, <1>5, <1>8
<1>11. tx \notin confirmed /\ InputsAvailable(tx, confirmed)
  BY <1>10, CoinsAvailable DEF SpendInv, LineageInv
<1>12. /\ tx.outs[1] = Output(backing - paid, Program)
       /\ tx.outs[2] = Output(paid, terms.withdrawal_destination)
       /\ tx.outs[3] = Output(v - MinerFee - CabooseValue, Sponsor)
       /\ tx.outs[4] = Output(CabooseValue, Caboose(w.new_state))
       /\ tx.outs[1].value = backing - paid /\ tx.outs[2].value = paid
       /\ tx.outs[3].value = v - MinerFee - CabooseValue
       /\ tx.outs[4].value = CabooseValue
  BY <1>2 DEF Output
<1>13. \A j \in 1 .. 4 : /\ tx.outs[j] = Output(tx.outs[j].value, tx.outs[j].spk)
                         /\ tx.outs[j].value \in Amount
  <2>1. \A j \in 1 .. 4 : j = 1 \/ j = 2 \/ j = 3 \/ j = 4
    OBVIOUS
  <2>2. /\ backing - paid \in Amount /\ paid \in Amount
        /\ v - MinerFee - CabooseValue \in Amount
        /\ CabooseValue \in Amount
    BY <1>3, <1>4, <1>5 DEF Amount
  <2>3. /\ tx.outs[1] = Output(tx.outs[1].value, tx.outs[1].spk)
        /\ tx.outs[2] = Output(tx.outs[2].value, tx.outs[2].spk)
        /\ tx.outs[3] = Output(tx.outs[3].value, tx.outs[3].spk)
        /\ tx.outs[4] = Output(tx.outs[4].value, tx.outs[4].spk)
    BY <1>12 DEF Output
  <2> QED
    BY <1>12, <2>1, <2>2, <2>3
<1>14. \A i, j \in 1 .. Len(tx.ins) : tx.ins[i] = tx.ins[j] => i = j
  <2>1. OutPoint(head, 0) # sponsor
    BY <1>5, <1>6, <1>9
  <2> QED
    BY <1>2, <1>8, <2>1
<1>15. WellFormed(tx)
  BY <1>2, <1>13, <1>14 DEF WellFormed
<1>16. OutputValue(tx) <= InputValue(tx)
  <2>1. SpentValue(tx, 1) = backing /\ SpentValue(tx, 2) = v
    BY <1>2, <1>6 DEF SpentValue, v
  <2>2. InputValue(tx) = backing + v
    <3>1. /\ \A i \in 1 .. 2 : SpentValue(tx, i) \in Int
          /\ 2 \in 1 .. 4
      BY <1>4, <1>5, <1>8, <2>1 DEF Amount
    <3>2. InputValue(tx) = SpentValue(tx, 1) + SpentValue(tx, 2)
      BY <1>2, <3>1, InputsSum
    <3> QED
      BY <2>1, <3>2
  <2>3. OutputValue(tx) = (backing - paid) + paid
          + (v - MinerFee - CabooseValue) + CabooseValue
    <3>1. /\ \A j \in 1 .. 4 : tx.outs[j].value \in Int
          /\ 4 \in 1 .. 4
      BY <1>13 DEF Amount
    <3> QED
      BY <1>2, <1>12, <3>1, OutputsSum
  <2> QED
    BY <1>3, <1>4, <1>5, <2>2, <2>3 DEF Amount
<1>17. \A i \in 1 .. Len(tx.ins) : ScriptAccepts(tx, i, package.wit[i])
  <2>1. ScriptAccepts(tx, 1, package.wit[1])
    <3>1. SpentSpk(tx, 1).kind = "program"
      BY <1>2, <1>6, <1>9 DEF SpentSpk
    <3> QED
      BY <1>2, <1>3, <3>1 DEF ScriptAccepts, BridgeScript, w
  <2>2. ScriptAccepts(tx, 2, package.wit[2])
    BY <1>2, <1>5, <1>9 DEF ScriptAccepts, SpentSpk
  <2> QED
    BY <1>2, <1>8, <2>1, <2>2
<1>18. Acceptable(package, confirmed)
  BY <1>11, <1>15, <1>16, <1>17 DEF Acceptable, tx
<1>19. Unforged(package, Signatures)
  <2>1. SignaturesIn(package.wit[2]) = {}
    BY <1>2 DEF SignaturesIn
  <2> QED
    BY <1>2, <1>7, <1>8, <2>1 DEF Unforged, tx, w
<1> QED
  BY <1>18, <1>19 DEF Confirmable, package

\* Theorem: a funded request signed at the current nonces settles at the head
\* of its instance, whatever kind of transaction created that head.
THEOREM RequestsSettle == Spec => []SignedRequestsSettle
<1>1. SpendInv => SignedRequestsSettle
  BY SettlementConfirmable, Zenon DEF SignedRequestsSettle
<1> QED
  BY <1>1, SpendInvHolds, PTL

=============================================================================
