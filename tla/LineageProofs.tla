--------------------------- MODULE LineageProofs ----------------------------
(***************************************************************************)
(* The lineages of bridge heads, as an inductive invariant: a chain's head *)
(* transactions are exactly the elements of the lineages, each spends      *)
(* output 0 of the one before, and none occurs twice.  Types,              *)
(* authenticity and the uniqueness of heads follow from it.  So does what  *)
(* only counts up along a lineage, the nonces of the two signing accounts  *)
(* and the balance of the fee account: a signed request moves money at     *)
(* most once in a lineage, whatever was disconnected, and fees stay.       *)
(*                                                                         *)
(* Last, the bridge implements Custody: seen through the heads' account    *)
(* states, values and payouts, every step of the chain is a step of the    *)
(* books or changes nothing in them.                                       *)
(***************************************************************************)
EXTENDS CustodyProofs, SequenceTheorems

\* A transaction that spends the program does so in input 0 only, and holds
\* the program in output 0.
HeadInputs ==
  \A tx \in confirmed :
    SpendsProgram(tx) =>
      /\ tx.outs[1].spk = Program
      /\ \A i \in 1 .. Len(tx.ins) : SpentSpk(tx, i) = Program => i = 1

Rooted ==
  \A b \in Identities : IsGenesis(lineage[b][1]) /\ TxId(lineage[b][1]) = b

Linked ==
  \A b \in Identities : \A k \in 2 .. Len(lineage[b]) :
    /\ SpendsProgram(lineage[b][k])
    /\ lineage[b][k].ins[1] = OutPoint(lineage[b][k - 1], 0)
    /\ StateOf(lineage[b][k]).bridge_id = b

Distinct ==
  \A b \in Identities : \A j, k \in 1 .. Len(lineage[b]) :
    lineage[b][j] = lineage[b][k] => j = k

Complete ==
  \A tx \in confirmed :
    /\ IsGenesis(tx) => TxId(tx) \in Identities
    /\ SpendsProgram(tx) =>
         \E b \in Identities : \E k \in 2 .. Len(lineage[b]) : lineage[b][k] = tx

LineageInv ==
  /\ TypeOK
  /\ HeadInputs
  /\ Rooted
  /\ Linked
  /\ Distinct
  /\ Complete

-----------------------------------------------------------------------------
(* What the invariant says                                                 *)

\* A lineage is a non-empty sequence of confirmed transactions.
LEMMA LineFacts ==
  ASSUME LineageInv, NEW b \in Identities
  PROVE  /\ lineage[b] \in Seq(confirmed)
         /\ Len(lineage[b]) \in Nat \ {0}
         /\ \A k \in 1 .. Len(lineage[b]) : lineage[b][k] \in confirmed
<1>1. lineage[b] \in Seq(confirmed) /\ lineage[b] # <<>>
  BY DEF LineageInv, TypeOK
<1>2. Len(lineage[b]) \in Nat \ {0}
  BY <1>1, EmptySeq
<1>3. \A k \in 1 .. Len(lineage[b]) : lineage[b][k] \in confirmed
  BY <1>1, ElementOfSeq
<1> QED
  BY <1>1, <1>2, <1>3

\* Every transaction that creates a head is in the lineage of its identity.
LEMMA InItsLineage ==
  ASSUME LineageInv, NEW tx \in confirmed, IsGenesis(tx) \/ SpendsProgram(tx)
  PROVE  /\ IdentityOf(tx) \in Identities
         /\ \E k \in 1 .. Len(lineage[IdentityOf(tx)]) :
              lineage[IdentityOf(tx)][k] = tx
<1>1. CASE IsGenesis(tx)
  <2>1. IdentityOf(tx) = TxId(tx) /\ TxId(tx) \in Identities
    BY <1>1 DEF LineageInv, Complete, IdentityOf
  <2>2. TxId(lineage[TxId(tx)][1]) = TxId(tx)
    BY <2>1 DEF LineageInv, Rooted
  <2>3. lineage[TxId(tx)][1] = tx
    BY <2>2, TxIdInjective
  <2>4. 1 \in 1 .. Len(lineage[TxId(tx)])
    BY <2>1, LineFacts
  <2> QED
    BY <2>1, <2>3, <2>4
<1>2. CASE SpendsProgram(tx)
  <2> PICK b \in Identities : \E k \in 2 .. Len(lineage[b]) : lineage[b][k] = tx
    BY <1>2 DEF LineageInv, Complete
  <2>1. PICK k \in 2 .. Len(lineage[b]) : lineage[b][k] = tx
    OBVIOUS
  <2>2. StateOf(tx).bridge_id = b
    BY <2>1 DEF LineageInv, Linked
  <2>3. IdentityOf(tx) = b
    BY <1>2, <2>2, GenesisOpens DEF IdentityOf
  <2>4. k \in 1 .. Len(lineage[b])
    BY <2>1, LineFacts
  <2> QED
    BY <2>1, <2>3, <2>4
<1> QED
  BY <1>1, <1>2

\* Every element of a lineage creates a head, and belongs to that identity.
LEMMA OfItsIdentity ==
  ASSUME LineageInv, NEW b \in Identities, NEW k \in 1 .. Len(lineage[b])
  PROVE  /\ IsGenesis(lineage[b][k]) \/ SpendsProgram(lineage[b][k])
         /\ IsGenesis(lineage[b][k]) <=> k = 1
         /\ IdentityOf(lineage[b][k]) = b
<1>1. CASE k = 1
  BY <1>1 DEF LineageInv, Rooted, IdentityOf
<1>2. CASE k # 1
  <2>1. k \in 2 .. Len(lineage[b])
    BY <1>2, LineFacts
  <2>2. /\ SpendsProgram(lineage[b][k])
        /\ StateOf(lineage[b][k]).bridge_id = b
    BY <2>1 DEF LineageInv, Linked
  <2>3. ~ IsGenesis(lineage[b][k])
    BY <2>2, GenesisOpens
  <2> QED
    BY <1>2, <2>2, <2>3 DEF IdentityOf
<1> QED
  BY <1>1, <1>2

\* A head transaction before the last of its lineage has output 0 spent.
LEMMA SpentBelowHead ==
  ASSUME LineageInv, NEW b \in Identities, NEW k \in 1 .. Len(lineage[b]),
         k # Len(lineage[b])
  PROVE  IsSpent(OutPoint(lineage[b][k], 0), confirmed)
<1> DEFINE next == lineage[b][k + 1]
<1>1. /\ k + 1 \in 2 .. Len(lineage[b])
      /\ k + 1 \in 1 .. Len(lineage[b])
      /\ (k + 1) - 1 = k
  BY LineFacts
<1>2. next \in confirmed
  BY <1>1, LineFacts
<1>3. SpendsProgram(next) /\ next.ins[1] = OutPoint(lineage[b][k], 0)
  BY <1>1 DEF LineageInv, Linked
<1>4. 1 \in 1 .. Len(next.ins)
  <2>1. PICK i \in 1 .. Len(next.ins) : SpentSpk(next, i) = Program
    BY <1>3 DEF SpendsProgram
  <2>2. i = 1
    BY <1>2, <1>3, <2>1 DEF LineageInv, HeadInputs
  <2> QED
    BY <2>1, <2>2
<1> QED
  BY <1>2, <1>3, <1>4 DEF IsSpent

\* A head transaction with output 0 spent is before the last of its lineage.
LEMMA SpentIsBelowHead ==
  ASSUME LineageInv, NEW tx \in confirmed, IsGenesis(tx) \/ SpendsProgram(tx),
         IsSpent(OutPoint(tx, 0), confirmed)
  PROVE  \E k \in 1 .. Len(lineage[IdentityOf(tx)]) :
           /\ k # Len(lineage[IdentityOf(tx)])
           /\ lineage[IdentityOf(tx)][k] = tx
<1> PICK next \in confirmed :
      \E i \in 1 .. Len(next.ins) : next.ins[i] = OutPoint(tx, 0)
  BY DEF IsSpent
<1>1. PICK i \in 1 .. Len(next.ins) : next.ins[i] = OutPoint(tx, 0)
  OBVIOUS
<1>2. tx.outs[1].spk = Program
  BY GenesisOpens DEF LineageInv, HeadInputs
<1>3. SpentSpk(next, i) = Program
  BY <1>1, <1>2 DEF SpentSpk, SpentOutput, OutPoint, TxId
<1>4. SpendsProgram(next)
  BY <1>1, <1>3 DEF SpendsProgram
<1>5. i = 1
  BY <1>1, <1>3, <1>4 DEF LineageInv, HeadInputs
<1> PICK b \in Identities : \E k \in 2 .. Len(lineage[b]) : lineage[b][k] = next
  BY <1>1, <1>4 DEF LineageInv, Complete
<1>6. PICK k \in 2 .. Len(lineage[b]) : lineage[b][k] = next
  OBVIOUS
<1>7. next.ins[1] = OutPoint(lineage[b][k - 1], 0)
  BY <1>6 DEF LineageInv, Linked
<1>8. lineage[b][k - 1] = tx
  BY <1>1, <1>5, <1>7 DEF OutPoint, TxId
<1>9. k - 1 \in 1 .. Len(lineage[b]) /\ k - 1 # Len(lineage[b])
  BY <1>6, LineFacts
<1>10. IdentityOf(tx) = b
  BY <1>8, <1>9, OfItsIdentity
<1> QED
  BY <1>8, <1>9, <1>10

\* The properties that follow.
LEMMA InvAuthentic ==
  ASSUME LineageInv
  PROVE  LineagesAuthentic
BY DEF LineageInv, Rooted, Linked, Complete, LineagesAuthentic

\* The last of a lineage is unspent and everything before it is spent by its
\* successor.
LEMMA InvOneHead ==
  ASSUME LineageInv
  PROVE  OneHead
<1> SUFFICES ASSUME NEW b \in Identities, NEW tx \in confirmed,
                    IsGenesis(tx) \/ SpendsProgram(tx), IdentityOf(tx) = b
             PROVE  IsSpent(OutPoint(tx, 0), confirmed) <=> tx # HeadOf(b)
  BY DEF OneHead
<1>1. PICK k \in 1 .. Len(lineage[b]) : lineage[b][k] = tx
  BY InItsLineage
<1>2. Len(lineage[b]) \in 1 .. Len(lineage[b])
  BY LineFacts
<1>3. ASSUME IsSpent(OutPoint(tx, 0), confirmed)
      PROVE  tx # HeadOf(b)
  <2>1. PICK j \in 1 .. Len(lineage[b]) :
          j # Len(lineage[b]) /\ lineage[b][j] = tx
    BY <1>3, SpentIsBelowHead
  <2> QED
    BY <1>2, <2>1 DEF LineageInv, Distinct, HeadOf
<1>4. ASSUME tx # HeadOf(b)
      PROVE  IsSpent(OutPoint(tx, 0), confirmed)
  <2>1. k # Len(lineage[b])
    BY <1>1, <1>4 DEF HeadOf
  <2> QED
    BY <1>1, <2>1, SpentBelowHead
<1> QED
  BY <1>3, <1>4

-----------------------------------------------------------------------------
(* Every step keeps the invariant                                          *)

\* A genesis opens a lineage of its own.
LEMMA OpenKeeps ==
  ASSUME LineageInv, NEW package, Confirm(package), IsGenesis(package.tx)
  PROVE  LineageInv'
<1> DEFINE tx == package.tx
           opened == TxId(tx)
<1>1. /\ tx \notin confirmed
      /\ WellFormed(tx)
      /\ confirmed' = confirmed \cup {tx}
      /\ lineage' = Extended(lineage, tx)
  BY DEF Confirm, Acceptable
<1>2. ~ SpendsProgram(tx)
  BY GenesisOpens
<1>3. lineage' = [b \in Identities \cup {opened} |->
                    IF b = opened THEN <<tx>> ELSE lineage[b]]
  BY <1>1, <1>2, Zenon DEF Extended, Identities
<1>4. opened \notin Identities
  <2> SUFFICES ASSUME opened \in Identities PROVE FALSE
    OBVIOUS
  <2>1. lineage[opened][1] = tx
    BY TxIdInjective DEF LineageInv, Rooted
  <2> QED
    BY <1>1, <2>1, LineFacts
<1>5. /\ Identities' = Identities \cup {opened}
      /\ lineage'[opened] = <<tx>>
      /\ \A b \in Identities : lineage'[b] = lineage[b]
  BY <1>3, <1>4 DEF Identities
<1>6. /\ Len(<<tx>>) = 1 /\ <<tx>>[1] = tx
      /\ <<tx>> \in Seq(confirmed') /\ <<tx>> # <<>>
  BY <1>1
<1>7. TypeOK'
  <2>1. \A b \in Identities : lineage[b] \in Seq(confirmed') /\ lineage[b] # <<>>
    BY <1>1, SeqMonotonic DEF LineageInv, TypeOK
  <2>2. lineage' \in [Identities' -> Seq(confirmed')]
    BY <1>3, <1>5, <1>6, <2>1
  <2>3. \A b \in Identities' : lineage'[b] # <<>>
    BY <1>5, <1>6, <2>1
  <2>4. /\ Coinbases \subseteq confirmed'
        /\ \A other \in confirmed' \ Coinbases : WellFormed(other)
    BY <1>1 DEF LineageInv, TypeOK
  <2> QED
    BY <2>2, <2>3, <2>4 DEF TypeOK
<1>8. HeadInputs'
  BY <1>1, <1>2 DEF LineageInv, HeadInputs
<1>9. Rooted'
  BY <1>5, <1>6 DEF LineageInv, Rooted
<1>10. Linked'
  BY <1>5, <1>6 DEF LineageInv, Linked
<1>11. Distinct'
  BY <1>5, <1>6 DEF LineageInv, Distinct
<1>12. Complete'
  BY <1>1, <1>2, <1>5 DEF LineageInv, Complete
<1> QED
  BY <1>7, <1>8, <1>9, <1>10, <1>11, <1>12 DEF LineageInv

\* An accepted spend of the program spends the last element of the lineage
\* it claims: no earlier element has output 0 unspent.
LEMMA AdvancesHead ==
  ASSUME LineageInv, NEW package, Confirm(package), SpendsProgram(package.tx)
  PROVE  LET b == StateOf(package.tx).bridge_id
         IN  /\ b \in Identities
             /\ ParentOf(package.tx) = HeadOf(b)
             /\ package.tx.ins[1] = OutPoint(HeadOf(b), 0)
<1> DEFINE tx == package.tx
           p == ParentOf(tx)
           b == StateOf(tx).bridge_id
<1>1. Acceptable(package, confirmed)
  BY DEF Confirm
<1>2. /\ p \in confirmed
      /\ tx.ins[1] = OutPoint(p, 0)
      /\ ~ IsSpent(OutPoint(p, 0), confirmed)
      /\ \/ IsGenesis(p) /\ b = TxId(p)
         \/ SpendsProgram(p) /\ b = StateOf(p).bridge_id
  BY <1>1, HeadAdvances
<1>3. IdentityOf(p) = b
  BY <1>2, GenesisOpens DEF IdentityOf
<1>4. b \in Identities /\ \E k \in 1 .. Len(lineage[b]) : lineage[b][k] = p
  BY <1>2, <1>3, InItsLineage
<1>5. PICK k \in 1 .. Len(lineage[b]) : lineage[b][k] = p
  BY <1>4
<1>6. k = Len(lineage[b])
  BY <1>2, <1>4, <1>5, SpentBelowHead
<1> QED
  BY <1>2, <1>4, <1>5, <1>6 DEF HeadOf

\* A transition extends the lineage it claims by one.
LEMMA AdvanceKeeps ==
  ASSUME LineageInv, NEW package, Confirm(package), SpendsProgram(package.tx)
  PROVE  LineageInv'
<1> DEFINE tx == package.tx
           c == StateOf(tx).bridge_id
           n == Len(lineage[c])
<1>1. /\ tx \notin confirmed
      /\ WellFormed(tx)
      /\ confirmed' = confirmed \cup {tx}
      /\ lineage' = Extended(lineage, tx)
      /\ Acceptable(package, confirmed)
  BY DEF Confirm, Acceptable
<1>2. /\ ~ IsGenesis(tx)
      /\ tx.outs[1].spk = Program
      /\ \A i \in 1 .. Len(tx.ins) : SpentSpk(tx, i) = Program => i = 1
  BY <1>1, HeadAdvances
<1>3. /\ c \in Identities
      /\ tx.ins[1] = OutPoint(lineage[c][n], 0)
  BY AdvancesHead DEF HeadOf
<1>4. lineage' = [lineage EXCEPT ![c] = Append(lineage[c], tx)]
  BY <1>1, <1>2, Zenon DEF Extended
<1>5. /\ Identities' = Identities
      /\ lineage'[c] = Append(lineage[c], tx)
      /\ \A b \in Identities : b # c => lineage'[b] = lineage[b]
  BY <1>3, <1>4 DEF Identities
<1>6. /\ lineage[c] \in Seq(confirmed')
      /\ n \in Nat \ {0}
      /\ \A k \in 1 .. n : lineage[c][k] \in confirmed
  BY <1>1, <1>3, LineFacts, SeqMonotonic
<1>7. /\ lineage'[c] \in Seq(confirmed')
      /\ Len(lineage'[c]) = n + 1
      /\ \A k \in 1 .. n : lineage'[c][k] = lineage[c][k]
      /\ lineage'[c][n + 1] = tx
      /\ lineage'[c] # <<>>
  BY <1>1, <1>5, <1>6, AppendProperties
<1>8. TypeOK'
  <2>1. \A b \in Identities : lineage[b] \in Seq(confirmed') /\ lineage[b] # <<>>
    BY <1>1, SeqMonotonic DEF LineageInv, TypeOK
  <2>2. \A b \in Identities' : lineage'[b] \in Seq(confirmed') /\ lineage'[b] # <<>>
    BY <1>5, <1>7, <2>1
  <2>3. lineage' \in [Identities' -> Seq(confirmed')]
    <3>1. lineage' = [b \in Identities' |-> lineage'[b]]
      BY <1>4, <1>5 DEF LineageInv, TypeOK
    <3> QED
      BY <2>2, <3>1
  <2>4. /\ Coinbases \subseteq confirmed'
        /\ \A other \in confirmed' \ Coinbases : WellFormed(other)
    BY <1>1 DEF LineageInv, TypeOK
  <2> QED
    BY <2>2, <2>3, <2>4 DEF TypeOK
<1>9. HeadInputs'
  BY <1>1, <1>2 DEF LineageInv, HeadInputs
<1>10. Rooted'
  BY <1>5, <1>6, <1>7 DEF LineageInv, Rooted
<1>11. Linked'
  <2> SUFFICES ASSUME NEW b \in Identities, NEW k \in 2 .. Len(lineage'[b])
               PROVE  /\ SpendsProgram(lineage'[b][k])
                      /\ lineage'[b][k].ins[1] = OutPoint(lineage'[b][k - 1], 0)
                      /\ StateOf(lineage'[b][k]).bridge_id = b
    BY <1>5 DEF Linked
  <2>1. CASE b # c
    BY <1>5, <2>1 DEF LineageInv, Linked
  <2>2. CASE b = c /\ k = n + 1
    <3>1. k - 1 = n /\ n \in 1 .. n
      BY <1>6, <2>2
    <3> QED
      BY <1>3, <1>7, <2>2, <3>1
  <2>3. CASE b = c /\ k # n + 1
    <3>1. k \in 2 .. n /\ k \in 1 .. n /\ k - 1 \in 1 .. n
      BY <1>6, <1>7, <2>3
    <3>2. /\ SpendsProgram(lineage[c][k])
          /\ lineage[c][k].ins[1] = OutPoint(lineage[c][k - 1], 0)
          /\ StateOf(lineage[c][k]).bridge_id = c
      BY <1>3, <3>1 DEF LineageInv, Linked
    <3>3. /\ lineage'[c][k] = lineage[c][k]
          /\ lineage'[c][k - 1] = lineage[c][k - 1]
      BY <1>7, <3>1
    <3> QED
      BY <2>3, <3>2, <3>3
  <2> QED
    BY <2>1, <2>2, <2>3
<1>12. Distinct'
  <2> SUFFICES ASSUME NEW b \in Identities,
                      NEW j \in 1 .. Len(lineage'[b]),
                      NEW k \in 1 .. Len(lineage'[b]),
                      lineage'[b][j] = lineage'[b][k]
               PROVE  j = k
    BY <1>5 DEF Distinct
  <2>1. CASE b # c
    BY <1>5, <2>1 DEF LineageInv, Distinct
  <2>2. CASE b = c
    <3>1. \A m \in 1 .. n : lineage'[c][m] # tx
      BY <1>1, <1>6, <1>7
    <3>2. /\ j \in 1 .. n \/ j = n + 1
          /\ k \in 1 .. n \/ k = n + 1
      BY <1>6, <1>7, <2>2
    <3>3. \A m, o \in 1 .. n : lineage[c][m] = lineage[c][o] => m = o
      BY <1>3 DEF LineageInv, Distinct
    <3> QED
      BY <1>7, <2>2, <3>1, <3>2, <3>3
  <2> QED
    BY <2>1, <2>2
<1>13. Complete'
  <2> SUFFICES ASSUME NEW other \in confirmed'
               PROVE  /\ IsGenesis(other) => TxId(other) \in Identities
                      /\ SpendsProgram(other) =>
                           \E b \in Identities : \E k \in 2 .. Len(lineage'[b]) :
                             lineage'[b][k] = other
    BY <1>5 DEF Complete
  <2>1. CASE other = tx
    <3>1. n + 1 \in 2 .. Len(lineage'[c])
      BY <1>6, <1>7
    <3> QED
      BY <1>2, <1>3, <1>7, <2>1, <3>1
  <2>2. CASE other \in confirmed
    <3>1. IsGenesis(other) => TxId(other) \in Identities
      BY <2>2 DEF LineageInv, Complete
    <3>2. ASSUME SpendsProgram(other)
          PROVE  \E b \in Identities : \E k \in 2 .. Len(lineage'[b]) :
                   lineage'[b][k] = other
      <4> PICK b \in Identities :
            \E k \in 2 .. Len(lineage[b]) : lineage[b][k] = other
        BY <2>2, <3>2 DEF LineageInv, Complete
      <4>1. PICK k \in 2 .. Len(lineage[b]) : lineage[b][k] = other
        OBVIOUS
      <4>2. CASE b # c
        BY <1>5, <4>1, <4>2
      <4>3. CASE b = c
        <5>1. k \in 1 .. n /\ k \in 2 .. Len(lineage'[c])
          BY <1>6, <1>7, <4>1, <4>3
        <5> QED
          BY <1>7, <4>1, <4>3, <5>1
      <4> QED
        BY <4>2, <4>3
    <3> QED
      BY <3>1, <3>2
  <2> QED
    BY <1>1, <2>1, <2>2
<1> QED
  BY <1>8, <1>9, <1>10, <1>11, <1>12, <1>13 DEF LineageInv

\* Any other transaction leaves the lineages alone.
LEMMA OtherKeeps ==
  ASSUME LineageInv, NEW package, Confirm(package),
         ~ IsGenesis(package.tx), ~ SpendsProgram(package.tx)
  PROVE  LineageInv'
<1> DEFINE tx == package.tx
<1>1. /\ WellFormed(tx)
      /\ confirmed' = confirmed \cup {tx}
      /\ lineage' = Extended(lineage, tx)
  BY DEF Confirm, Acceptable
<1>2. lineage' = lineage /\ Identities' = Identities
  BY <1>1, Zenon DEF Extended, Identities
<1>3. TypeOK'
  <2>1. \A b \in Identities : lineage[b] \in Seq(confirmed')
    BY <1>1, SeqMonotonic DEF LineageInv, TypeOK
  <2> QED
    BY <1>1, <1>2, <2>1 DEF LineageInv, TypeOK
<1>4. HeadInputs' /\ Rooted' /\ Linked' /\ Distinct' /\ Complete'
  BY <1>1, <1>2 DEF LineageInv, HeadInputs, Rooted, Linked, Distinct, Complete
<1> QED
  BY <1>3, <1>4 DEF LineageInv

-----------------------------------------------------------------------------
(* Reorganizations                                                         *)

\* Only the last element of a lineage can be disconnected.
LEMMA DisconnectsHead ==
  ASSUME LineageInv, NEW tx \in confirmed, Disconnect(tx),
         IsGenesis(tx) \/ SpendsProgram(tx)
  PROVE  LET b == IdentityOf(tx)
         IN  /\ b \in Identities
             /\ lineage[b][Len(lineage[b])] = tx
             /\ \A k \in 1 .. Len(lineage[b]) - 1 : lineage[b][k] # tx
<1> DEFINE b == IdentityOf(tx)
<1>1. ~ IsSpent(OutPoint(tx, 0), confirmed)
  <2>1. WellFormed(tx)
    BY DEF LineageInv, TypeOK, Disconnect
  <2>2. 1 \in 1 .. Len(tx.outs) /\ 1 - 1 = 0
    BY <2>1 DEF WellFormed
  <2>3. ~ IsSpent(OutPoint(tx, 1 - 1), confirmed)
    BY <2>2 DEF Disconnect
  <2> QED
    BY <2>2, <2>3
<1>2. b \in Identities
  BY InItsLineage
<1>3. PICK k \in 1 .. Len(lineage[b]) : lineage[b][k] = tx
  BY InItsLineage
<1>4. k = Len(lineage[b])
  BY <1>1, <1>2, <1>3, SpentBelowHead
<1>5. ASSUME NEW j \in 1 .. Len(lineage[b]) - 1
      PROVE  lineage[b][j] # tx
  <2>1. j \in 1 .. Len(lineage[b]) /\ j # k
    BY <1>2, <1>4, LineFacts
  <2> QED
    BY <1>2, <1>3, <2>1 DEF LineageInv, Distinct
<1> QED
  BY <1>2, <1>3, <1>4, <1>5

\* What is disconnected is in no other lineage.
LEMMA InNoOtherLineage ==
  ASSUME LineageInv, NEW tx \in confirmed, NEW b \in Identities,
         b # IdentityOf(tx)
  PROVE  \A k \in 1 .. Len(lineage[b]) : lineage[b][k] # tx
BY OfItsIdentity

\* Disconnecting a genesis closes its lineage.
LEMMA CloseKeeps ==
  ASSUME LineageInv, NEW tx \in confirmed, Disconnect(tx), IsGenesis(tx)
  PROVE  LineageInv'
<1> DEFINE closed == TxId(tx)
<1>1. /\ tx \notin Coinbases
      /\ confirmed' = confirmed \ {tx}
      /\ lineage' = Shortened(lineage, tx)
  BY DEF Disconnect
<1>2. ~ SpendsProgram(tx)
  BY GenesisOpens
<1>3. IdentityOf(tx) = closed
  BY DEF IdentityOf
<1>4. closed \in Identities
  BY <1>3, DisconnectsHead
<1>5. lineage' = [b \in Identities \ {closed} |-> lineage[b]]
  BY <1>1, <1>2, Zenon DEF Shortened, Identities
<1>6. /\ Identities' = Identities \ {closed}
      /\ \A b \in Identities' : lineage'[b] = lineage[b]
  BY <1>5 DEF Identities
<1>7. \A b \in Identities' :
        /\ lineage[b] # <<>>
        /\ lineage[b] \in Seq(confirmed')
  <2> SUFFICES ASSUME NEW b \in Identities'
               PROVE  lineage[b] # <<>> /\ lineage[b] \in Seq(confirmed')
    OBVIOUS
  <2>1. b \in Identities /\ b # IdentityOf(tx)
    BY <1>3, <1>6
  <2>2. \A k \in 1 .. Len(lineage[b]) : lineage[b][k] \in confirmed'
    BY <1>1, <2>1, LineFacts, InNoOtherLineage
  <2>3. SubSeq(lineage[b], 1, Len(lineage[b])) \in Seq(confirmed')
    BY <2>1, <2>2, LineFacts, SubSeqProperties
  <2> QED
    BY <2>1, <2>3, LineFacts, SubSeqFull DEF LineageInv, TypeOK
<1>8. TypeOK'
  <2>1. lineage' \in [Identities' -> Seq(confirmed')]
    BY <1>5, <1>6, <1>7
  <2> QED
    BY <1>1, <1>6, <1>7, <2>1 DEF LineageInv, TypeOK
<1>9. HeadInputs'
  BY <1>1 DEF LineageInv, HeadInputs
<1>10. Rooted' /\ Linked' /\ Distinct'
  BY <1>6 DEF LineageInv, Rooted, Linked, Distinct
<1>11. Complete'
  <2> SUFFICES ASSUME NEW other \in confirmed'
               PROVE  /\ IsGenesis(other) => TxId(other) \in Identities'
                      /\ SpendsProgram(other) =>
                           \E b \in Identities' : \E k \in 2 .. Len(lineage'[b]) :
                             lineage'[b][k] = other
    BY DEF Complete
  <2>1. other \in confirmed /\ other # tx
    BY <1>1
  <2>2. IsGenesis(other) => TxId(other) \in Identities'
    BY <1>6, <2>1, TxIdInjective DEF LineageInv, Complete
  <2>3. ASSUME SpendsProgram(other)
        PROVE  \E b \in Identities' : \E k \in 2 .. Len(lineage'[b]) :
                 lineage'[b][k] = other
    <3> PICK b \in Identities :
          \E k \in 2 .. Len(lineage[b]) : lineage[b][k] = other
      BY <2>1, <2>3 DEF LineageInv, Complete
    <3>1. PICK k \in 2 .. Len(lineage[b]) : lineage[b][k] = other
      OBVIOUS
    <3>2. ASSUME b = closed PROVE FALSE
      <4>1. lineage[b][Len(lineage[b])] = tx /\ IsGenesis(tx)
        BY <1>3, <3>2, DisconnectsHead
      <4>2. Len(lineage[b]) \in 1 .. Len(lineage[b])
        BY LineFacts
      <4>3. Len(lineage[b]) = 1
        BY <4>1, <4>2, OfItsIdentity
      <4> QED
        BY <3>1, <4>3
    <3> QED
      BY <1>6, <3>1, <3>2
  <2> QED
    BY <2>2, <2>3
<1> QED
  BY <1>8, <1>9, <1>10, <1>11 DEF LineageInv

\* All but the last of a sequence of two or more elements.
LEMMA PrefixProperties ==
  ASSUME NEW S, NEW s, NEW n \in Nat \ {0}, n # 1,
         \A k \in 1 .. n - 1 : s[k] \in S
  PROVE  /\ SubSeq(s, 1, n - 1) \in Seq(S)
         /\ Len(SubSeq(s, 1, n - 1)) = n - 1
         /\ \A k \in 1 .. n - 1 : SubSeq(s, 1, n - 1)[k] = s[k]
         /\ SubSeq(s, 1, n - 1) # <<>>
<1> DEFINE m == n - 1
           t == SubSeq(s, 1, m)
<1>1. m \in Int /\ 1 <= m
  OBVIOUS
<1> HIDE DEF m
<1>2. /\ t \in Seq(S)
      /\ Len(t) = IF 1 <= m THEN m - 1 + 1 ELSE 0
      /\ \A k \in 1 .. m - 1 + 1 : t[k] = s[1 + k - 1]
  BY <1>1, SubSeqProperties DEF m
<1>3. m - 1 + 1 = m
  BY <1>1
<1>4. Len(t) = m
  BY <1>1, <1>2, <1>3
<1>5. \A k \in 1 .. m : t[k] = s[k]
  BY <1>2, <1>3
<1>6. t # <<>>
  <2> HIDE DEF t
  <2> QED
    BY <1>1, <1>4, EmptySeq
<1> QED
  BY <1>2, <1>4, <1>5, <1>6 DEF m

\* Disconnecting a transition takes its lineage one head back.
LEMMA RetreatKeeps ==
  ASSUME LineageInv, NEW tx \in confirmed, Disconnect(tx), SpendsProgram(tx)
  PROVE  LineageInv'
<1> DEFINE c == StateOf(tx).bridge_id
           n == Len(lineage[c])
<1>1. /\ tx \notin Coinbases
      /\ confirmed' = confirmed \ {tx}
      /\ lineage' = Shortened(lineage, tx)
  BY DEF Disconnect
<1>2. ~ IsGenesis(tx) /\ IdentityOf(tx) = c
  BY GenesisOpens DEF IdentityOf
<1>3. /\ c \in Identities
      /\ lineage[c][n] = tx
      /\ \A k \in 1 .. n - 1 : lineage[c][k] # tx
  BY <1>2, DisconnectsHead
<1>4. n \in Nat \ {0} /\ n # 1
  <2>1. n \in Nat \ {0} /\ n \in 1 .. n
    BY <1>3, LineFacts
  <2> QED
    BY <1>2, <1>3, <2>1, OfItsIdentity
<1>5. lineage' = [lineage EXCEPT ![c] = SubSeq(lineage[c], 1, n - 1)]
  BY <1>1, <1>2, Zenon DEF Shortened
<1>6. /\ Identities' = Identities
      /\ lineage'[c] = SubSeq(lineage[c], 1, n - 1)
      /\ \A b \in Identities : b # c => lineage'[b] = lineage[b]
  BY <1>3, <1>5 DEF Identities
<1>7. \A k \in 1 .. n - 1 : lineage[c][k] \in confirmed'
  <2>1. \A k \in 1 .. n - 1 : k \in 1 .. n
    BY <1>4
  <2> QED
    BY <1>1, <1>3, <2>1, LineFacts
<1>8. /\ lineage'[c] \in Seq(confirmed')
      /\ Len(lineage'[c]) = n - 1
      /\ \A k \in 1 .. n - 1 : lineage'[c][k] = lineage[c][k]
      /\ lineage'[c] # <<>>
  <2> DEFINE line == lineage[c]
             S == confirmed'
             t == SubSeq(line, 1, n - 1)
  <2>1. /\ t \in Seq(S)
        /\ Len(t) = n - 1
        /\ \A k \in 1 .. n - 1 : t[k] = line[k]
        /\ t # <<>>
    <3>1. \A k \in 1 .. n - 1 : line[k] \in S
      BY <1>7
    <3> HIDE DEF n, line, S
    <3> QED
      BY <1>4, <3>1, PrefixProperties
  <2>2. lineage'[c] = t
    BY <1>6
  <2> HIDE DEF t
  <2> QED
    BY <2>1, <2>2
<1>9. \A b \in Identities : b # c =>
        /\ lineage[b] # <<>>
        /\ lineage[b] \in Seq(confirmed')
  <2> SUFFICES ASSUME NEW b \in Identities, b # c
               PROVE  lineage[b] # <<>> /\ lineage[b] \in Seq(confirmed')
    OBVIOUS
  <2>1. \A k \in 1 .. Len(lineage[b]) : lineage[b][k] \in confirmed'
    BY <1>1, <1>2, LineFacts, InNoOtherLineage
  <2>2. SubSeq(lineage[b], 1, Len(lineage[b])) \in Seq(confirmed')
    BY <2>1, LineFacts, SubSeqProperties
  <2> QED
    BY <2>2, LineFacts, SubSeqFull DEF LineageInv, TypeOK
<1>10. TypeOK'
  <2>1. \A b \in Identities' : lineage'[b] \in Seq(confirmed') /\ lineage'[b] # <<>>
    BY <1>6, <1>8, <1>9
  <2>2. lineage' \in [Identities' -> Seq(confirmed')]
    <3>1. lineage' = [b \in Identities' |-> lineage'[b]]
      BY <1>5, <1>6 DEF LineageInv, TypeOK
    <3> QED
      BY <2>1, <3>1
  <2>3. /\ Coinbases \subseteq confirmed'
        /\ \A other \in confirmed' \ Coinbases : WellFormed(other)
    BY <1>1 DEF LineageInv, TypeOK
  <2> QED
    BY <2>1, <2>2, <2>3 DEF TypeOK
<1>11. HeadInputs'
  BY <1>1 DEF LineageInv, HeadInputs
<1>12. Rooted'
  <2>1. lineage'[c][1] = lineage[c][1]
    BY <1>4, <1>8
  <2> QED
    BY <1>6, <2>1 DEF LineageInv, Rooted
<1>13. Linked'
  <2> SUFFICES ASSUME NEW b \in Identities, NEW k \in 2 .. Len(lineage'[b])
               PROVE  /\ SpendsProgram(lineage'[b][k])
                      /\ lineage'[b][k].ins[1] = OutPoint(lineage'[b][k - 1], 0)
                      /\ StateOf(lineage'[b][k]).bridge_id = b
    BY <1>6 DEF Linked
  <2>1. CASE b # c
    BY <1>6, <2>1 DEF LineageInv, Linked
  <2>2. CASE b = c
    <3>1. k \in 2 .. n /\ k \in 1 .. n - 1 /\ k - 1 \in 1 .. n - 1
      BY <1>4, <1>8, <2>2
    <3>2. /\ SpendsProgram(lineage[c][k])
          /\ lineage[c][k].ins[1] = OutPoint(lineage[c][k - 1], 0)
          /\ StateOf(lineage[c][k]).bridge_id = c
      BY <1>3, <3>1 DEF LineageInv, Linked
    <3>3. /\ lineage'[c][k] = lineage[c][k]
          /\ lineage'[c][k - 1] = lineage[c][k - 1]
      BY <1>8, <3>1
    <3> QED
      BY <2>2, <3>2, <3>3
  <2> QED
    BY <2>1, <2>2
<1>14. Distinct'
  <2> SUFFICES ASSUME NEW b \in Identities,
                      NEW j \in 1 .. Len(lineage'[b]),
                      NEW k \in 1 .. Len(lineage'[b]),
                      lineage'[b][j] = lineage'[b][k]
               PROVE  j = k
    BY <1>6 DEF Distinct
  <2>1. CASE b # c
    BY <1>6, <2>1 DEF LineageInv, Distinct
  <2>2. CASE b = c
    <3>1. /\ j \in 1 .. n - 1 /\ j \in 1 .. n
          /\ k \in 1 .. n - 1 /\ k \in 1 .. n
      BY <1>4, <1>8, <2>2
    <3>2. lineage[c][j] = lineage[c][k]
      BY <1>8, <2>2, <3>1
    <3> QED
      BY <1>3, <3>1, <3>2 DEF LineageInv, Distinct
  <2> QED
    BY <2>1, <2>2
<1>15. Complete'
  <2> SUFFICES ASSUME NEW other \in confirmed'
               PROVE  /\ IsGenesis(other) => TxId(other) \in Identities
                      /\ SpendsProgram(other) =>
                           \E b \in Identities : \E k \in 2 .. Len(lineage'[b]) :
                             lineage'[b][k] = other
    BY <1>6 DEF Complete
  <2>1. other \in confirmed /\ other # tx
    BY <1>1
  <2>2. ASSUME SpendsProgram(other)
        PROVE  \E b \in Identities : \E k \in 2 .. Len(lineage'[b]) :
                 lineage'[b][k] = other
    <3> PICK b \in Identities :
          \E k \in 2 .. Len(lineage[b]) : lineage[b][k] = other
      BY <2>1, <2>2 DEF LineageInv, Complete
    <3>1. PICK k \in 2 .. Len(lineage[b]) : lineage[b][k] = other
      OBVIOUS
    <3>2. CASE b # c
      BY <1>6, <3>1, <3>2
    <3>3. CASE b = c
      <4>1. k # n
        BY <1>3, <2>1, <3>1, <3>3
      <4>2. k \in 1 .. n - 1 /\ k \in 2 .. Len(lineage'[c])
        BY <1>4, <1>8, <3>1, <3>3, <4>1
      <4>3. lineage'[c][k] = other
        BY <1>8, <3>1, <3>3, <4>2
      <4> QED
        BY <1>3, <4>2, <4>3
    <3> QED
      BY <3>2, <3>3
  <2> QED
    BY <2>1, <2>2 DEF LineageInv, Complete
<1> QED
  BY <1>10, <1>11, <1>12, <1>13, <1>14, <1>15 DEF LineageInv

\* Disconnecting anything else leaves the lineages alone.
LEMMA DropKeeps ==
  ASSUME LineageInv, NEW tx \in confirmed, Disconnect(tx),
         ~ IsGenesis(tx), ~ SpendsProgram(tx)
  PROVE  LineageInv'
<1>1. /\ tx \notin Coinbases
      /\ confirmed' = confirmed \ {tx}
      /\ lineage' = Shortened(lineage, tx)
  BY DEF Disconnect
<1>2. lineage' = lineage /\ Identities' = Identities
  BY <1>1, Zenon DEF Shortened, Identities
<1>3. \A b \in Identities : lineage[b] \in Seq(confirmed')
  <2> SUFFICES ASSUME NEW b \in Identities
               PROVE  lineage[b] \in Seq(confirmed')
    OBVIOUS
  <2>1. \A k \in 1 .. Len(lineage[b]) : lineage[b][k] \in confirmed'
    BY <1>1, LineFacts, OfItsIdentity
  <2>2. SubSeq(lineage[b], 1, Len(lineage[b])) \in Seq(confirmed')
    BY <2>1, LineFacts, SubSeqProperties
  <2> QED
    BY <2>2, LineFacts, SubSeqFull
<1>4. TypeOK'
  BY <1>1, <1>2, <1>3 DEF LineageInv, TypeOK
<1>5. HeadInputs' /\ Rooted' /\ Linked' /\ Distinct' /\ Complete'
  BY <1>1, <1>2 DEF LineageInv, HeadInputs, Rooted, Linked, Distinct, Complete
<1> QED
  BY <1>4, <1>5 DEF LineageInv

-----------------------------------------------------------------------------
(* Theorems                                                                *)

\* No transaction is confirmed at the start.
LEMMA LineageInvInit ==
  ASSUME Init
  PROVE  LineageInv
<1>1. Identities = {} /\ lineage \in [Identities -> Seq(confirmed)]
  BY DEF Init, Identities
<1>2. \A tx \in confirmed : ~ SpendsProgram(tx) /\ ~ IsGenesis(tx)
  BY CoinbaseSpendsNothing
     DEF Init, IsGenesis, OneInputTwoOutputs, HasShape
<1>3. TypeOK
  BY <1>1 DEF Init, TypeOK
<1> QED
  BY <1>1, <1>2, <1>3
     DEF LineageInv, HeadInputs, Rooted, Linked, Distinct, Complete

\* Every action either appends to one lineage, takes its last element away or
\* leaves the heads alone.
LEMMA LineageInvNext ==
  ASSUME LineageInv, [Next]_vars
  PROVE  LineageInv'
<1>1. ASSUME NEW package, Confirm(package)
      PROVE  LineageInv'
  BY <1>1, OpenKeeps, AdvanceKeeps, OtherKeeps
<1>2. ASSUME NEW tx \in confirmed, Disconnect(tx)
      PROVE  LineageInv'
  BY <1>2, CloseKeeps, RetreatKeeps, DropKeeps
<1>3. CASE UNCHANGED <<confirmed, lineage>>
  <2>1. Identities' = Identities
    BY <1>3 DEF Identities
  <2>2. TypeOK'
    BY <1>3, <2>1 DEF LineageInv, TypeOK
  <2>3. HeadInputs' /\ Complete'
    BY <1>3, <2>1 DEF LineageInv, HeadInputs, Complete
  <2>4. Rooted' /\ Linked'
    BY <1>3, <2>1 DEF LineageInv, Rooted, Linked
  <2>5. Distinct'
    BY <1>3, <2>1 DEF LineageInv, Distinct
  <2> QED
    BY <2>2, <2>3, <2>4, <2>5 DEF LineageInv
<1>4. CASE Pay \/ Collect \/ Settle \/ Refund
  BY <1>1, <1>4 DEF Pay, Collect, Settle, Refund
<1>5. CASE \E b \in Identities, terms \in Terms : SignSettlement(b, terms)
  BY <1>3, <1>5 DEF SignSettlement
<1>6. CASE \E outpoint \in Unspent(confirmed) : SignRefund(outpoint)
  BY <1>3, <1>6 DEF SignRefund
<1>7. CASE \E tx \in confirmed : Disconnect(tx)
  BY <1>2, <1>7
<1>8. CASE UNCHANGED vars
  BY <1>3, <1>8 DEF vars
<1> QED
  BY <1>4, <1>5, <1>6, <1>7, <1>8 DEF Next

\* Theorem: the lineage invariant holds in every reachable chain.
THEOREM Lineages == Spec => []LineageInv
BY LineageInvInit, LineageInvNext, PTL DEF Spec

\* Theorem: confirmed transactions are well formed, coinbases stay, and a
\* lineage is always a non-empty sequence of confirmed transactions.
THEOREM TypeCorrect == Spec => []TypeOK
<1>1. LineageInv => TypeOK
  BY DEF LineageInv
<1> QED
  BY <1>1, Lineages, PTL

\* Theorem: every transaction that spends the program descends from the
\* genesis its caboose names through output 0 of each transaction, so a
\* copied program and caboose never advances.
THEOREM Authentic == Spec => []LineagesAuthentic
<1>1. LineageInv => LineagesAuthentic
  BY InvAuthentic
<1> QED
  BY <1>1, Lineages, PTL

\* Theorem: exactly the last transaction of a lineage is an unspent head,
\* through any interleaving of transitions and reorganizations.
THEOREM UniqueHead == Spec => []OneHead
<1>1. LineageInv => OneHead
  BY InvOneHead
<1> QED
  BY <1>1, Lineages, PTL

-----------------------------------------------------------------------------
(* The counters along a lineage                                            *)

\* The accounts that sign requests.
Signing == {TransferSenderId, WithdrawalAccountId}

\* The nonce of a signing account, and the balance of the fee account.
CountOf(tx, id) ==
  IF id = FeeAccountId THEN AccountsOf(tx)[id].balance ELSE AccountsOf(tx)[id].nonce

\* One transaction against its parent.
CountsUp ==
  \A tx \in confirmed :
    SpendsProgram(tx) =>
      \A id \in AccountId :
        /\ CountOf(tx, id) \in Nat /\ CountOf(ParentOf(tx), id) \in Nat
        /\ CountOf(ParentOf(tx), id) <= CountOf(tx, id)
        /\ IsSettlement(tx) /\ id \in Signing =>
             CountOf(ParentOf(tx), id) < CountOf(tx, id)

\* Any two heads of a lineage.
CountsGrow ==
  \A b \in Identities : \A j, k \in 1 .. Len(lineage[b]) :
    j < k => \A id \in AccountId :
               CountOf(lineage[b][j], id) <= CountOf(lineage[b][k], id)

NonceInv == LineageInv /\ CountsUp /\ CountsGrow

-----------------------------------------------------------------------------
(* One transition                                                          *)

\* One accepted transition lowers no counter, and a settlement raises both
\* nonces.
LEMMA TransitionCounts ==
  ASSUME NEW package, NEW chain, Acceptable(package, chain),
         SpendsProgram(package.tx), NEW id \in AccountId
  PROVE  LET tx == package.tx
         IN  /\ CountOf(tx, id) \in Nat /\ CountOf(ParentOf(tx), id) \in Nat
             /\ CountOf(ParentOf(tx), id) <= CountOf(tx, id)
             /\ IsSettlement(tx) /\ id \in Signing =>
                  CountOf(ParentOf(tx), id) < CountOf(tx, id)
<1> DEFINE tx == package.tx
           w == package.wit[1]
           proof == w.proof
           old == AccountsOf(ParentOf(tx))
           new == AccountsOf(tx)
<1>1. /\ Accepts(proof)
      /\ proof.old_state = old
      /\ new = IF proof.action = "collect" THEN CollectedState(proof)
                                           ELSE SettledState(proof)
      /\ \/ CollectionLeaf(tx, 1, w) /\ proof.action = "collect"
         \/ SettlementLeaf(tx, 1, w) /\ proof.action = "transfer_withdraw"
  BY ProofFromParent
<1>2. HasWidths(proof) /\ old \in AccountState(ValidKey)
  BY <1>1 DEF Accepts, HasWidths
<1>3. id \in {0, 1, 2} /\ FeeAccountId = 2 /\ Signing = {0, 1}
  BY DEF Signing, AccountId, TransferSenderId, WithdrawalAccountId, FeeAccountId
<1>4. old[id].nonce \in Nat /\ old[id].balance \in Nat
  BY <1>2, CoinsAssumption DEF AccountState, Nonce, Amount
<1>5. CASE proof.action = "collect" /\ CollectionLeaf(tx, 1, w)
  <2> DEFINE held(k) == IF proof.deposits[k].recipient_id = id
                        THEN proof.deposits[k].value ELSE 0
  <2>1. CollectionAccepted(proof)
    BY <1>1, <1>5 DEF Accepts
  <2>2. new[id] = Moved(old[id], held(1) + held(2), 0)
    BY <1>1, <1>2, <1>5, <2>1, CollectionMoves
  <2>3. held(1) \in Nat /\ held(2) \in Nat
    BY <1>2, <1>5, CoinsAssumption DEF HasWidths, Amount
  <2>4. /\ new[id].nonce = old[id].nonce
        /\ new[id].balance = old[id].balance + (held(1) + held(2))
    BY <1>4, <2>2 DEF Moved
  <2>5. ~ IsSettlement(tx)
    BY <1>5 DEF CollectionLeaf, Context, Running, IsSettlement
  <2> HIDE DEF held
  <2> QED
    BY <1>4, <2>3, <2>4, <2>5 DEF CountOf
<1>6. CASE proof.action = "transfer_withdraw"
  <2>1. SettlementAccepted(proof)
    BY <1>1, <1>6 DEF Accepts
  <2>2. /\ new[0].nonce = old[0].nonce + 1
        /\ new[1].nonce = old[1].nonce + 1
        /\ new[2] = Moved(old[2], proof.transfer.fee, 0)
    BY <1>1, <1>2, <1>6, <2>1, SettlementMoves, SettlementPays
  <2>3. proof.transfer.fee \in Nat
    BY <1>2, <1>6, CoinsAssumption DEF HasWidths, Amount
  <2>4. CASE id = 2
    <3>1. new[2].balance = old[2].balance + proof.transfer.fee
      BY <2>2 DEF Moved
    <3> QED
      BY <1>3, <1>4, <2>3, <2>4, <3>1 DEF CountOf
  <2>5. CASE id # 2
    <3>1. new[id].nonce = old[id].nonce + 1
      BY <1>3, <2>2, <2>5
    <3> QED
      BY <1>3, <1>4, <2>5, <3>1 DEF CountOf
  <2> QED
    BY <2>4, <2>5
<1> QED
  BY <1>1, <1>5, <1>6

\* A confirmed transaction's parent is part of it, so only a new one counts.
LEMMA CountsUpKept ==
  ASSUME CountsUp, [Next]_vars
  PROVE  CountsUp'
<1>1. ASSUME NEW package, Confirm(package)
      PROVE  CountsUp'
  BY <1>1, TransitionCounts DEF Confirm, CountsUp
<1>2. CASE confirmed' \subseteq confirmed
  BY <1>2 DEF CountsUp
<1> QED
  BY <1>1, <1>2, StepConfirms

-----------------------------------------------------------------------------
(* A lineage after a step                                                  *)

\* A prefix of a lineage stays, but for one head that is new.
LineStep(b, k) ==
  \/ k = 1
  \/ /\ b \in Identities
     /\ k - 1 \in 1 .. Len(lineage[b])
     /\ \A j \in 1 .. k - 1 : lineage'[b][j] = lineage[b][j]

\* After a step each place of a lineage holds what it held, or a transition of
\* what was last.
LEMMA StepsByOne ==
  ASSUME LineageInv, [Next]_vars,
         NEW b \in Identities', NEW k \in 1 .. Len(lineage'[b])
  PROVE  LineStep(b, k)
<1>1. CASE b \in Identities /\ lineage'[b] = lineage[b]
  <2>1. Len(lineage[b]) \in Nat
    BY <1>1, LineFacts
  <2> QED
    BY <1>1, <2>1 DEF LineStep
<1>2. ASSUME NEW package, Confirm(package), lineage' # lineage
      PROVE  LineStep(b, k)
  <2> DEFINE tx == package.tx
             c == StateOf(tx).bridge_id
  <2>1. lineage' = Extended(lineage, tx)
    BY <1>2 DEF Confirm
  <2>2. CASE IsGenesis(tx)
    <3>1. ~ SpendsProgram(tx)
      BY <2>2, GenesisOpens
    <3>2. lineage' = [d \in Identities \cup {TxId(tx)} |->
                        IF d = TxId(tx) THEN <<tx>> ELSE lineage[d]]
      BY <2>1, <2>2, <3>1, Zenon DEF Extended, Identities
    <3>3. CASE b = TxId(tx)
      <4>1. lineage'[b] = <<tx>>
        BY <3>2, <3>3
      <4>2. k = 1
        BY <4>1
      <4> QED
        BY <4>2 DEF LineStep
    <3>4. CASE b # TxId(tx)
      BY <1>1, <3>2, <3>4 DEF Identities
    <3> QED
      BY <3>3, <3>4
  <2>3. CASE SpendsProgram(tx) /\ ~ IsGenesis(tx)
    <3>1. c \in Identities
      BY <1>2, <2>3, AdvancesHead
    <3>2. lineage' = [lineage EXCEPT ![c] = Append(lineage[c], tx)]
      BY <2>1, <2>3, Zenon DEF Extended
    <3>3. CASE b = c
      <4> DEFINE n == Len(lineage[c])
      <4>1. lineage[c] \in Seq(confirmed \cup {tx}) /\ n \in Nat \ {0}
        BY <3>1, LineFacts, SeqMonotonic
      <4>2. lineage'[c] = Append(lineage[c], tx)
        BY <3>1, <3>2 DEF Identities
      <4>3. /\ Len(lineage'[c]) = n + 1
            /\ \A j \in 1 .. n : lineage'[c][j] = lineage[c][j]
        BY <4>1, <4>2, AppendProperties
      <4> QED
        BY <3>1, <3>3, <4>1, <4>3 DEF LineStep
    <3>4. CASE b # c
      BY <1>1, <3>2, <3>4 DEF Identities
    <3> QED
      BY <3>3, <3>4
  <2>4. CASE ~ SpendsProgram(tx) /\ ~ IsGenesis(tx)
    BY <1>2, <2>1, <2>4, Zenon DEF Extended
  <2> QED
    BY <2>2, <2>3, <2>4
<1>3. ASSUME NEW tx \in confirmed, Disconnect(tx), lineage' # lineage
      PROVE  LineStep(b, k)
  <2> DEFINE c == StateOf(tx).bridge_id
  <2>1. lineage' = Shortened(lineage, tx)
    BY <1>3 DEF Disconnect
  <2>2. CASE IsGenesis(tx)
    <3>1. ~ SpendsProgram(tx)
      BY <2>2, GenesisOpens
    <3>2. lineage' = [d \in Identities \ {TxId(tx)} |-> lineage[d]]
      BY <2>1, <2>2, <3>1, Zenon DEF Shortened, Identities
    <3> QED
      BY <1>1, <3>2 DEF Identities
  <2>3. CASE SpendsProgram(tx) /\ ~ IsGenesis(tx)
    <3>1. IdentityOf(tx) = c
      BY <2>3 DEF IdentityOf
    <3>2. c \in Identities
      BY <2>3, <3>1, InItsLineage
    <3>3. lineage' =
            [lineage EXCEPT ![c] = SubSeq(lineage[c], 1, Len(lineage[c]) - 1)]
      BY <2>1, <2>3, Zenon DEF Shortened
    <3>4. CASE b = c
      <4> DEFINE line == lineage[c]
                 n == Len(line)
                 t == SubSeq(line, 1, n - 1)
      <4>1. /\ n \in Nat \ {0}
            /\ \A j \in 1 .. n : line[j] \in confirmed
            /\ lineage'[c] = t
        BY <3>2, <3>3, LineFacts DEF Identities
      <4>2. CASE n = 1
        <5>1. lineage'[c] = <<>>
          BY <4>1, <4>2, SubSeqEmpty
        <5> QED
          BY <3>4, <5>1
      <4>3. CASE n # 1
        <5>1. \A j \in 1 .. n - 1 : line[j] \in confirmed
          BY <4>1
        <5>2. Len(t) = n - 1 /\ \A j \in 1 .. n - 1 : t[j] = line[j]
          <6> HIDE DEF n, line
          <6> QED
            BY <4>1, <4>3, <5>1, PrefixProperties
        <5> QED
          BY <3>2, <3>4, <4>1, <5>2 DEF LineStep
      <4> QED
        BY <4>2, <4>3
    <3>5. CASE b # c
      BY <1>1, <3>3, <3>5 DEF Identities
    <3> QED
      BY <3>4, <3>5
  <2>4. CASE ~ SpendsProgram(tx) /\ ~ IsGenesis(tx)
    BY <1>3, <2>1, <2>4, Zenon DEF Shortened
  <2> QED
    BY <2>2, <2>3, <2>4
<1>4. CASE lineage' = lineage
  BY <1>1, <1>4 DEF Identities
<1>5. CASE Pay \/ Collect \/ Settle \/ Refund
  BY <1>2, <1>4, <1>5 DEF Pay, Collect, Settle, Refund
<1>6. CASE \E d \in Identities, terms \in Terms : SignSettlement(d, terms)
  BY <1>4, <1>6 DEF SignSettlement
<1>7. CASE \E outpoint \in Unspent(confirmed) : SignRefund(outpoint)
  BY <1>4, <1>7 DEF SignRefund
<1>8. CASE \E tx \in confirmed : Disconnect(tx)
  BY <1>3, <1>4, <1>8
<1>9. CASE UNCHANGED vars
  BY <1>4, <1>9 DEF vars
<1> QED
  BY <1>5, <1>6, <1>7, <1>8, <1>9 DEF Next

\* Each head's parent is the head before it.
LEMMA PreviousHead ==
  ASSUME LineageInv, NEW b \in Identities, NEW k \in 2 .. Len(lineage[b])
  PROVE  /\ ParentOf(lineage[b][k]) = lineage[b][k - 1]
         /\ SpendsProgram(lineage[b][k])
         /\ lineage[b][k] \in confirmed
<1>1. /\ SpendsProgram(lineage[b][k])
      /\ lineage[b][k].ins[1] = OutPoint(lineage[b][k - 1], 0)
  BY DEF LineageInv, Linked
<1>2. k \in 1 .. Len(lineage[b])
  BY LineFacts
<1> QED
  BY <1>1, <1>2, LineFacts DEF ParentOf, OutPoint, TxId

\* The order between any two heads, from the order of neighbours.
LEMMA GrowKept ==
  ASSUME NonceInv, LineageInv', CountsUp', [Next]_vars
  PROVE  CountsGrow'
<1> SUFFICES ASSUME NEW b \in Identities',
                    NEW j \in 1 .. Len(lineage'[b]),
                    NEW k \in 1 .. Len(lineage'[b]),
                    j < k, NEW id \in AccountId
             PROVE  CountOf(lineage'[b][j], id) <= CountOf(lineage'[b][k], id)
  BY DEF CountsGrow
<1> DEFINE new == lineage'[b]
<1>1. k \in 2 .. Len(new) /\ j \in 1 .. k - 1
  OBVIOUS
<1>2. /\ ParentOf(new[k]) = new[k - 1]
      /\ SpendsProgram(new[k])
      /\ new[k] \in confirmed'
  <2>1. /\ SpendsProgram(new[k])
        /\ new[k].ins[1] = OutPoint(new[k - 1], 0)
    BY <1>1 DEF LineageInv, Linked
  <2>2. new \in Seq(confirmed')
    BY DEF LineageInv, TypeOK
  <2>3. new[k] \in confirmed'
    BY <2>2
  <2> QED
    BY <2>1, <2>3 DEF ParentOf, OutPoint, TxId
<1>3. /\ CountOf(new[k], id) \in Nat /\ CountOf(new[k - 1], id) \in Nat
      /\ CountOf(new[k - 1], id) <= CountOf(new[k], id)
  BY <1>2 DEF CountsUp
<1>4. CASE j = k - 1
  BY <1>3, <1>4
<1>5. CASE j # k - 1
  <2>1. /\ b \in Identities
        /\ k - 1 \in 1 .. Len(lineage[b])
        /\ \A m \in 1 .. k - 1 : new[m] = lineage[b][m]
    BY <1>1, StepsByOne DEF NonceInv, LineStep
  <2>2. Len(lineage[b]) \in Nat
    BY <2>1, LineFacts DEF NonceInv
  <2>3. j \in 1 .. Len(lineage[b]) /\ j < k - 1 /\ k - 1 \in 1 .. k - 1
    BY <1>1, <1>5, <2>1, <2>2
  <2>4. CountOf(lineage[b][j], id) <= CountOf(lineage[b][k - 1], id)
    BY <2>1, <2>3 DEF NonceInv, CountsGrow
  <2>5. new[j] = lineage[b][j] /\ new[k - 1] = lineage[b][k - 1]
    BY <1>1, <2>1, <2>3
  <2>6. j + 1 \in 2 .. Len(lineage[b]) /\ (j + 1) - 1 = j
    BY <2>1, <2>2, <2>3
  <2>7. CountOf(lineage[b][j], id) \in Nat
    <3>1. /\ ParentOf(lineage[b][j + 1]) = lineage[b][j]
          /\ SpendsProgram(lineage[b][j + 1])
          /\ lineage[b][j + 1] \in confirmed
      BY <2>1, <2>6, PreviousHead DEF NonceInv
    <3> QED
      BY <3>1 DEF NonceInv, CountsUp
  <2> QED
    BY <1>3, <2>4, <2>5, <2>7
<1> QED
  BY <1>4, <1>5

-----------------------------------------------------------------------------
(* Theorem                                                                 *)

\* Two settlements with one nonce would be at one place of a lineage.
LEMMA InvSettleOnce ==
  ASSUME NonceInv
  PROVE  RequestsSettleOnce
<1> SUFFICES ASSUME NEW b \in Identities,
                    NEW j \in 2 .. Len(lineage[b]),
                    NEW k \in 2 .. Len(lineage[b]),
                    j < k, IsSettlement(lineage[b][j]),
                    NEW id \in Signing
             PROVE  AccountsOf(lineage[b][j - 1])[id].nonce
                      < AccountsOf(lineage[b][k - 1])[id].nonce
  BY DEF RequestsSettleOnce, Signing
<1>0. /\ id \in AccountId /\ id # FeeAccountId
      /\ \A tx : CountOf(tx, id) = AccountsOf(tx)[id].nonce
  BY DEF Signing, AccountId, TransferSenderId, WithdrawalAccountId,
         FeeAccountId, CountOf
<1> USE DEF NonceInv
<1>1. /\ ParentOf(lineage[b][j]) = lineage[b][j - 1]
      /\ SpendsProgram(lineage[b][j])
      /\ lineage[b][j] \in confirmed
      /\ ParentOf(lineage[b][k]) = lineage[b][k - 1]
      /\ SpendsProgram(lineage[b][k])
      /\ lineage[b][k] \in confirmed
  BY PreviousHead
<1>2. /\ CountOf(lineage[b][j - 1], id) \in Nat
      /\ CountOf(lineage[b][j], id) \in Nat
      /\ CountOf(lineage[b][k - 1], id) \in Nat
      /\ CountOf(lineage[b][j - 1], id) < CountOf(lineage[b][j], id)
  BY <1>0, <1>1 DEF CountsUp
<1>3. CountOf(lineage[b][j], id) <= CountOf(lineage[b][k - 1], id)
  <2>1. CASE j = k - 1
    BY <1>2, <2>1
  <2>2. CASE j # k - 1
    <3>1. /\ j \in 1 .. Len(lineage[b]) /\ k - 1 \in 1 .. Len(lineage[b])
          /\ j < k - 1
      BY <2>2, LineFacts
    <3> QED
      BY <1>0, <3>1 DEF CountsGrow
  <2> QED
    BY <2>1, <2>2
<1> QED
  BY <1>0, <1>2, <1>3

\* The fee account's balance is one of the counters.
LEMMA InvFeesStay ==
  ASSUME NonceInv
  PROVE  FeesStay
<1>1. /\ FeeAccountId \in AccountId
      /\ \A tx : CountOf(tx, FeeAccountId) = AccountsOf(tx)[FeeAccountId].balance
  BY DEF FeeAccountId, AccountId, CountOf
<1> QED
  BY <1>1 DEF NonceInv, CountsGrow, FeesStay

\* There is no lineage at the start.
LEMMA NonceInvInit ==
  ASSUME Init
  PROVE  NonceInv
<1>1. Identities = {}
  BY DEF Init, Identities
<1>2. CountsUp
  BY CoinbaseSpendsNothing DEF Init, CountsUp
<1> QED
  BY <1>1, <1>2, LineageInvInit DEF NonceInv, CountsGrow

\* The counters and the lineages they are read along are kept together.
LEMMA NonceInvNext ==
  ASSUME NonceInv, [Next]_vars
  PROVE  NonceInv'
<1>1. LineageInv'
  BY LineageInvNext DEF NonceInv
<1>2. CountsUp'
  BY CountsUpKept DEF NonceInv
<1>3. CountsGrow'
  BY <1>1, <1>2, GrowKept
<1> QED
  BY <1>1, <1>2, <1>3 DEF NonceInv

\* Theorem: no two settlements of one lineage start from the same nonce of
\* either signing account, so no signed request settles twice.
THEOREM SettleOnce == Spec => []RequestsSettleOnce
<1>1. NonceInv => RequestsSettleOnce
  BY InvSettleOnce
<1> QED
  BY <1>1, NonceInvInit, NonceInvNext, PTL DEF Spec

\* Theorem: along every lineage the balance of account 2 never falls.
THEOREM Fees_Stay == Spec => []FeesStay
<1>1. NonceInv => FeesStay
  BY InvFeesStay
<1> QED
  BY <1>1, NonceInvInit, NonceInvNext, PTL DEF Spec

-----------------------------------------------------------------------------
(* The entries of a line of transactions                                   *)

\* A line of transactions as entries: as many, each of its own transaction.
LEMMA EntriesFacts ==
  ASSUME NEW S, NEW line \in Seq(S)
  PROVE  /\ Entries(line) \in Seq({EntryOf(tx) : tx \in S})
         /\ Len(Entries(line)) = Len(line)
         /\ \A k \in 1 .. Len(line) : Entries(line)[k] = EntryOf(line[k])
<1> DEFINE n == Len(line)
<1>1. n \in Nat /\ \A k \in 1 .. n : line[k] \in S
  BY LenProperties, ElementOfSeq
<1> HIDE DEF n
<1>2. \A k \in 1 .. n : EntryOf(line[k]) \in {EntryOf(tx) : tx \in S}
  BY <1>1
<1>3. [k \in 1 .. n |-> EntryOf(line[k])] \in [1 .. n -> {EntryOf(tx) : tx \in S}]
  BY <1>2
<1>4. Entries(line) = [k \in 1 .. n |-> EntryOf(line[k])]
  BY DEF Entries, n
<1>5. Entries(line) \in Seq({EntryOf(tx) : tx \in S})
  BY <1>1, <1>3, <1>4, SeqDef
<1>6. Len(Entries(line)) = n
  <2>1. DOMAIN Entries(line) = 1 .. n
    BY <1>4
  <2>2. /\ DOMAIN Entries(line) = 1 .. Len(Entries(line))
        /\ Len(Entries(line)) \in Nat
    BY <1>5, LenProperties
  <2> QED
    BY <1>1, <2>1, <2>2
<1> QED
  BY <1>4, <1>5, <1>6 DEF n

\* A line of one transaction, one more at its end, and all but the last.
LEMMA EntriesOne ==
  ASSUME NEW tx
  PROVE  Entries(<<tx>>) = <<EntryOf(tx)>>
<1> DEFINE line == <<tx>>
           S == {tx}
           E == {EntryOf(t) : t \in S}
           e == EntryOf(tx)
<1>1. line \in Seq(S) /\ Len(line) = 1 /\ line[1] = tx
  OBVIOUS
<1>2. /\ Entries(line) \in Seq(E)
      /\ Len(Entries(line)) = 1
      /\ Entries(line)[1] = e
  <2> HIDE DEF line, S
  <2>1. /\ Entries(line) \in Seq(E)
        /\ Len(Entries(line)) = Len(line)
        /\ \A k \in 1 .. Len(line) : Entries(line)[k] = EntryOf(line[k])
    BY <1>1, EntriesFacts
  <2> QED
    BY <1>1, <2>1
<1>3. e \in E
  OBVIOUS
<1>4. <<e>> \in Seq(E) /\ Len(<<e>>) = 1 /\ <<e>>[1] = e
  <2> HIDE DEF E, e
  <2> QED
    BY <1>3
<1> QED
  <2> HIDE DEF E, e
  <2>1. \A i \in 1 .. Len(Entries(line)) : Entries(line)[i] = <<e>>[i]
    BY <1>2, <1>4
  <2>2. Entries(line) = <<e>>
    <3> HIDE DEF line
    <3> QED
      BY <1>2, <1>4, <2>1, SeqEqual
  <2> QED
    BY <2>2 DEF e

\* One more transaction is one more entry.
LEMMA EntriesAppend ==
  ASSUME NEW S, NEW line \in Seq(S), NEW tx
  PROVE  /\ Entries(Append(line, tx)) = Append(Entries(line), EntryOf(tx))
         /\ Len(Append(line, tx)) = Len(line) + 1
         /\ Len(line) + 1 \in 1 .. Len(line) + 1
         /\ Append(line, tx)[Len(line) + 1] = tx
<1> DEFINE T == S \cup {tx}
           E == {EntryOf(t) : t \in T}
           longer == Append(line, tx)
           l == Entries(longer)
           r == Append(Entries(line), EntryOf(tx))
           n == Len(line)
<1>1. line \in Seq(T) /\ n \in Nat
  BY SeqMonotonic, LenProperties
<1>2. /\ longer \in Seq(T)
      /\ Len(longer) = n + 1
      /\ \A i \in 1 .. n : longer[i] = line[i]
      /\ longer[n + 1] = tx
  BY <1>1, AppendProperties
<1>3. /\ Entries(line) \in Seq(E)
      /\ Len(Entries(line)) = n
      /\ \A k \in 1 .. n : Entries(line)[k] = EntryOf(line[k])
  BY <1>1, EntriesFacts
<1>4. EntryOf(tx) \in E
  OBVIOUS
<1>5. /\ l \in Seq(E)
      /\ Len(l) = n + 1
      /\ \A k \in 1 .. n + 1 : l[k] = EntryOf(longer[k])
  <2> HIDE DEF longer
  <2> QED
    BY <1>2, EntriesFacts
<1>6. /\ r \in Seq(E)
      /\ Len(r) = n + 1
      /\ \A i \in 1 .. n : r[i] = Entries(line)[i]
      /\ r[n + 1] = EntryOf(tx)
  <2> HIDE DEF E
  <2> QED
    BY <1>3, <1>4, AppendProperties
<1>7. \A i \in 1 .. Len(l) : l[i] = r[i]
  <2> SUFFICES ASSUME NEW i \in 1 .. n + 1 PROVE l[i] = r[i]
    BY <1>5
  <2>1. CASE i = n + 1
    BY <1>1, <1>2, <1>5, <1>6, <2>1
  <2>2. CASE i # n + 1
    <3>1. i \in 1 .. n
      BY <1>1, <2>2
    <3> QED
      BY <1>2, <1>3, <1>5, <1>6, <3>1
  <2> QED
    BY <2>1, <2>2
<1>8. l = r
  <2> HIDE DEF l, r, E
  <2> QED
    BY <1>5, <1>6, <1>7, SeqEqual
<1> QED
  BY <1>1, <1>2, <1>8

\* Taking the last transaction away takes its entry away.
LEMMA EntriesPrefix ==
  ASSUME NEW S, NEW line \in Seq(S), Len(line) # 1, line # <<>>
  PROVE  Entries(SubSeq(line, 1, Len(line) - 1)) =
           SubSeq(Entries(line), 1, Len(Entries(line)) - 1)
<1> DEFINE E == {EntryOf(t) : t \in S}
           n == Len(line)
           shorter == SubSeq(line, 1, n - 1)
           l == Entries(shorter)
           r == SubSeq(Entries(line), 1, n - 1)
<1>1. /\ n \in Nat \ {0} /\ n # 1
      /\ \A k \in 1 .. n - 1 : line[k] \in S
  BY EmptySeq, ElementOfSeq
<1>2. /\ Entries(line) \in Seq(E)
      /\ Len(Entries(line)) = n
      /\ \A k \in 1 .. n : Entries(line)[k] = EntryOf(line[k])
  BY EntriesFacts
<1> HIDE DEF n
<1>3. /\ shorter \in Seq(S)
      /\ Len(shorter) = n - 1
      /\ \A k \in 1 .. n - 1 : shorter[k] = line[k]
  BY <1>1, PrefixProperties
<1>4. /\ l \in Seq(E)
      /\ Len(l) = n - 1
      /\ \A k \in 1 .. n - 1 : l[k] = EntryOf(shorter[k])
  <2> HIDE DEF shorter
  <2> QED
    BY <1>3, EntriesFacts
<1>5. \A k \in 1 .. n - 1 : Entries(line)[k] \in E
  BY <1>1, <1>2
<1>6. /\ r \in Seq(E)
      /\ Len(r) = n - 1
      /\ \A k \in 1 .. n - 1 : r[k] = Entries(line)[k]
  <2> HIDE DEF E
  <2> QED
    BY <1>1, <1>5, PrefixProperties
<1>7. \A k \in 1 .. Len(l) : l[k] = r[k]
  BY <1>1, <1>2, <1>3, <1>4, <1>6
<1>8. l = r
  <2> HIDE DEF l, r, E
  <2> QED
    BY <1>4, <1>6, <1>7, SeqEqual
<1> QED
  BY <1>2, <1>8 DEF n

-----------------------------------------------------------------------------
(* The books, after the lineages change                                    *)

\* The books are the lineages, and their tops the heads.
LEMMA BookFacts ==
  ASSUME LineageInv, NEW b \in Identities
  PROVE  /\ DOMAIN Book = Identities
         /\ Book[b] = Entries(lineage[b])
         /\ Len(Book[b]) = Len(lineage[b])
         /\ Ledger!Top(b) = EntryOf(HeadOf(b))
<1>1. DOMAIN Book = Identities /\ Book[b] = Entries(lineage[b])
  BY DEF Book
<1>2. /\ lineage[b] \in Seq(confirmed)
      /\ Len(lineage[b]) \in 1 .. Len(lineage[b])
  BY LineFacts
<1>3. /\ Len(Book[b]) = Len(lineage[b])
      /\ Book[b][Len(lineage[b])] = EntryOf(HeadOf(b))
  BY <1>1, <1>2, EntriesFacts DEF HeadOf
<1> QED
  BY <1>1, <1>3 DEF Ledger!Top

\* A genesis opens a book.
LEMMA GenesisOpensBook ==
  ASSUME LineageInv, NEW package, Confirm(package), IsGenesis(package.tx)
  PROVE  /\ TxId(package.tx) \in DOMAIN Book' \ DOMAIN Book
         /\ Ledger!Open(TxId(package.tx))
<1> DEFINE tx == package.tx
           opened == TxId(tx)
<1>1. /\ tx \notin confirmed
      /\ lineage' = Extended(lineage, tx)
      /\ agreed' = agreed
  BY DEF Confirm, Acceptable
<1>2. lineage' = [b \in Identities \cup {opened} |->
                    IF b = opened THEN <<tx>> ELSE lineage[b]]
  <2>1. ~ SpendsProgram(tx)
    BY GenesisOpens
  <2> QED
    BY <1>1, <2>1, Zenon DEF Extended, Identities
<1>3. opened \notin Identities
  <2> SUFFICES ASSUME opened \in Identities PROVE FALSE
    OBVIOUS
  <2>1. lineage[opened][1] = tx
    BY TxIdInjective DEF LineageInv, Rooted
  <2> QED
    BY <1>1, <2>1, LineFacts
<1>4. Identities' = Identities \cup {opened}
  BY <1>2 DEF Identities
<1>5. Book' = [b \in Identities \cup {opened} |->
                 IF b = opened THEN <<EntryOf(tx)>> ELSE Book[b]]
  <2>1. Book' = [b \in Identities' |-> Entries(lineage'[b])]
    BY DEF Book
  <2>2. \A b \in Identities : lineage'[b] = lineage[b]
    BY <1>2, <1>3
  <2>3. lineage'[opened] = <<tx>>
    BY <1>2
  <2>4. \A b \in Identities : Entries(lineage'[b]) = Book[b]
    BY <2>2 DEF Book
  <2>5. Entries(lineage'[opened]) = <<EntryOf(tx)>>
    BY <2>3, EntriesOne
  <2> QED
    BY <1>3, <1>4, <2>1, <2>4, <2>5
<1>6. DOMAIN Book = Identities /\ DOMAIN Book' = Identities \cup {opened}
  BY <1>5 DEF Book
<1>7. Ledger!Top(opened)' = EntryOf(tx)
  <2>1. Book'[opened] = <<EntryOf(tx)>>
    BY <1>5
  <2>2. Len(<<EntryOf(tx)>>) = 1 /\ <<EntryOf(tx)>>[1] = EntryOf(tx)
    OBVIOUS
  <2> QED
    BY <2>1, <2>2 DEF Ledger!Top
<1>8. /\ \A id \in AccountId : /\ EntryOf(tx).balance[id] = 0
                               /\ EntryOf(tx).nonce[id] = 0
      /\ EntryOf(tx).payout = {}
  <2>1. ~ SpendsProgram(tx) /\ Len(tx.outs) = 2
    BY GenesisOpens
  <2>2. tx.outs[2] = Output(CabooseValue, Caboose(GenesisState(GenesisRoot)))
    BY DEF IsGenesis
  <2>3. AccountsOf(tx) = ZeroState(AccountKeys)
    BY <2>1, <2>2 DEF AccountsOf, StateOf, LastOutput, Output, Caboose,
                      GenesisState, GenesisRoot, Root
  <2> QED
    BY <2>1, <2>3 DEF EntryOf, ZeroState, IsSettlement
<1> QED
  BY <1>1, <1>3, <1>5, <1>6, <1>7, <1>8 DEF Ledger!Open, AccountId

\* A transition posts one entry in the book of its identity.
LEMMA TransitionPosts ==
  ASSUME LineageInv, NEW package, Confirm(package), SpendsProgram(package.tx)
  PROVE  LET b == StateOf(package.tx).bridge_id
         IN  /\ b \in DOMAIN Book
             /\ Ledger!Posts(b)
             /\ Ledger!Top(b) = EntryOf(ParentOf(package.tx))
             /\ Ledger!Top(b)' = EntryOf(package.tx)
<1> DEFINE tx == package.tx
           c == StateOf(tx).bridge_id
<1>1. c \in Identities /\ ParentOf(tx) = HeadOf(c)
  BY AdvancesHead
<1>2. ~ IsGenesis(tx)
  BY GenesisOpens
<1>3. lineage' = [lineage EXCEPT ![c] = Append(lineage[c], tx)]
  <2>1. lineage' = Extended(lineage, tx)
    BY DEF Confirm
  <2> QED
    BY <1>2, <2>1, Zenon DEF Extended
<1>4. /\ Identities' = Identities
      /\ lineage'[c] = Append(lineage[c], tx)
      /\ \A b \in Identities : b # c => lineage'[b] = lineage[b]
  BY <1>1, <1>3 DEF Identities
<1>5. /\ Book[c] = Entries(lineage[c])
      /\ Len(Book[c]) = Len(lineage[c])
      /\ Ledger!Top(c) = EntryOf(HeadOf(c))
      /\ DOMAIN Book = Identities
  BY <1>1, BookFacts
<1>6. lineage[c] \in Seq(confirmed)
  BY <1>1, LineFacts
<1>7. /\ Book'[c] = Append(Book[c], EntryOf(tx))
      /\ Book' = [Book EXCEPT ![c] = Append(Book[c], EntryOf(tx))]
  <2>1. Book' = [b \in Identities |-> Entries(lineage'[b])]
    BY <1>4 DEF Book
  <2>2. \A b \in Identities : b # c => Entries(lineage'[b]) = Book[b]
    BY <1>4 DEF Book
  <2>3. Entries(lineage'[c]) = Append(Book[c], EntryOf(tx))
    BY <1>4, <1>5, <1>6, EntriesAppend
  <2>4. Book = [b \in Identities |-> Book[b]]
    BY DEF Book
  <2> QED
    BY <1>1, <2>1, <2>2, <2>3, <2>4
<1>8. Ledger!Top(c)' = EntryOf(tx)
  <2> DEFINE n == Len(lineage[c])
  <2>1. /\ Book'[c] = Entries(Append(lineage[c], tx))
        /\ Len(Append(lineage[c], tx)) = n + 1
        /\ n + 1 \in 1 .. n + 1
        /\ Append(lineage[c], tx)[n + 1] = tx
        /\ Append(lineage[c], tx) \in Seq(confirmed \cup {tx})
    BY <1>5, <1>6, <1>7, EntriesAppend, AppendProperties, SeqMonotonic
  <2>2. /\ Len(Book'[c]) = n + 1
        /\ Book'[c][n + 1] = EntryOf(tx)
    BY <2>1, EntriesFacts
  <2> QED
    BY <2>2 DEF Ledger!Top
<1>9. Ledger!Posts(c)
  <2>1. c \in DOMAIN Book'
    BY <1>1, <1>4 DEF Book
  <2> QED
    BY <1>7, <1>8, <2>1 DEF Ledger!Posts
<1> QED
  BY <1>1, <1>5, <1>8, <1>9

\* What the entry of an accepted transition says against its parent's.
LEMMA EntriesBacked ==
  ASSUME NEW package, NEW chain, Acceptable(package, chain),
         SpendsProgram(package.tx)
  PROVE  /\ Ledger!Backed(EntryOf(ParentOf(package.tx)))
         /\ Ledger!Backed(EntryOf(package.tx))
         /\ AccountsOf(ParentOf(package.tx)) \in AccountState(ValidKey)
         /\ AccountsOf(package.tx) \in AccountState(ValidKey)
<1> DEFINE tx == package.tx
           w == package.wit[1]
           old == AccountsOf(ParentOf(tx))
<1>1. /\ CollectionLeaf(tx, 1, w) \/ SettlementLeaf(tx, 1, w)
      /\ AuthenticateParent(tx, w)
      /\ 1 \in 1 .. Len(tx.ins)
  BY LeafRuns
<1>2. w.public_values.old_backing = SpentValue(tx, 1)
  BY <1>1 DEF CollectionLeaf, SettlementLeaf, CollectionStatementBound,
              SettlementStatementBound, StatementHeader
<1>3. /\ Accepts(w.proof) /\ Statement(w.proof) = w.public_values
      /\ w.proof.old_state = old
  BY <1>1, LeafCreates, ProofFromParent DEF VerifyProof
<1>4. Backing(old) = SpentValue(tx, 1)
  <2>1. Backing(old) = w.proof.old_backing
    BY <1>3 DEF Accepts, CollectionAccepted, SettlementAccepted, RequireBacking
  <2>2. Statement(w.proof).old_backing = w.proof.old_backing
    BY DEF Statement, CollectionStatement, SettlementStatement
  <2> QED
    BY <1>2, <1>3, <2>1, <2>2
<1>5. SpentValue(tx, 1) = ParentOf(tx).outs[1].value
  <2>1. tx.ins[1] = OutPoint(ParentOf(tx), 0)
    BY HeadAdvances
  <2> QED
    BY <2>1 DEF SpentValue, SpentOutput, OutPoint, TxId
<1>6. tx.outs[1].value = Backing(AccountsOf(tx))
  BY HeadBacked
<1>7. old \in AccountState(ValidKey) /\ AccountsOf(tx) \in AccountState(ValidKey)
  <2>1. old \in AccountState(ValidKey)
    BY <1>3 DEF Accepts, HasWidths
  <2> QED
    BY <2>1, ProofFromParent, AccountsKeepWidth
<1> QED
  BY <1>4, <1>5, <1>6, <1>7 DEF Ledger!Backed, EntryOf, Backing, AccountId

\* The entries of two transactions, account by account.
LEMMA EntryAt ==
  ASSUME NEW tx, NEW id \in AccountId
  PROVE  /\ EntryOf(tx).balance[id] = AccountsOf(tx)[id].balance
         /\ EntryOf(tx).nonce[id] = AccountsOf(tx)[id].nonce
         /\ EntryOf(tx).value = tx.outs[1].value
BY DEF EntryOf

\* A collection credits.
LEMMA CollectionCreditsBook ==
  ASSUME LineageInv, NEW package, Confirm(package), SpendsProgram(package.tx),
         package.wit[1].proof.action = "collect"
  PROVE  Ledger!Credit(StateOf(package.tx).bridge_id)
<1> DEFINE tx == package.tx
           p == ParentOf(tx)
           w == package.wit[1]
           proof == w.proof
           old == AccountsOf(p)
           new == AccountsOf(tx)
           b == StateOf(tx).bridge_id
<1>1. /\ Acceptable(package, confirmed)
      /\ agreed' = agreed
  BY DEF Confirm
<1>2. /\ Ledger!Posts(b)
      /\ Ledger!Top(b) = EntryOf(p)
      /\ Ledger!Top(b)' = EntryOf(tx)
  BY TransitionPosts
<1>3. /\ Ledger!Backed(EntryOf(p)) /\ Ledger!Backed(EntryOf(tx))
      /\ old \in AccountState(ValidKey) /\ new \in AccountState(ValidKey)
  BY <1>1, EntriesBacked
<1>4. /\ CollectionLeaf(tx, 1, w)
      /\ Accepts(proof) /\ proof.old_state = old
      /\ new = CollectedState(proof)
  BY <1>1, ProofFromParent
<1>5. /\ HasWidths(proof)
      /\ CollectionAccepted(proof)
      /\ \A k \in 1 .. 2 : proof.deposits[k].value \in Nat \ {0}
  <2>1. HasWidths(proof) /\ CollectionAccepted(proof)
    BY <1>4 DEF Accepts
  <2>2. \A k \in 1 .. 2 : proof.deposits[k].value \in Nat
    BY <2>1, CoinsAssumption DEF HasWidths, Amount
  <2>3. \A k \in 1 .. 2 : proof.deposits[k].value # 0
    <3>1. /\ Creditable(proof.old_state, proof.deposits[1])
          /\ Creditable(CreditAccount(proof.old_state, proof.deposits[1]),
                        proof.deposits[2])
      BY <2>1 DEF CollectionAccepted
    <3>2. proof.deposits[1].value # 0 /\ proof.deposits[2].value # 0
      BY <3>1, Zenon DEF Creditable
    <3> QED
      BY <3>2
  <2> QED
    BY <2>1, <2>2, <2>3
<1> DEFINE credit(k, id) == IF proof.deposits[k].recipient_id = id
                            THEN proof.deposits[k].value ELSE 0
<1>6. \A id \in AccountId :
        /\ old[id].balance \in Nat /\ old[id].nonce \in Nat
        /\ new[id].balance = old[id].balance + (credit(1, id) + credit(2, id))
        /\ new[id].nonce = old[id].nonce
  <2> SUFFICES ASSUME NEW id \in AccountId
               PROVE  /\ old[id].balance \in Nat /\ old[id].nonce \in Nat
                      /\ new[id].balance =
                           old[id].balance + (credit(1, id) + credit(2, id))
                      /\ new[id].nonce = old[id].nonce
    OBVIOUS
  <2>1. new[id] = Moved(old[id], credit(1, id) + credit(2, id), 0)
    BY <1>4, <1>5, CollectionMoves
  <2>2. old[id].balance \in Nat /\ old[id].nonce \in Nat
    BY <1>3, CoinsAssumption DEF AccountState, Amount, Nonce
  <2> QED
    BY <2>1, <2>2 DEF Moved
<1>7. \A id \in AccountId : EntryOf(tx).balance[id] >= EntryOf(p).balance[id]
  <2> SUFFICES ASSUME NEW id \in AccountId
               PROVE  new[id].balance >= old[id].balance
    BY EntryAt
  <2>1. credit(1, id) + credit(2, id) \in Nat
    BY <1>5
  <2> QED
    BY <1>6, <2>1
<1>8. EntryOf(tx).nonce = EntryOf(p).nonce
  BY <1>6 DEF EntryOf
<1>9. EntryOf(tx).value > EntryOf(p).value
  <2>1. /\ tx.outs[1] = Output(w.public_values.new_backing, Program)
        /\ Statement(proof) = w.public_values
    BY <1>4, LeafCreates DEF VerifyProof
  <2>2. Statement(proof).new_backing = CollectedBacking(proof)
    BY DEF Statement, CollectionStatement
  <2>3. EntryOf(tx).value = CollectedBacking(proof)
    <3>1. EntryOf(tx).value = tx.outs[1].value
      BY DEF EntryOf
    <3>2. tx.outs[1].value = w.public_values.new_backing
      BY <2>1 DEF Output
    <3> QED
      BY <2>1, <2>2, <3>1, <3>2
  <2>4. EntryOf(p).value = proof.old_backing
    <3>1. Backing(old) = proof.old_backing
      BY <1>4, <1>5 DEF CollectionAccepted, RequireBacking
    <3> QED
      BY <1>3, <3>1 DEF Ledger!Backed, EntryOf, Backing, AccountId
  <2>5. proof.old_backing \in Nat
    BY <1>5, CoinsAssumption DEF HasWidths, Amount
  <2> QED
    BY <1>5, <2>3, <2>4, <2>5 DEF CollectedBacking
<1>10. EntryOf(tx).payout = {}
  <2>1. ~ IsSettlement(tx)
    BY <1>4 DEF CollectionLeaf, Context, Running, IsSettlement
  <2> QED
    BY <2>1 DEF EntryOf
<1> QED
  BY <1>1, <1>2, <1>3, <1>7, <1>8, <1>9, <1>10 DEF Ledger!Credit, AccountId

\* A settlement settles two agreed requests.
LEMMA SettlementSettlesBook ==
  ASSUME LineageInv, NEW package, Confirm(package), SpendsProgram(package.tx),
         package.wit[1].proof.action # "collect"
  PROVE  Ledger!Settle(StateOf(package.tx).bridge_id)
<1> DEFINE tx == package.tx
           p == ParentOf(tx)
           w == package.wit[1]
           proof == w.proof
           old == AccountsOf(p)
           new == AccountsOf(tx)
           b == StateOf(tx).bridge_id
<1>1. /\ Acceptable(package, confirmed)
      /\ Unforged(package, Signatures)
      /\ agreed' = agreed
  BY DEF Confirm
<1>2. /\ Ledger!Posts(b)
      /\ Ledger!Top(b) = EntryOf(p)
      /\ Ledger!Top(b)' = EntryOf(tx)
  BY TransitionPosts
<1>3. /\ Ledger!Backed(EntryOf(p)) /\ Ledger!Backed(EntryOf(tx))
      /\ old \in AccountState(ValidKey) /\ new \in AccountState(ValidKey)
  BY <1>1, EntriesBacked
<1>4. /\ SettlementLeaf(tx, 1, w)
      /\ Accepts(proof) /\ proof.old_state = old
      /\ proof.action = "transfer_withdraw"
      /\ new = SettledState(proof)
  BY <1>1, ProofFromParent
<1>5. IsSettlement(tx)
  BY <1>4 DEF SettlementLeaf, Context, Running, IsSettlement
<1>6. PICK moved \in agreed, paid \in agreed :
        /\ moved.bridge_id = b
        /\ moved.sender_nonce = old[0].nonce
        /\ paid.bridge_id = b
        /\ paid.withdrawal_nonce = old[1].nonce
        /\ tx.outs[2] = Output(paid.terms.withdrawal_amount,
                               paid.terms.withdrawal_destination)
        /\ new[0] = Moved(old[0], -(moved.terms.transfer_amount
                                       + moved.terms.transfer_fee), 1)
        /\ new[1] = Moved(old[1], moved.terms.transfer_amount
                                     - paid.terms.withdrawal_amount, 1)
        /\ new[2] = Moved(old[2], moved.terms.transfer_fee, 0)
        /\ moved.terms.transfer_amount \in Nat
        /\ moved.terms.transfer_fee \in Nat
        /\ paid.terms.withdrawal_amount \in Nat
  BY <1>1, <1>5, SettlementAuthorized
<1>7. \A id \in AccountId :
        /\ old[id].balance \in Nat /\ old[id].nonce \in Nat
        /\ new[id].balance \in Nat
  BY <1>3, CoinsAssumption DEF AccountState, Amount, Nonce
<1>8. /\ new[0].balance = old[0].balance - moved.terms.transfer_amount
                                        - moved.terms.transfer_fee
      /\ new[1].balance = old[1].balance + moved.terms.transfer_amount
                                        - paid.terms.withdrawal_amount
      /\ new[2].balance = old[2].balance + moved.terms.transfer_fee
      /\ new[0].nonce = old[0].nonce + 1
      /\ new[1].nonce = old[1].nonce + 1
      /\ new[2].nonce = old[2].nonce
  BY <1>6, <1>7 DEF Moved, AccountId
<1>9. EntryOf(tx).payout = {[value |-> paid.terms.withdrawal_amount,
                             spk |-> paid.terms.withdrawal_destination]}
  BY <1>5, <1>6 DEF EntryOf, Output
<1>10. \A id \in AccountId :
         /\ EntryOf(p).nonce[id] = old[id].nonce
         /\ EntryOf(tx).nonce[id] = new[id].nonce
         /\ EntryOf(p).balance[id] = old[id].balance
         /\ EntryOf(tx).balance[id] = new[id].balance
  BY EntryAt
<1>11. /\ EntryOf(p).nonce[0] = old[0].nonce /\ EntryOf(p).nonce[1] = old[1].nonce
       /\ EntryOf(p).nonce[2] = old[2].nonce
       /\ EntryOf(tx).nonce[0] = new[0].nonce /\ EntryOf(tx).nonce[1] = new[1].nonce
       /\ EntryOf(tx).nonce[2] = new[2].nonce
  BY <1>10 DEF AccountId
<1>12. /\ EntryOf(p).balance[0] = old[0].balance
       /\ EntryOf(p).balance[1] = old[1].balance
       /\ EntryOf(p).balance[2] = old[2].balance
       /\ EntryOf(tx).balance[0] = new[0].balance
       /\ EntryOf(tx).balance[1] = new[1].balance
       /\ EntryOf(tx).balance[2] = new[2].balance
  BY <1>10 DEF AccountId
<1>13. \A id \in AccountId : EntryOf(tx).balance[id] >= 0
  <2> SUFFICES ASSUME NEW id \in AccountId PROVE EntryOf(tx).balance[id] >= 0
    OBVIOUS
  <2>1. new[id].balance \in Nat /\ EntryOf(tx).balance[id] = new[id].balance
    BY <1>7, <1>10
  <2> QED
    BY <2>1
<1> QED
  BY <1>1, <1>2, <1>3, <1>6, <1>8, <1>9, <1>11, <1>12, <1>13
     DEF Ledger!Settle, AccountId

-----------------------------------------------------------------------------
(* Reorganizations and signatures                                          *)

\* Disconnecting a head takes the last entry of its book back.
LEMMA DisconnectUndoes ==
  ASSUME LineageInv, NEW tx \in confirmed, Disconnect(tx),
         IsGenesis(tx) \/ SpendsProgram(tx)
  PROVE  /\ IdentityOf(tx) \in DOMAIN Book
         /\ Ledger!Undo(IdentityOf(tx))
<1> DEFINE b == IdentityOf(tx)
           n == Len(lineage[b])
<1>1. /\ lineage' = Shortened(lineage, tx)
      /\ agreed' = agreed
  BY DEF Disconnect
<1>2. /\ b \in Identities
      /\ lineage[b][n] = tx
  BY DisconnectsHead
<1>3. /\ DOMAIN Book = Identities
      /\ Book[b] = Entries(lineage[b])
      /\ Len(Book[b]) = n
  BY <1>2, BookFacts
<1>4. n \in 1 .. n /\ lineage[b] \in Seq(confirmed) /\ lineage[b] # <<>>
  BY <1>2, LineFacts DEF LineageInv, TypeOK
<1>5. n = 1 <=> IsGenesis(tx)
  <2>1. IsGenesis(lineage[b][n]) <=> n = 1
    BY <1>2, <1>4, OfItsIdentity
  <2> QED
    BY <1>2, <2>1
<1>6. CASE IsGenesis(tx)
  <2>1. b = TxId(tx)
    BY <1>6 DEF IdentityOf
  <2>2. lineage' = [c \in Identities \ {b} |-> lineage[c]]
    <3>1. ~ SpendsProgram(tx)
      BY <1>6, GenesisOpens
    <3> QED
      BY <1>1, <1>6, <2>1, <3>1, Zenon DEF Shortened, Identities
  <2>3. Book' = [c \in DOMAIN Book \ {b} |-> Book[c]]
    <3>1. Identities' = Identities \ {b}
      BY <2>2 DEF Identities
    <3>2. \A c \in Identities \ {b} : lineage'[c] = lineage[c]
      BY <2>2
    <3> QED
      BY <1>3, <3>1, <3>2 DEF Book
  <2> QED
    BY <1>1, <1>2, <1>3, <1>5, <1>6, <2>3 DEF Ledger!Undo
<1>7. CASE ~ IsGenesis(tx)
  <2>1. b = StateOf(tx).bridge_id
    BY <1>7 DEF IdentityOf
  <2>2. lineage' = [lineage EXCEPT ![b] = SubSeq(lineage[b], 1, n - 1)]
    BY <1>1, <1>7, <2>1, Zenon DEF Shortened
  <2>3. /\ Identities' = Identities
        /\ lineage'[b] = SubSeq(lineage[b], 1, n - 1)
        /\ \A c \in Identities : c # b => lineage'[c] = lineage[c]
    BY <1>2, <2>2 DEF Identities
  <2>4. Book' = [Book EXCEPT ![b] = SubSeq(Book[b], 1, Len(Book[b]) - 1)]
    <3>1. Book' = [c \in Identities |-> Entries(lineage'[c])]
      BY <2>3 DEF Book
    <3>2. \A c \in Identities : c # b => Entries(lineage'[c]) = Book[c]
      BY <2>3 DEF Book
    <3>3. Entries(lineage'[b]) = SubSeq(Book[b], 1, Len(Book[b]) - 1)
      BY <1>3, <1>4, <1>5, <1>7, <2>3, EntriesPrefix
    <3>4. Book = [c \in Identities |-> Book[c]]
      BY DEF Book
    <3> QED
      BY <1>2, <3>1, <3>2, <3>3, <3>4
  <2> QED
    BY <1>1, <1>2, <1>3, <1>5, <1>7, <2>4 DEF Ledger!Undo
<1> QED
  BY <1>2, <1>3, <1>6, <1>7

\* The books stay when the lineages do.
LEMMA SameLineagesSameBook ==
  ASSUME lineage' = lineage
  PROVE  Book' = Book
<1>1. Identities' = Identities
  BY DEF Identities
<1> QED
  BY <1>1 DEF Book

-----------------------------------------------------------------------------
(* Theorem                                                                 *)

\* An empty chain is empty books.
LEMMA InitMaps ==
  ASSUME Init
  PROVE  Ledger!Init
<1>1. Identities = {}
  BY DEF Init, Identities
<1>2. Book = [b \in {} |-> <<>>]
  BY <1>1 DEF Book
<1> QED
  BY <1>2 DEF Init, Ledger!Init

\* Every step of the chain is a step of the books or changes nothing there.
LEMMA StepMaps ==
  ASSUME LineageInv, [Next]_vars
  PROVE  [Ledger!Next]_<<Book, agreed>>
<1>1. ASSUME NEW package, Confirm(package)
      PROVE  [Ledger!Next]_<<Book, agreed>>
  <2> DEFINE tx == package.tx
  <2>1. CASE IsGenesis(tx)
    BY <1>1, <2>1, GenesisOpensBook DEF Ledger!Next
  <2>2. CASE SpendsProgram(tx)
    BY <1>1, <2>2, TransitionPosts, CollectionCreditsBook,
       SettlementSettlesBook DEF Ledger!Next
  <2>3. CASE ~ IsGenesis(tx) /\ ~ SpendsProgram(tx)
    <3>1. lineage' = lineage /\ agreed' = agreed
      BY <1>1, <2>3, Zenon DEF Confirm, Extended
    <3> QED
      BY <3>1, SameLineagesSameBook
  <2> QED
    BY <2>1, <2>2, <2>3
<1>2. ASSUME NEW tx \in confirmed, Disconnect(tx)
      PROVE  [Ledger!Next]_<<Book, agreed>>
  <2>1. CASE IsGenesis(tx) \/ SpendsProgram(tx)
    BY <1>2, <2>1, DisconnectUndoes DEF Ledger!Next
  <2>2. CASE ~ IsGenesis(tx) /\ ~ SpendsProgram(tx)
    <3>1. lineage' = lineage /\ agreed' = agreed
      BY <1>2, <2>2, Zenon DEF Disconnect, Shortened
    <3> QED
      BY <3>1, SameLineagesSameBook
  <2> QED
    BY <2>1, <2>2
<1>3. CASE Pay \/ Collect \/ Settle \/ Refund
  BY <1>1, <1>3 DEF Pay, Collect, Settle, Refund
<1>4. CASE \E b \in Identities, terms \in Terms : SignSettlement(b, terms)
  <2>1. agreed \subseteq agreed' /\ lineage' = lineage
    BY <1>4 DEF SignSettlement
  <2>2. Book' = Book
    BY <2>1, SameLineagesSameBook
  <2> QED
    BY <2>1, <2>2 DEF Ledger!Next, Ledger!Agree
<1>5. CASE \E outpoint \in Unspent(confirmed) : SignRefund(outpoint)
  BY <1>5, SameLineagesSameBook DEF SignRefund
<1>6. CASE UNCHANGED vars
  BY <1>6, SameLineagesSameBook DEF vars
<1>7. CASE \E tx \in confirmed : Disconnect(tx)
  BY <1>2, <1>7
<1> QED
  BY <1>3, <1>4, <1>5, <1>6, <1>7 DEF Next

\* Theorem: whatever is broadcast, signed or disconnected, the heads of the
\* chain are the books of Custody: the bridge implements what it promises.
THEOREM Keeps_Custody == Spec => KeepsCustody
<1>1. Init => Ledger!Init
  BY InitMaps
<1>2. LineageInv /\ [Next]_vars => [Ledger!Next]_<<Book, agreed>>
  BY StepMaps
<1> QED
  BY <1>1, <1>2, Lineages, PTL DEF Spec, KeepsCustody, Ledger!Spec

=============================================================================
