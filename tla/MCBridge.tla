------------------------------ MODULE MCBridge ------------------------------
(***************************************************************************)
(* Bridge on a small chain.  Plan says what every coinbase may fund; the   *)
(* coinbases it leaves out sponsor the transitions, lowest first.  Besides *)
(* the package the host builds, every tampering in Tampers is broadcast.   *)
(***************************************************************************)
EXTENDS Bridge

CONSTANTS
  K0, K1, K2,        \* the account keys
  R1, R2,            \* the depositors' refund keys
  Destinations,      \* payout keys
  CoinbaseCount,
  CoinbaseValue,
  Plan,              \* coinbase number -> the fundings it may be spent on
  GenesisReserves,   \* the values output 0 of a genesis may be given
  Counterfeits,      \* whether copied programs and cabooses are paid to
  Tampers            \* the ways a package is altered

MCKeys == [id \in 0 .. 2 |-> <<K0, K1, K2>>[id + 1]]

Coinbase(n) ==
  [form |-> n, ins |-> <<>>, outs |-> <<Output(CoinbaseValue, Sponsor)>>]

MCValidKey == {K0, K1, K2}

MCCoinbases == {Coinbase(n) : n \in 1 .. CoinbaseCount}

\* Outpoints sort by the number of the coinbase that funded them.
MCHashRank(txid) ==
  IF txid.tx.ins = <<>> THEN txid.tx.form
  ELSE IF txid.tx.ins[1].txid.tx.ins = <<>> THEN txid.tx.ins[1].txid.tx.form
  ELSE 0

IdentitiesOf(chain) == {TxId(tx) : tx \in {t \in chain : IsGenesis(t)}}

SponsorsOf(chain) ==
  LET free == {n \in 1 .. CoinbaseCount :
                 n \notin DOMAIN Plan
                 /\ ~ IsSpent(OutPoint(Coinbase(n), 0), chain)}
  IN  {OutPoint(Coinbase(n), 0) : n \in {m \in free : \A k \in free : m <= k}}

HeadsOf(chain) ==
  {tx \in chain : tx.outs[1].spk = Program /\ ~ IsSpent(OutPoint(tx, 0), chain)}

-----------------------------------------------------------------------------

\* The coinbase an instance was opened from.
FunderOf(b) == ParentOf(ParentOf(b.tx)).form

SpkOf(entry, chain) ==
  IF entry.kind = "sponsor" THEN {Sponsor}
  ELSE {DepositFor(b, entry.recipient, entry.owner) :
          b \in {c \in IdentitiesOf(chain) : FunderOf(c) = entry.instance}}

MCFundings(chain) ==
  UNION {UNION {{FundingTx(Coinbase(n), entry.amount, spk)
                   : spk \in SpkOf(entry, chain)}
                  : entry \in Plan[n]} : n \in DOMAIN Plan}

FundingsOf(chain) ==
  {tx \in chain : OneInputTwoOutputs(tx) /\ tx.outs[1].spk = Sponsor
                  /\ ~ IsSpent(OutPoint(tx, 0), chain)}

MCOpenings(chain) ==
  {GenesisTx(f, GenesisState(GenesisRoot), reserve) :
     f \in FundingsOf(chain), reserve \in GenesisReserves}

\* Copies of a head: its program, its value and its caboose, in a payment of
\* the shape of a genesis or of a settlement.
MCForgeries(chain) ==
  LET copied == {tx \in chain : SpendsProgram(tx)}
      Settlementlike(f, sponsor, tx) ==
        [form |-> 0,
         ins |-> <<OutPoint(f, 0), sponsor>>,
         outs |-> <<tx.outs[1], Output(1, Sponsor), Output(1, Sponsor),
                    LastOutput(tx)>>]
  IN  {GenesisTx(f, StateOf(tx), tx.outs[1].value) : f \in FundingsOf(chain), tx \in copied}
      \cup {Settlementlike(f, sponsor, tx) :
              f \in FundingsOf(chain), sponsor \in SponsorsOf(chain), tx \in copied}

MCPayments(chain) ==
  {Package(tx, <<SponsorWitness, SponsorWitness>>) :
     tx \in MCFundings(chain) \cup MCOpenings(chain)
            \cup (IF Counterfeits THEN MCForgeries(chain) ELSE {})}

-----------------------------------------------------------------------------

\* Move one unit of account a's balance to account b.
Shift(accounts, a, b) ==
  [accounts EXCEPT ![a].balance = @ - 1, ![b].balance = @ + 1]

\* The accounts a prover may start from.
ProverAccounts(head, tamper) ==
  IF tamper = "accounts" THEN Shift(AccountsOf(head), 0, 1)
  ELSE IF tamper = "backing" THEN [AccountsOf(head) EXCEPT ![1].balance = @ + 1]
  ELSE AccountsOf(head)

ProverBacking(head, tamper) ==
  head.outs[1].value + (IF tamper = "backing" THEN 1 ELSE 0)

ProverDeposits(ds, tamper) ==
  LET honest == [k \in 1 .. 2 |-> DepositRecord(ds[k])]
  IN  CASE tamper = "recipient" ->
             [honest EXCEPT ![1].recipient_id = (@ + 1) % 3]
        [] tamper = "values" ->
             [honest EXCEPT ![1].value = @ - 1, ![2].value = @ + 1]
        [] OTHER -> honest

\* The root a spender may commit to in the new caboose.
NewRoot(proof, tamper) ==
  IF tamper = "root"
  THEN Root(Shift(Statement(proof).new_root.root, 0, 1))
  ELSE Statement(proof).new_root

\* Move value from the head to the sponsor's change, or overpay the miner.
SkimmedOutputs(tx, tamper) ==
  LET change == Len(tx.outs) - 1
  IN  CASE tamper = "skim" -> [tx EXCEPT !.outs[1].value = @ - 1,
                                         !.outs[change].value = @ + 1]
        [] tamper = "wrap" -> [tx EXCEPT !.outs[1].value = @ % (MaxAmount + 1)]
        [] tamper = "fee" -> [tx EXCEPT !.outs[change].value = @ - 1]
        [] tamper = "payee" -> [tx EXCEPT !.outs[2].spk = Sponsor]
        [] OTHER -> tx

PrevoutOf(head, tamper) ==
  IF tamper = "prevout" THEN head.ins[1] ELSE OutPoint(head, 0)

IdentityFor(head, chain, tamper) ==
  IF tamper = "identity" THEN IdentitiesOf(chain)
  ELSE {IF StateOf(head).phase = "genesis" THEN TxId(head)
        ELSE StateOf(head).bridge_id}

MCCollections(chain) ==
  LET deposits == {o \in Unspent(chain) : SpentOutput(o).spk.kind = "deposit"}
      Build(head, ds, sponsor, b, tamper) ==
        LET proof == CollectionInput(b, PrevoutOf(head, tamper),
                                     ProverAccounts(head, tamper),
                                     ProverBacking(head, tamper),
                                     ProverDeposits(ds, tamper))
            new_state == ActiveState(b, NewRoot(proof, tamper))
        IN  CollectionPackage(
              SkimmedOutputs(CollectTx(head, ds, sponsor, new_state), tamper),
              head, ParentOf(head), b, StateOf(head), new_state, proof)
  IN  UNION {UNION {{Build(head, <<d1, d2>>, sponsor, b, tamper) :
                       b \in IdentityFor(head, chain, tamper)}
                      : d1 \in deposits, d2 \in deposits, sponsor \in SponsorsOf(chain),
                        tamper \in Tampers} : head \in HeadsOf(chain)}

MCSettlements(chain, signatures) ==
  LET natives == {s \in signatures : s.key = K0 /\ s.message.domain = "native"}
      scopeds == {s \in signatures : s.key = K0 /\ s.message.domain = "transfer-auth"}
      withdrawals == {s \in signatures : s.key = K1}
      \* The transfer of one request with the withdrawal of another.
      Mixed == {[moved EXCEPT !.withdrawal_amount = paid.withdrawal_amount,
                              !.withdrawal_destination = paid.withdrawal_destination]
                  : moved \in Terms, paid \in Terms}
      Build(head, terms, sponsor, b, sigs, tamper) ==
        LET proof == SettlementInput(b, PrevoutOf(head, tamper),
                                     ProverAccounts(head, tamper),
                                     ProverBacking(head, tamper), terms, sigs)
            new_state == ActiveState(b, NewRoot(proof, tamper))
        IN  SettlementPackage(
              SkimmedOutputs(SettlementTx(head, sponsor, new_state,
                                          terms.withdrawal_amount,
                                          terms.withdrawal_destination), tamper),
              head, ParentOf(head), b, StateOf(head), new_state, proof)
  IN  UNION {UNION {{Build(head, terms, sponsor, b, sigs, tamper) :
                       b \in IdentityFor(head, chain, tamper)}
                      : terms \in Mixed, sponsor \in SponsorsOf(chain),
                        sigs \in natives \X scopeds \X withdrawals,
                        tamper \in Tampers} : head \in HeadsOf(chain)}

\* Any refund signature, on any deposit.
MCRefunds(chain, signatures) ==
  {RefundPackage(o, s) :
     o \in {u \in Unspent(chain) : SpentOutput(u).spk.kind = "deposit"},
     s \in {t \in signatures : t.key \in {R1, R2}}}

-----------------------------------------------------------------------------
(* Plans                                                                   *)

ForGenesis == [kind |-> "sponsor", amount |-> Reserve + CabooseValue + MinerFee]

\* A deposit for the instance opened from the given coinbase.
ForDeposit(instance, recipient, owner, amount) ==
  [kind |-> "deposit", instance |-> instance, recipient |-> recipient,
   owner |-> owner, amount |-> amount]

ToKey(d) == [kind |-> "key", key |-> d]

TermsOf(amount, fee, withdrawn, destination) ==
  [transfer_amount |-> amount, transfer_fee |-> fee,
   withdrawal_amount |-> withdrawn, withdrawal_destination |-> destination]

\* One instance, four deposits, and settlements of up to two requests.
CustodyPlan ==
  <<{ForGenesis}, {ForDeposit(1, 0, R1, 6)}, {ForDeposit(1, 1, R2, 3)},
    {ForDeposit(1, 2, R1, 4)}, {ForDeposit(1, 0, R2, 2)}>>

CustodyTerms == {TermsOf(2, 1, 4, ToKey(d)) : d \in Destinations}

\* A request that pays the bridge program.
SelfTerms == {TermsOf(2, 1, 4, Program)}

\* Two instances, two deposits for each, and requests signed for either.
InstancesPlan ==
  <<{ForGenesis}, {ForGenesis},
    {ForDeposit(1, 0, R1, 4)}, {ForDeposit(1, 1, R2, 3)},
    {ForDeposit(2, 0, R1, 4)}, {ForDeposit(2, 1, R2, 3)}>>

\* Two instances; the second pair of deposits may be for either.
ProgressPlan ==
  <<{ForGenesis}, {ForGenesis},
    {ForDeposit(1, 0, R1, 4)}, {ForDeposit(1, 1, R2, 3)},
    {ForDeposit(b, 0, R1, 4) : b \in 1 .. 2},
    {ForDeposit(b, 1, R2, 3) : b \in 1 .. 2}>>

InstancesTerms ==
  {TermsOf(2, 1, 4, ToKey(d)) : d \in Destinations}
    \cup {TermsOf(1, 0, 3, ToKey(d)) : d \in Destinations}

\* An instance, underfunded ones, and forged copies of its head.  Of the
\* three pairs of deposits one is worth too much, and one just not.
CounterfeitsPlan ==
  <<{ForGenesis}, {[kind |-> "sponsor", amount |-> 10]}, {ForDeposit(1, 0, R1, 7)},
    {ForDeposit(1, 1, R2, 4)}, {ForDeposit(1, 2, R2, 3)}>>

CounterfeitsTerms == {TermsOf(1, 0, 1, ToKey(d)) : d \in Destinations}

=============================================================================
