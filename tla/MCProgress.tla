----------------------------- MODULE MCProgress -----------------------------
(***************************************************************************)
(* What eventually happens on the chain of MCBridge.  Nothing in the code  *)
(* makes anybody act, so the fairness is the chain's and the users': what  *)
(* somebody keeps broadcasting, and stays acceptable, is mined.  It is     *)
(* asked for each deposit, that it is refunded or collected with some      *)
(* other, and for each instance, that it settles.  That of collection in   *)
(* general would not do: the same two deposits may be collected and taken  *)
(* back for ever while two others wait.  Nothing is asked of funding, of   *)
(* signing or of reorganizations, which may go on for ever.                *)
(***************************************************************************)
EXTENDS MCBridge

\* The coinbases that fund deposits, and those that open instances.
Depositors == {n \in DOMAIN Plan : \E entry \in Plan[n] : entry.kind = "deposit"}
Openers == DOMAIN Plan \ Depositors

\* The unspent deposits funded from some coinbases.
DepositsFrom(coinbases) ==
  {o \in {OutPoint(tx, 0) : tx \in {t \in confirmed \ Coinbases :
                                      ParentOf(t).form \in coinbases}} :
     SpentOutput(o).spk.kind = "deposit" /\ ~ IsSpent(o, confirmed)}

\* The instance opened from a coinbase.
OpenedFrom(n) == {b \in Identities : FunderOf(b) = n}

RefundsFrom(n) ==
  {RefundPackage(o, RefundSignature(o)) : o \in DepositsFrom({n}) \cap refunding}

\* The instance a deposit is for, and the other deposits for it.
InstanceOf(d) == SpentOutput(d).spk.bridge_id
PartnersOf(d) ==
  {o \in DepositsFrom(Depositors) : o # d /\ InstanceOf(o) = InstanceOf(d)}

\* Two deposits in the order the relation takes them.
InOrder(d, o) == IF Before(d, o) THEN <<d, o>> ELSE <<o, d>>

CollectionsWith(n) ==
  UNION {{HonestCollection(InstanceOf(d), InOrder(d, o), sponsor) :
            o \in PartnersOf(d), sponsor \in SponsorsOf(confirmed)}
           : d \in {o \in DepositsFrom({n}) : InstanceOf(o) \in Identities}}

SettlementsAt(n) ==
  {HonestSettlement(b, request.terms, sponsor) :
     b \in OpenedFrom(n), request \in agreed, sponsor \in SponsorsOf(confirmed)}

\* The next block may hold one of the packages, and it holds one.
CanMine(packages) == \E package \in packages : Confirmable(package)
Mine(packages) == \E package \in packages : Confirm(package)

\* Weak fairness of Mine, for each deposit and each instance.  ENABLED is
\* written out: Confirm(package) can happen, and changes the chain, exactly
\* when Confirmable(package).
FairSpec ==
  /\ Spec
  /\ \A n \in Depositors :
       /\ []<>~ CanMine(RefundsFrom(n)) \/ []<><<Mine(RefundsFrom(n))>>_vars
       /\ []<>~ CanMine(CollectionsWith(n)) \/ []<><<Mine(CollectionsWith(n))>>_vars
  /\ \A n \in Openers :
       []<>~ CanMine(SettlementsAt(n)) \/ []<><<Mine(SettlementsAt(n))>>_vars

-----------------------------------------------------------------------------

\* lib.rs, validate_collection takes exactly two deposits: one that stays
\* alone is not lost, since its owner's signature is all its refund needs.
RefundsLeave ==
  \A n \in Depositors : []<>(DepositsFrom({n}) \cap refunding = {})

\* Somebody can pay for a transition of the instance.
Served(b) == Advances(b) /\ SponsorsOf(confirmed) # {}

\* A deposit for a served instance, with another beside it.
HasPartner(n) ==
  \E d \in DepositsFrom({n}) :
    /\ PartnersOf(d) # {}
    /\ InstanceOf(d) \in Identities /\ Served(InstanceOf(d))

\* IMPLEMENTATION_PLAN.md, "Deposits remain collectible because their
\* identity is stable": a deposit does not wait for ever beside others of its
\* instance, although those are collected, refunded and taken back for ever.
PairsLeave == \A n \in Depositors : []<>~ HasPartner(n)

\* A request signed at nonce k for the head of an instance that can pay it.
Payable(n, k) ==
  \E b \in OpenedFrom(n) :
    /\ Served(b)
    /\ \E request \in agreed :
         LET old == AccountsOf(HeadOf(b))
         IN  /\ request.bridge_id = b
             /\ request.sender_nonce = k /\ old[0].nonce = k
             /\ request.withdrawal_nonce = old[1].nonce
             /\ Funded(request.terms, old)

\* docs/protocol.md, Transfer and withdrawal: a signed request the head can
\* pay is paid, or another at its nonce, or it stops being payable, whatever
\* is settled and taken back at other instances.
RequestsLeave ==
  \A n \in Openers : \A k \in Nonce \ {MaxNonce} : []<>~ Payable(n, k)

=============================================================================
