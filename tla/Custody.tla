------------------------------- MODULE Custody -------------------------------
(***************************************************************************)
(* What the bridge promises its account holders, with no transactions, no  *)
(* scripts and no proofs: every instance is a book of entries, each what   *)
(* three accounts hold, the value kept for them and what was paid out.  An *)
(* entry follows another when deposits are credited, or when a transfer    *)
(* and a withdrawal were both agreed to at the nonces of the entry before; *)
(* and a reorganization takes the last entry back.                         *)
(***************************************************************************)
EXTENDS Integers, Sequences

CONSTANT Reserve     \* the value an instance keeps beyond the balances

VARIABLES
  book,      \* instance -> its entries
  agreed     \* the requests the holders of accounts 0 and 1 agreed to

Top(b) == book[b][Len(book[b])]

Backed(entry) ==
  entry.value = Reserve + entry.balance[0] + entry.balance[1] + entry.balance[2]

\* One more entry at the end of an instance's book.
Posts(b) ==
  /\ b \in DOMAIN book'
  /\ book' = [book EXCEPT ![b] = Append(@, Top(b)')]

Init == book = [b \in {} |-> <<>>] /\ agreed = {}

Open(b) ==
  /\ book' = [c \in DOMAIN book \cup {b} |->
                IF c = b THEN <<Top(b)'>> ELSE book[c]]
  /\ \A id \in 0 .. 2 : Top(b)'.balance[id] = 0 /\ Top(b)'.nonce[id] = 0
  /\ Top(b)'.payout = {}
  /\ UNCHANGED agreed

Agree ==
  /\ agreed \subseteq agreed'
  /\ UNCHANGED book

\* No balance falls, nobody signs and nothing is paid out.
Credit(b) ==
  /\ Posts(b)
  /\ Backed(Top(b)) /\ Backed(Top(b)')
  /\ \A id \in 0 .. 2 : Top(b)'.balance[id] >= Top(b).balance[id]
  /\ Top(b)'.value > Top(b).value
  /\ Top(b)'.nonce = Top(b).nonce
  /\ Top(b)'.payout = {}
  /\ UNCHANGED agreed

\* The transfer of one request and the withdrawal of one, both agreed to for
\* this instance at the nonce their signer is at, and nobody overdrawn.
Settle(b) ==
  /\ Posts(b)
  /\ Backed(Top(b)) /\ Backed(Top(b)')
  /\ \E moved, paid \in agreed :
       /\ moved.bridge_id = b /\ moved.sender_nonce = Top(b).nonce[0]
       /\ paid.bridge_id = b /\ paid.withdrawal_nonce = Top(b).nonce[1]
       /\ Top(b)'.payout = {[value |-> paid.terms.withdrawal_amount,
                             spk |-> paid.terms.withdrawal_destination]}
       /\ Top(b)'.balance[0] = Top(b).balance[0] - moved.terms.transfer_amount
                                                 - moved.terms.transfer_fee
       /\ Top(b)'.balance[1] = Top(b).balance[1] + moved.terms.transfer_amount
                                                 - paid.terms.withdrawal_amount
       /\ Top(b)'.balance[2] = Top(b).balance[2] + moved.terms.transfer_fee
  /\ \A id \in 0 .. 2 : Top(b)'.balance[id] >= 0
  /\ Top(b)'.nonce[0] = Top(b).nonce[0] + 1
  /\ Top(b)'.nonce[1] = Top(b).nonce[1] + 1
  /\ Top(b)'.nonce[2] = Top(b).nonce[2]
  /\ UNCHANGED agreed

Undo(b) ==
  /\ book' = IF Len(book[b]) = 1
             THEN [c \in DOMAIN book \ {b} |-> book[c]]
             ELSE [book EXCEPT ![b] = SubSeq(@, 1, Len(@) - 1)]
  /\ UNCHANGED agreed

Next ==
  \/ \E b \in DOMAIN book' \ DOMAIN book : Open(b)
  \/ Agree
  \/ \E b \in DOMAIN book : Credit(b) \/ Settle(b) \/ Undo(b)

Spec == Init /\ [][Next]_<<book, agreed>>

=============================================================================
