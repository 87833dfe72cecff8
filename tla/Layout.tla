------------------------------- MODULE Layout -------------------------------
(***************************************************************************)
(* What the Script programs read at fixed offsets of byte strings that     *)
(* others wrote: whole transactions (script/linearization.py, deposit.py   *)
(* and bridge.py), the scripts OP_TX reports, and the states and           *)
(* statements that crates/protocol/src/lib.rs encodes.                     *)
(*                                                                         *)
(* A behaviour writes one string, field by field, as its format allows,    *)
(* under one reading: the size, the bytes a program insists on, and the    *)
(* slices it takes for fields.  Bytes of hashes, amounts and other data    *)
(* are whatever the writer needs them to be: they never disagree.          *)
(***************************************************************************)
EXTENDS Integers, Sequences, FiniteSets

CONSTANT MaxCount      \* no vector is written longer: every program wants fewer

ASSUME LayoutAssumption == MaxCount \in Nat

VARIABLES
  reading,       \* what a program takes the string for
  format,        \* what it is
  rest,          \* what is left to write of it
  fields,        \* the fields written: name, ordinal, start and length
  at,            \* the bytes written
  agrees         \* whether every byte is what the reading wants

vars == <<reading, format, rest, fields, at, agrees>>

-----------------------------------------------------------------------------
(* Formats                                                                 *)

Data(name, length) == [kind |-> "data", name |-> name, length |-> length]

Known(name, bytes) == [kind |-> "known", name |-> name, bytes |-> bytes]

String(name) == [kind |-> "string", name |-> name]

Vector(name, element) == [kind |-> "vector", name |-> name, element |-> element]

\* encode_compact_size, for the two ranges that occur.
CompactSize(n) ==
  IF n <= 252 THEN <<n>> ELSE <<253, n % 256, n \div 256>>

\* A transaction without its witnesses, the bytes its id is the hash of.
Input == <<Data("txid", 32), Data("vout", 4), String("scriptSig"), Data("sequence", 4)>>

TxOutput == <<Data("amount", 8), String("spk")>>

Transaction ==
  <<Data("version", 4), Vector("inputs", Input), Vector("outputs", TxOutput),
    Data("locktime", 4)>>

\* The SPKS selector, of the outputs a transaction spends.
SpentScripts(n) == [k \in 1 .. n |-> String("spk")]

Magic == <<85, 84, 88, 79, 76, 73, 78>>

Encoded_genesis_state ==
  <<Known("header", Magic \o <<1, 0>>), Data("root", 32)>>

Encoded_active_state ==
  <<Known("header", Magic \o <<1, 1>>), Data("bridge_id", 32), Data("root", 32)>>

\* STATEMENT_DOMAIN: 31 bytes, the same in both languages; numbers that no
\* other byte is.
Domain == [k \in 1 .. 31 |-> 1000 + k]

StatementPrefix(action) ==
  <<Known("header", Domain \o <<1, action>>), Data("bridge_id", 32),
    Data("bridge_prevout", 36), Data("old_root", 32), Data("new_root", 32),
    Data("old_backing", 8), Data("new_backing", 8)>>

EncodedDeposit_NoKey ==
  <<Data("outpoint", 36), Data("value", 8), Data("recipient_id", 4)>>

EncodedDeposit ==
  <<Data("outpoint", 36), Data("value", 8), Data("recipient_id", 4), Data("key", 32)>>

CollectionStatement ==
  StatementPrefix(1) \o EncodedDeposit \o EncodedDeposit

SettlementStatement ==
  StatementPrefix(2)
    \o <<Data("native_digest", 32), Data("scoped_digest", 32),
         Data("withdrawal_digest", 32), Data("withdrawal_amount", 8),
         String("withdrawal_destination")>>

-----------------------------------------------------------------------------
(* Readings                                                                *)

Bytes(offset, bytes) == {[offset |-> offset + k - 1, byte |-> bytes[k]] : k \in 1 .. Len(bytes)}

AllBytes(offsets, bytes) == UNION {Bytes(offset, bytes) : offset \in offsets}

Slice(name, ordinal, offset, length) ==
  [name |-> name, ordinal |-> ordinal, start |-> offset, length |-> length]

\* An input's empty scriptSig and its sequence.
Final == <<0, 253, 255, 255, 255>>

\* _check_common_transaction: version 2 and locktime 0.
CommonTransaction(size) ==
  Bytes(0, <<2, 0, 0, 0>>) \cup Bytes(size - 4, <<0, 0, 0, 0>>)

PrevoutSlices == {Slice("txid", 1, 5, 32), Slice("vout", 1, 37, 4)}

CheckOneInputTwoOutput_Loose ==
  CommonTransaction(137)
    \cup Bytes(4, <<1>>) \cup Bytes(41, Final \o <<2>>)

CheckOneInputTwoOutput ==
  CommonTransaction(137)
    \cup Bytes(4, <<1>>) \cup Bytes(41, Final \o <<2>>)
    \cup AllBytes({55, 98}, <<34>>)

OneInputTwoOutput ==
  [format |-> Transaction, size |-> 137, inputs |-> 1, outputs |-> 2,
   expects |-> CheckOneInputTwoOutput,
   takes |-> PrevoutSlices
     \cup {Slice("amount", 1, 47, 8), Slice("spk", 1, 56, 34),
           Slice("amount", 2, 90, 8), Slice("spk", 2, 99, 34)}]

\* The transitions of the linearization test program.
TwoInputThreeOutput ==
  [format |-> Transaction, size |-> 221, inputs |-> 2, outputs |-> 3,
   expects |-> CommonTransaction(221)
     \cup Bytes(4, <<2>>) \cup Bytes(41, Final) \cup Bytes(82, Final \o <<3>>)
     \cup AllBytes({96, 139, 182}, <<34>>),
   takes |-> PrevoutSlices
     \cup {Slice("amount", 1, 88, 8), Slice("spk", 1, 97, 34),
           Slice("spk", 2, 140, 34),
           Slice("amount", 3, 174, 8), Slice("spk", 3, 183, 34)}]

CollectionTransaction ==
  [format |-> Transaction, size |-> 303, inputs |-> 4, outputs |-> 3,
   expects |-> CommonTransaction(303)
     \cup Bytes(4, <<4>>) \cup AllBytes({41, 82, 123, 164}, Final)
     \cup Bytes(169, <<3>>) \cup AllBytes({178, 221, 264}, <<34>>),
   takes |-> PrevoutSlices
     \cup {Slice("amount", 1, 170, 8), Slice("spk", 1, 179, 34),
           Slice("spk", 2, 222, 34),
           Slice("amount", 3, 256, 8), Slice("spk", 3, 265, 34)}]

\* What the deposit and the bridge program read of a settlement.
SettlementSlices_OfThreeOutputs ==
  {Slice("amount", 1, 88, 8), Slice("spk", 1, 97, 34), Slice("spk", 3, 140, 34),
   Slice("amount", 4, 174, 8), Slice("spk", 4, 183, 34)}

SettlementSlices ==
  {Slice("amount", 1, 88, 8), Slice("spk", 1, 97, 34), Slice("spk", 3, 183, 34),
   Slice("amount", 4, 217, 8), Slice("spk", 4, 226, 34)}

SettlementTransaction ==
  [format |-> Transaction, size |-> 264, inputs |-> 2, outputs |-> 4,
   expects |-> CommonTransaction(264)
     \cup Bytes(4, <<2>>) \cup AllBytes({41, 82}, Final) \cup Bytes(87, <<4>>)
     \cup AllBytes({96, 139, 182, 225}, <<34>>),
   takes |-> PrevoutSlices \cup SettlementSlices]

\* _collection_context and _settlement_context; _deposit_collection_body
\* looks at the first script alone.
CollectionScripts ==
  [format |-> SpentScripts(4), size |-> 140,
   expects |-> AllBytes({0, 35, 70, 105}, <<34>>),
   takes |-> {Slice("spk", 1, 1, 34), Slice("spk", 2, 36, 34),
              Slice("spk", 3, 71, 34), Slice("spk", 4, 106, 34)}]

SettlementScripts ==
  [format |-> SpentScripts(2), size |-> 70,
   expects |-> AllBytes({0, 35}, <<34>>),
   takes |-> {Slice("spk", 1, 1, 34), Slice("spk", 2, 36, 34)}]

DepositScripts ==
  [format |-> SpentScripts(4), size |-> 140, expects |-> Bytes(0, <<34>>),
   takes |-> {Slice("spk", 1, 1, 34)}]

GenesisStateBytes ==
  [format |-> Encoded_genesis_state, size |-> 41, expects |-> Bytes(0, Magic \o <<1, 0>>),
   takes |-> {Slice("root", 1, 9, 32)}]

ActiveStateBytes ==
  [format |-> Encoded_active_state, size |-> 73, expects |-> Bytes(0, Magic \o <<1, 1>>),
   takes |-> {Slice("bridge_id", 1, 9, 32), Slice("root", 1, 41, 32)}]

HeaderSlices ==
  {Slice("bridge_id", 1, 33, 32), Slice("bridge_prevout", 1, 65, 36),
   Slice("old_root", 1, 101, 32), Slice("new_root", 1, 133, 32),
   Slice("old_backing", 1, 165, 8), Slice("new_backing", 1, 173, 8)}

CollectionStatementBytes ==
  [format |-> CollectionStatement, size |-> 341,
   expects |-> Bytes(0, Domain \o <<1, 1>>),
   takes |-> HeaderSlices \cup
     UNION {{Slice("outpoint", k, 101 + 80 * k, 36),
             Slice("value", k, 137 + 80 * k, 8),
             Slice("recipient_id", k, 145 + 80 * k, 4),
             Slice("key", k, 149 + 80 * k, 32)} : k \in 1 .. 2}]

SettlementStatementBytes ==
  [format |-> SettlementStatement, size |-> 320,
   expects |-> Bytes(0, Domain \o <<1, 2>>) \cup Bytes(285, <<34>>),
   takes |-> HeaderSlices \cup
     {Slice("withdrawal_amount", 1, 277, 8),
      Slice("withdrawal_destination", 1, 286, 34)}]

Readings ==
  {OneInputTwoOutput, TwoInputThreeOutput, CollectionTransaction,
   SettlementTransaction, CollectionScripts, SettlementScripts, DepositScripts,
   GenesisStateBytes, ActiveStateBytes, CollectionStatementBytes,
   SettlementStatementBytes}

\* What may be there when a program reads a string: any transaction, as many
\* scripts as inputs, any state the host encodes, any statement of the guest.
Families ==
  {{Transaction}, {SpentScripts(2)}, {SpentScripts(4)},
   {Encoded_genesis_state, Encoded_active_state},
   {CollectionStatement, SettlementStatement}}

-----------------------------------------------------------------------------
(* Writing                                                                 *)

\* Whether the bytes from an offset on are what the reading wants there.
Agree(offset, bytes) ==
  \A e \in reading.expects :
    e.offset \in offset .. offset + Len(bytes) - 1 =>
      e.byte = bytes[e.offset - offset + 1]

Named(name) == {f \in fields : f.name = name}

\* One more field of this name.
Field(name, start, length) ==
  fields \cup {Slice(name, Cardinality(Named(name)) + 1, start, length)}

\* The elements of a vector, one after the other.
Elements(n, element) ==
  [k \in 1 .. n * Len(element) |-> element[1 + ((k - 1) % Len(element))]]

Init ==
  /\ reading \in Readings
  /\ \E family \in Families : reading.format \in family /\ format \in family
  /\ rest = format
  /\ fields = {}
  /\ at = 0
  /\ agrees = TRUE

Starts(kind) == agrees /\ rest # <<>> /\ Head(rest).kind = kind

WriteData ==
  /\ Starts("data")
  /\ fields' = Field(Head(rest).name, at, Head(rest).length)
  /\ at' = at + Head(rest).length
  /\ rest' = Tail(rest)
  /\ UNCHANGED <<reading, format, agrees>>

WriteKnown ==
  /\ Starts("known")
  /\ fields' = Field(Head(rest).name, at, Len(Head(rest).bytes))
  /\ at' = at + Len(Head(rest).bytes)
  /\ agrees' = Agree(at, Head(rest).bytes)
  /\ rest' = Tail(rest)
  /\ UNCHANGED <<reading, format>>

WriteString ==
  /\ Starts("string")
  /\ \E n \in 0 .. reading.size - at :
       LET prefix == CompactSize(n)
       IN  /\ fields' = Field(Head(rest).name, at + Len(prefix), n)
           /\ at' = at + Len(prefix) + n
           /\ agrees' = Agree(at, prefix)
  /\ rest' = Tail(rest)
  /\ UNCHANGED <<reading, format>>

WriteVector ==
  /\ Starts("vector")
  /\ \E n \in 0 .. MaxCount :
       /\ LET count == CompactSize(n)
          IN  /\ fields' = Field(Head(rest).name, at, Len(count))
              /\ at' = at + Len(count)
              /\ agrees' = Agree(at, count)
       /\ rest' = Elements(n, Head(rest).element) \o Tail(rest)
  /\ UNCHANGED <<reading, format>>

Next == WriteData \/ WriteKnown \/ WriteString \/ WriteVector

Spec == Init /\ [][Next]_vars

-----------------------------------------------------------------------------
(* Properties                                                              *)

\* The program accepts the whole string.
Accepted == rest = <<>> /\ agrees /\ at = reading.size

\* bridge.py, deposit.py and linearization.py, every slice: in a string that
\* passes, whatever was chosen for its counts, lengths and data, each slice
\* the program takes is exactly the field it takes it for.
SlicesAreFields ==
  Accepted => reading.takes \subseteq fields

\* The field's bytes are all insisted on, and these.
Fixed(field, bytes) == Bytes(field.start, bytes) \subseteq reading.expects

Forms ==
  /\ \A f \in Named("version") : Fixed(f, <<2, 0, 0, 0>>)
  /\ \A f \in Named("scriptSig") : f.length = 0
  /\ \A f \in Named("sequence") : Fixed(f, <<253, 255, 255, 255>>)
  /\ \A f \in Named("locktime") : Fixed(f, <<0, 0, 0, 0>>)

\* linearization.py and deposit.py, the checks of a parent and an ancestor:
\* they leave one form (version 2, locktime 0, empty scriptSigs, sequence
\* 0xfffffffd, so many inputs and outputs, every script of 34 bytes), and of
\* a transaction of that form they insist on nothing else, so none is refused.
TransactionsHaveForm ==
  reading.format = Transaction /\ Accepted =>
    /\ Forms
    /\ Cardinality(Named("sequence")) = reading.inputs
    /\ Cardinality(Named("spk")) = reading.outputs
    /\ \A f \in Named("spk") : f.length = 34
    /\ \A e \in reading.expects : \A f \in fields :
         f.name \in {"txid", "vout", "amount", "spk"} =>
           e.offset \notin f.start .. f.start + f.length - 1

\* What the host, the guest and the leaf at input 0 put at the lengths.
Honest ==
  /\ format = reading.format
  /\ \A f \in Named("spk") \cup Named("withdrawal_destination") : f.length = 34

\* lib.rs, the encoders, and bridge.py, the sizes and headers: a state or a
\* statement that is encoded for the transition at hand, and the scripts of a
\* well-formed transition, are never refused, at any byte or for their size.
HonestNeverRefused ==
  Honest /\ format # Transaction =>
    agrees /\ (rest = <<>> => at = reading.size)

=============================================================================
