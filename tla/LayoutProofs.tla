---------------------------- MODULE LayoutProofs ----------------------------
(***************************************************************************)
(* Proofs about Layout, for any MaxCount.                                  *)
(*                                                                         *)
(* A reading of transactions insists on the counts and lengths of one form *)
(* of n inputs and m outputs, and the proofs are for any n and m below     *)
(* 253: as far as the bytes agree, what is written is at one of the form's *)
(* stages, and the only end with as many bytes as the program wants is the *)
(* form's.  The other formats have no vectors, so each has a plan, the     *)
(* slices its items are to be, and is written along it; the header of      *)
(* another state or statement disagrees at its first item.                 *)
(***************************************************************************)
EXTENDS Layout, FiniteSetTheorems, FunctionTheorems, SequenceTheorems, TLAPS

-----------------------------------------------------------------------------
(* Sequences and counting                                                  *)

\* The head and the tail of a sequence in two parts are those of the first.
LEMMA FirstPart ==
  ASSUME NEW S, NEW u \in Seq(S), NEW t \in Seq(S), u # <<>>
  PROVE  /\ u \o t # <<>> /\ u \o t \in Seq(S)
         /\ Head(u \o t) = Head(u)
         /\ Tail(u \o t) = Tail(u) \o t
<1>1. /\ u \o t \in Seq(S)
      /\ Len(u \o t) = Len(u) + Len(t)
      /\ \A i \in 1 .. Len(u) + Len(t) :
           (u \o t)[i] = IF i <= Len(u) THEN u[i] ELSE t[i - Len(u)]
  BY ConcatProperties
<1>2. Len(u) \in Nat \ {0} /\ Len(t) \in Nat
  BY EmptySeq, LenProperties, SeqEqual
<1>3. u \o t # <<>> /\ Head(u \o t) = Head(u)
  BY <1>1, <1>2
<1>4. /\ Tail(u) \in Seq(S) /\ Len(Tail(u)) = Len(u) - 1
      /\ \A i \in 1 .. Len(Tail(u)) : Tail(u)[i] = u[i + 1]
  BY HeadTailProperties
<1>5. /\ Tail(u \o t) \in Seq(S) /\ Len(Tail(u \o t)) = Len(u \o t) - 1
      /\ \A i \in 1 .. Len(Tail(u \o t)) : Tail(u \o t)[i] = (u \o t)[i + 1]
  BY <1>1, <1>3, HeadTailProperties
<1>6. /\ Tail(u) \o t \in Seq(S) /\ Len(Tail(u) \o t) = Len(u) - 1 + Len(t)
      /\ \A i \in 1 .. Len(u) - 1 + Len(t) :
           (Tail(u) \o t)[i] = IF i <= Len(u) - 1 THEN Tail(u)[i] ELSE t[i - (Len(u) - 1)]
  BY <1>4, ConcatProperties
<1>7. \A i \in 1 .. Len(Tail(u \o t)) : Tail(u \o t)[i] = (Tail(u) \o t)[i]
  BY <1>1, <1>2, <1>4, <1>5, <1>6
<1>8. Tail(u \o t) = Tail(u) \o t
  BY <1>1, <1>2, <1>5, <1>6, <1>7, SeqEqual
<1> QED
  BY <1>1, <1>3, <1>8

\* A length more leaves the same remainder.
LEMMA RemainderOfSum ==
  ASSUME NEW x \in Nat, NEW y \in Nat \ {0}
  PROVE  (x + y) % y = x % y
<1> DEFINE r == x % y
           q == x \div y
           s == (x + y) % y
           p == (x + y) \div y
<1>1. r \in 0 .. y - 1 /\ q \in Int /\ x = y * q + r
  OBVIOUS
<1>2. s \in 0 .. y - 1 /\ p \in Int /\ x + y = y * p + s
  OBVIOUS
<1> HIDE DEF r, q, s, p
<1>3. r - s = y * (p - q - 1)
  BY <1>1, <1>2
<1>4. p - q - 1 = 0
  <2>1. p - q - 1 \in Int /\ r - s < y /\ r - s > -y
    BY <1>1, <1>2
  <2>2. \A z \in Int : (z >= 1 => y * z >= y) /\ (z <= -1 => y * z <= -y)
    OBVIOUS
  <2> DEFINE z == p - q - 1
  <2>3. z \in Int /\ r - s = y * z
    BY <1>3, <2>1
  <2>4. (z >= 1 => y * z >= y) /\ (z <= -1 => y * z <= -y)
    BY <2>2, <2>3
  <2> HIDE DEF z
  <2>5. ~ (z >= 1) /\ ~ (z <= -1)
    BY <2>1, <2>3, <2>4
  <2>6. z = 0
    BY <2>3, <2>5
  <2> QED
    BY <2>6 DEF z
<1>5. r = s
  BY <1>1, <1>2, <1>3, <1>4
<1> QED
  BY <1>5 DEF r, s

\* The elements of a vector are its first and then the others.
LEMMA ElementsAre ==
  ASSUME NEW S, NEW e \in Seq(S), NEW n \in Nat, Len(e) > 0
  PROVE  /\ Elements(n, e) \in Seq(S)
         /\ n = 0 => Elements(n, e) = <<>>
         /\ n > 0 => Elements(n, e) = e \o Elements(n - 1, e)
<1>1. Len(e) \in Nat \ {0} /\ \A i \in 1 .. Len(e) : e[i] \in S
  BY LenProperties, ElementOfSeq
<1>2. ASSUME NEW k \in Nat
      PROVE  /\ Elements(k, e) \in Seq(S) /\ Len(Elements(k, e)) = k * Len(e)
             /\ \A i \in 1 .. k * Len(e) :
                  Elements(k, e)[i] = e[1 + ((i - 1) % Len(e))]
  <2>1. k * Len(e) \in Nat
    BY <1>1
  <2>2. \A i \in 1 .. k * Len(e) : e[1 + ((i - 1) % Len(e))] \in S
    BY <1>1, <2>1
  <2> QED
    BY <2>1, <2>2 DEF Elements
<1>3. n = 0 => Elements(n, e) = <<>>
  <2> SUFFICES ASSUME n = 0 PROVE Elements(n, e) = <<>>
    OBVIOUS
  <2>1. Elements(n, e) \in Seq(S) /\ Len(Elements(n, e)) = 0
    BY <1>1, <1>2
  <2> QED
    BY <2>1, EmptySeq, SeqEqual
<1>4. ASSUME n > 0
      PROVE  Elements(n, e) = e \o Elements(n - 1, e)
  <2>1. /\ n - 1 \in Nat /\ n * Len(e) \in Nat
        /\ (n - 1) * Len(e) = n * Len(e) - Len(e)
    BY <1>1, <1>4
  <2>2. /\ Elements(n - 1, e) \in Seq(S) /\ Len(Elements(n - 1, e)) = (n - 1) * Len(e)
        /\ \A i \in 1 .. (n - 1) * Len(e) :
             Elements(n - 1, e)[i] = e[1 + ((i - 1) % Len(e))]
    BY <1>2, <2>1
  <2>3. /\ e \o Elements(n - 1, e) \in Seq(S)
        /\ Len(e \o Elements(n - 1, e)) = n * Len(e)
        /\ \A i \in 1 .. n * Len(e) : (e \o Elements(n - 1, e))[i] =
             IF i <= Len(e) THEN e[i] ELSE Elements(n - 1, e)[i - Len(e)]
    <3>1. Len(e) + Len(Elements(n - 1, e)) = n * Len(e)
      <4>1. \A l, x, y \in Int : x = y - l => l + x = y
        OBVIOUS
      <4>2. Len(e) \in Int /\ n * Len(e) \in Int /\ (n - 1) * Len(e) \in Int
        BY <1>1, <2>1
      <4>3. Len(Elements(n - 1, e)) = n * Len(e) - Len(e)
        BY <2>1, <2>2, Zenon
      <4>4. Len(Elements(n - 1, e)) \in Int
        BY <2>2, <4>2, Zenon
      <4> QED
        BY <4>2, <4>3, <4>4, SMT
    <3> QED
      BY <2>2, <3>1, ConcatProperties
  <2>4. ASSUME NEW i \in 1 .. n * Len(e)
        PROVE  Elements(n, e)[i] = (e \o Elements(n - 1, e))[i]
    <3>0. Elements(n, e)[i] = e[1 + ((i - 1) % Len(e))]
      BY <1>2
    <3>1. CASE i <= Len(e)
      <4>1. (i - 1) % Len(e) = i - 1
        BY <1>1, <3>1
      <4> QED
        BY <2>3, <3>0, <3>1, <4>1
    <3>2. CASE i > Len(e)
      <4>1. i - Len(e) \in 1 .. (n - 1) * Len(e)
        BY <1>1, <2>1, <3>2
      <4>2. (e \o Elements(n - 1, e))[i] = e[1 + ((i - Len(e) - 1) % Len(e))]
        BY <1>1, <2>2, <2>3, <3>2, <4>1
      <4>3. i - Len(e) - 1 \in Nat /\ (i - Len(e) - 1) + Len(e) = i - 1
        BY <1>1, <3>2
      <4>4. (i - 1) % Len(e) = (i - Len(e) - 1) % Len(e)
        BY <1>1, <4>3, RemainderOfSum
      <4> QED
        BY <3>0, <4>2, <4>4
    <3>3. i <= Len(e) \/ i > Len(e)
      BY <1>1, <2>1
    <3> QED
      BY <3>1, <3>2, <3>3
  <2>5. Elements(n, e) \in Seq(S) /\ Len(Elements(n, e)) = n * Len(e)
    BY <1>2
  <2> QED
    BY <2>3, <2>4, <2>5, SeqEqual
<1> QED
  BY <1>2, <1>3, <1>4

\* Fields with the ordinals from 1 to n are n fields.
LEMMA OrdinalsCount ==
  ASSUME NEW F, NEW n \in Nat,
         \A f \in F : f.ordinal \in 1 .. n,
         \A i \in 1 .. n : \E f \in F : f.ordinal = i,
         \A f, g \in F : f.ordinal = g.ordinal => f = g
  PROVE  IsFiniteSet(F) /\ Cardinality(F) = n
<1> DEFINE ofOrdinal == [i \in 1 .. n |-> CHOOSE f \in F : f.ordinal = i]
<1>1. \A i \in 1 .. n : ofOrdinal[i] \in F /\ ofOrdinal[i].ordinal = i
  OBVIOUS
<1>2. ofOrdinal \in Bijection(1 .. n, F)
  <2>1. ofOrdinal \in [1 .. n -> F]
    BY <1>1
  <2>2. \A i, j \in 1 .. n : i # j => ofOrdinal[i] # ofOrdinal[j]
    BY <1>1
  <2>3. \A f \in F : \E i \in 1 .. n : ofOrdinal[i] = f
    BY <1>1
  <2> HIDE DEF ofOrdinal
  <2> QED
    BY <2>1, <2>2, <2>3 DEF Bijection, Injection, Surjection, IsInjective
<1>3. ExistsBijection(1 .. n, F)
  BY <1>2 DEF ExistsBijection
<1>4. IsFiniteSet(1 .. n) /\ Cardinality(1 .. n) = n
  BY FS_Interval
<1> QED
  BY <1>3, <1>4, FS_Bijection

-----------------------------------------------------------------------------
(* Writing one field                                                       *)

\* A step that writes data adds one field and agrees.
LEMMA DataStep ==
  ASSUME NEW name, NEW length, rest # <<>>, Head(rest) = Data(name, length), Next
  PROVE  /\ agrees /\ agrees' = agrees
         /\ fields' = Field(name, at, length)
         /\ at' = at + length
         /\ rest' = Tail(rest)
         /\ UNCHANGED <<reading, format>>
<1>1. /\ Head(rest).kind = "data" /\ Head(rest).name = name
      /\ Head(rest).length = length
  BY DEF Data
<1> QED
  BY <1>1 DEF Next, WriteData, WriteKnown, WriteString, WriteVector, Starts

\* A step that writes known bytes adds one field, and agrees if the bytes do.
LEMMA KnownStep ==
  ASSUME NEW name, NEW bytes, rest # <<>>, Head(rest) = Known(name, bytes), Next
  PROVE  /\ agrees /\ agrees' = Agree(at, bytes)
         /\ fields' = Field(name, at, Len(bytes))
         /\ at' = at + Len(bytes)
         /\ rest' = Tail(rest)
         /\ UNCHANGED <<reading, format>>
<1>1. /\ Head(rest).kind = "known" /\ Head(rest).name = name
      /\ Head(rest).bytes = bytes
  BY DEF Known
<1> QED
  BY <1>1 DEF Next, WriteData, WriteKnown, WriteString, WriteVector, Starts

\* A step that writes a string chooses its length.
LEMMA StringStep ==
  ASSUME NEW name, rest # <<>>, Head(rest) = String(name), Next,
         reading.size \in Int, at \in Int
  PROVE  /\ agrees
         /\ \E n \in Nat :
              /\ agrees' = Agree(at, CompactSize(n))
              /\ fields' = Field(name, at + Len(CompactSize(n)), n)
              /\ at' = at + Len(CompactSize(n)) + n
         /\ rest' = Tail(rest)
         /\ UNCHANGED <<reading, format>>
<1>1. Head(rest).kind = "string" /\ Head(rest).name = name
  BY DEF String
<1>2. WriteString
  BY <1>1 DEF Next, WriteData, WriteKnown, WriteVector, Starts
<1>3. PICK n \in 0 .. reading.size - at :
        /\ fields' = Field(Head(rest).name, at + Len(CompactSize(n)), n)
        /\ at' = at + Len(CompactSize(n)) + n
        /\ agrees' = Agree(at, CompactSize(n))
  BY <1>2 DEF WriteString
<1>4. n \in Nat
  BY <1>3
<1> QED
  BY <1>1, <1>2, <1>3, <1>4 DEF WriteString, Starts

\* A step that writes a vector chooses its count and lists its elements.
LEMMA VectorStep ==
  ASSUME NEW name, NEW element, rest # <<>>, Head(rest) = Vector(name, element), Next
  PROVE  /\ agrees
         /\ \E n \in Nat :
              /\ agrees' = Agree(at, CompactSize(n))
              /\ fields' = Field(name, at, Len(CompactSize(n)))
              /\ at' = at + Len(CompactSize(n))
              /\ rest' = Elements(n, element) \o Tail(rest)
         /\ UNCHANGED <<reading, format>>
<1>1. /\ Head(rest).kind = "vector" /\ Head(rest).name = name
      /\ Head(rest).element = element
  BY DEF Vector
<1>2. WriteVector
  BY <1>1 DEF Next, WriteData, WriteKnown, WriteString, Starts
<1>3. PICK n \in 0 .. MaxCount :
        /\ agrees' = Agree(at, CompactSize(n))
        /\ fields' = Field(Head(rest).name, at, Len(CompactSize(n)))
        /\ at' = at + Len(CompactSize(n))
        /\ rest' = Elements(n, Head(rest).element) \o Tail(rest)
  BY <1>2 DEF WriteVector
<1>4. n \in Nat
  BY <1>3
<1> QED
  BY <1>1, <1>2, <1>3, <1>4 DEF WriteVector, Starts

\* The reading wants a byte at an offset.
Wants(o, b) == [offset |-> o, byte |-> b] \in reading.expects

\* A byte below 253 that the reading wants for a count or length settles it.
LEMMA SizePinned ==
  ASSUME NEW n \in Nat, NEW b \in 0 .. 252, NEW o \in Int,
         Wants(o, b),
         Agree(o, CompactSize(n))
  PROVE  n = b /\ CompactSize(n) = <<b>>
<1>1. Len(CompactSize(n)) >= 1 /\ Len(CompactSize(n)) \in Int
  BY DEF CompactSize
<1>2. CompactSize(n)[1] = b
  <2> DEFINE e == [offset |-> o, byte |-> b]
  <2>1. e.offset = o /\ e.byte = b /\ e \in reading.expects
    BY DEF Wants
  <2> HIDE DEF e
  <2>2. e.offset \in o .. o + Len(CompactSize(n)) - 1
    BY <1>1, <2>1
  <2> QED
    BY <2>1, <2>2 DEF Agree
<1>3. n <= 252
  BY <1>2 DEF CompactSize
<1> QED
  BY <1>2, <1>3 DEF CompactSize

-----------------------------------------------------------------------------
(* The form of a transaction                                               *)

TxNames ==
  {"version", "inputs", "txid", "vout", "scriptSig", "sequence", "outputs",
   "amount", "spk", "locktime"}

\* Where the i-th field of a name is, in a transaction of n inputs and m
\* outputs with empty scriptSigs and scripts of 34 bytes.
TxStart(n, m, name, i) ==
  CASE name = "version" -> 0
    [] name = "inputs" -> 4
    [] name = "txid" -> 41 * i - 36
    [] name = "vout" -> 41 * i - 4
    [] name = "scriptSig" -> 41 * i + 1
    [] name = "sequence" -> 41 * i + 1
    [] name = "outputs" -> 5 + 41 * n
    [] name = "amount" -> 41 * n + 43 * i - 37
    [] name = "spk" -> 41 * n + 43 * i - 28
    [] name = "locktime" -> 6 + 41 * n + 43 * m

TxLength(name) ==
  CASE name \in {"version", "vout", "sequence", "locktime"} -> 4
    [] name \in {"inputs", "outputs"} -> 1
    [] name = "txid" -> 32
    [] name = "scriptSig" -> 0
    [] name = "amount" -> 8
    [] name = "spk" -> 34

TxField(n, m, name, i) == Slice(name, i, TxStart(n, m, name, i), TxLength(name))

\* So many fields of every name.
TxFields(n, m, c) ==
  UNION {{TxField(n, m, name, i) : i \in 1 .. c[name]} : name \in TxNames}

\* The fields of one name, and how many they are.
LEMMA TxNamed ==
  ASSUME NEW n, NEW m, NEW c \in [TxNames -> Nat], fields = TxFields(n, m, c),
         NEW name \in TxNames
  PROVE  /\ Named(name) = {TxField(n, m, name, i) : i \in 1 .. c[name]}
         /\ Cardinality(Named(name)) = c[name]
<1>1. \A other, i : TxField(n, m, other, i).name = other
                    /\ TxField(n, m, other, i).ordinal = i
  BY DEF TxField, Slice
<1>2. Named(name) = {TxField(n, m, name, i) : i \in 1 .. c[name]}
  BY <1>1 DEF Named, TxFields
<1>3. Cardinality(Named(name)) = c[name]
  <2>1. c[name] \in Nat
    OBVIOUS
  <2>2. \A f \in Named(name) : f.ordinal \in 1 .. c[name]
    BY <1>1, <1>2
  <2>3. \A i \in 1 .. c[name] : \E f \in Named(name) : f.ordinal = i
    BY <1>1, <1>2
  <2>4. \A f, g \in Named(name) : f.ordinal = g.ordinal => f = g
    BY <1>1, <1>2
  <2> QED
    BY <2>1, <2>2, <2>3, <2>4, OrdinalsCount
<1> QED
  BY <1>2, <1>3

\* The fields of the form, and the next of a name.
LEMMA TxFieldAdded ==
  ASSUME NEW n, NEW m, NEW c \in [TxNames -> Nat], fields = TxFields(n, m, c),
         NEW name \in TxNames, NEW d, d[name] = c[name] + 1,
         \A other \in TxNames \ {name} : d[other] = c[other]
  PROVE  Field(name, TxStart(n, m, name, c[name] + 1), TxLength(name))
           = TxFields(n, m, d)
<1>1. /\ Field(name, TxStart(n, m, name, c[name] + 1), TxLength(name))
           = fields \cup {TxField(n, m, name, c[name] + 1)}
  BY TxNamed DEF Field, TxField
<1>2. d[name] = c[name] + 1 /\ \A other \in TxNames \ {name} : d[other] = c[other]
  OBVIOUS
<1>3. 1 .. d[name] = (1 .. c[name]) \cup {c[name] + 1}
  BY <1>2
<1>4. TxFields(n, m, d) = TxFields(n, m, c) \cup {TxField(n, m, name, c[name] + 1)}
  <2>1. ASSUME NEW f \in TxFields(n, m, d)
        PROVE  f \in TxFields(n, m, c) \cup {TxField(n, m, name, c[name] + 1)}
    <3>1. PICK other \in TxNames : \E i \in 1 .. d[other] : f = TxField(n, m, other, i)
      BY DEF TxFields
    <3> QED
      BY <1>2, <1>3, <3>1 DEF TxFields
  <2>2. ASSUME NEW f \in TxFields(n, m, c)
        PROVE  f \in TxFields(n, m, d)
    <3>1. PICK other \in TxNames : \E i \in 1 .. c[other] : f = TxField(n, m, other, i)
      BY DEF TxFields
    <3> QED
      BY <1>2, <1>3, <3>1 DEF TxFields
  <2>3. TxField(n, m, name, c[name] + 1) \in TxFields(n, m, d)
    BY <1>2, <1>3 DEF TxFields
  <2> QED
    BY <2>1, <2>2, <2>3
<1> QED
  BY <1>1, <1>4

\* How many fields of every name there are, in the order of TxNames: of inputs
\* t txids, o vouts, s scriptSigs and q sequences, of outputs a amounts and p
\* scripts.
Count(v, i, t, o, s, q, u, a, p, l) ==
  [version |-> v, inputs |-> i, txid |-> t, vout |-> o, scriptSig |-> s,
   sequence |-> q, outputs |-> u, amount |-> a, spk |-> p, locktime |-> l]

\* A count of fields is a number for every name.
LEMMA CountTyped ==
  ASSUME NEW v \in Nat, NEW i \in Nat, NEW t \in Nat, NEW o \in Nat, NEW s \in Nat,
         NEW q \in Nat, NEW u \in Nat, NEW a \in Nat, NEW p \in Nat, NEW l \in Nat
  PROVE  Count(v, i, t, o, s, q, u, a, p, l) \in [TxNames -> Nat]
BY DEF Count, TxNames

\* What a reading of transactions insists on for n inputs and m outputs.
Pinned(n, m) ==
  /\ Bytes(0, <<2, 0, 0, 0>>) \subseteq reading.expects
  /\ Wants(4, n)
  /\ \A k \in 1 .. n :
       /\ Wants(41 * k, 0)
       /\ Bytes(41 * k + 1, <<253, 255, 255, 255>>) \subseteq reading.expects
  /\ Wants(5 + 41 * n, m)
  /\ \A j \in 1 .. m :
       Wants(41 * n + 43 * j - 29, 34)
  /\ Bytes(6 + 41 * n + 43 * m, <<0, 0, 0, 0>>) \subseteq reading.expects

\* It insists on nothing else.
OnlyPinned(n, m) ==
  \A e \in reading.expects :
    \/ e.offset \in 0 .. 4
    \/ \E k \in 1 .. n : e.offset \in 41 * k .. 41 * k + 4
    \/ e.offset = 5 + 41 * n
    \/ \E j \in 1 .. m : e.offset = 41 * n + 43 * j - 29
    \/ e.offset \in 6 + 41 * n + 43 * m .. 9 + 41 * n + 43 * m

ReadsTransaction(n, m) ==
  /\ n \in 0 .. 252 /\ m \in 0 .. 252
  /\ reading.inputs = n /\ reading.outputs = m
  /\ reading.size = 10 + 41 * n + 43 * m
  /\ Pinned(n, m) /\ OnlyPinned(n, m)
  /\ reading.takes \subseteq TxFields(n, m, Count(1, 1, n, n, n, n, 1, m, m, 1))

-----------------------------------------------------------------------------
(* How far a transaction is written                                        *)

TxItems ==
  {Data("version", 4), Vector("inputs", Input), Data("txid", 32), Data("vout", 4),
   String("scriptSig"), Data("sequence", 4), Vector("outputs", TxOutput),
   Data("amount", 8), String("spk"), Data("locktime", 4)}

Stage(n, m, left, position, count) ==
  rest = left /\ at = position /\ fields = TxFields(n, m, count)

InputsLeft(k) == Elements(k, Input) \o <<Vector("outputs", TxOutput), Data("locktime", 4)>>

OutputsLeft(j) == Elements(j, TxOutput) \o <<Data("locktime", 4)>>

AtVersion(n, m) == Stage(n, m, Transaction, 0, Count(0, 0, 0, 0, 0, 0, 0, 0, 0, 0))

AtInputs(n, m) ==
  Stage(n, m, <<Vector("inputs", Input), Vector("outputs", TxOutput), Data("locktime", 4)>>,
        4, Count(1, 0, 0, 0, 0, 0, 0, 0, 0, 0))

AtInput(n, m, k) ==
  Stage(n, m, InputsLeft(n - k), 5 + 41 * k, Count(1, 1, k, k, k, k, 0, 0, 0, 0))

AtVout(n, m, k) ==
  Stage(n, m, <<Data("vout", 4), String("scriptSig"), Data("sequence", 4)>>
                \o InputsLeft(n - k),
        41 * k - 4, Count(1, 1, k, k - 1, k - 1, k - 1, 0, 0, 0, 0))

AtScriptSig(n, m, k) ==
  Stage(n, m, <<String("scriptSig"), Data("sequence", 4)>> \o InputsLeft(n - k),
        41 * k, Count(1, 1, k, k, k - 1, k - 1, 0, 0, 0, 0))

AtSequence(n, m, k) ==
  Stage(n, m, <<Data("sequence", 4)>> \o InputsLeft(n - k),
        41 * k + 1, Count(1, 1, k, k, k, k - 1, 0, 0, 0, 0))

AtOutput(n, m, j) ==
  Stage(n, m, OutputsLeft(m - j), 6 + 41 * n + 43 * j,
        Count(1, 1, n, n, n, n, 1, j, j, 0))

AtScript(n, m, j) ==
  Stage(n, m, <<String("spk")>> \o OutputsLeft(m - j), 41 * n + 43 * j - 29,
        Count(1, 1, n, n, n, n, 1, j, j - 1, 0))

AtEnd(n, m) ==
  Stage(n, m, <<>>, 10 + 41 * n + 43 * m, Count(1, 1, n, n, n, n, 1, m, m, 1))

TxStage(n, m) ==
  \/ AtVersion(n, m) \/ AtInputs(n, m)
  \/ \E k \in 0 .. n : AtInput(n, m, k)
  \/ \E k \in 1 .. n : AtVout(n, m, k) \/ AtScriptSig(n, m, k) \/ AtSequence(n, m, k)
  \/ \E j \in 0 .. m : AtOutput(n, m, j)
  \/ \E j \in 1 .. m : AtScript(n, m, j)
  \/ AtEnd(n, m)

\* The field that is next is where the form has it.
LEMMA NextField ==
  ASSUME NEW n, NEW m, NEW left, NEW position, NEW c \in [TxNames -> Nat],
         Stage(n, m, left, position, c), NEW name \in TxNames,
         NEW start, start = TxStart(n, m, name, c[name] + 1),
         NEW length, length = TxLength(name),
         fields' = Field(name, start, length),
         NEW d, d[name] = c[name] + 1,
         \A other \in TxNames \ {name} : d[other] = c[other]
  PROVE  fields' = TxFields(n, m, d)
<1>1. fields = TxFields(n, m, c)
  BY DEF Stage
<1>2. Field(name, TxStart(n, m, name, c[name] + 1), TxLength(name))
        = TxFields(n, m, d)
  BY <1>1, TxFieldAdded
<1> QED
  BY <1>2

\* A vector's element is a sequence of items, and not empty.
LEMMA ElementItems ==
  ASSUME NEW e \in {Input, TxOutput}
  PROVE  e \in Seq(TxItems) /\ Len(e) > 0
<1>1. Input \in Seq(TxItems) /\ Len(Input) > 0
  BY DEF Input, TxItems
<1>2. TxOutput \in Seq(TxItems) /\ Len(TxOutput) > 0
  BY DEF TxOutput, TxItems
<1> QED
  BY <1>1, <1>2

\* What is left of the inputs and the outputs are sequences of items.
LEMMA LeftTyped ==
  ASSUME NEW k \in Nat
  PROVE  /\ \A e \in {Input, TxOutput} :
              /\ Elements(k, e) \in Seq(TxItems)
              /\ k = 0 => Elements(k, e) = <<>>
              /\ k > 0 => Elements(k, e) = e \o Elements(k - 1, e)
         /\ InputsLeft(k) \in Seq(TxItems) /\ OutputsLeft(k) \in Seq(TxItems)
<1>1. ASSUME NEW e \in {Input, TxOutput}
      PROVE  /\ Elements(k, e) \in Seq(TxItems)
             /\ k = 0 => Elements(k, e) = <<>>
             /\ k > 0 => Elements(k, e) = e \o Elements(k - 1, e)
  <2>1. e \in Seq(TxItems) /\ Len(e) > 0
    BY ElementItems
  <2> QED
    BY <2>1, ElementsAre
<1>2. /\ <<Vector("outputs", TxOutput), Data("locktime", 4)>> \in Seq(TxItems)
      /\ <<Data("locktime", 4)>> \in Seq(TxItems)
  BY DEF TxItems
<1> QED
  BY <1>1, <1>2, ConcatProperties DEF InputsLeft, OutputsLeft

\* With no input left the outputs are next; otherwise an input is.
LEMMA InputsLeftAre ==
  ASSUME NEW k \in Nat
  PROVE  /\ k = 0 => InputsLeft(k) = <<Vector("outputs", TxOutput), Data("locktime", 4)>>
         /\ k > 0 => InputsLeft(k) = Input \o InputsLeft(k - 1)
<1> DEFINE tail == <<Vector("outputs", TxOutput), Data("locktime", 4)>>
<1>1. tail \in Seq(TxItems)
  BY DEF TxItems
<1>2. ASSUME k = 0 PROVE InputsLeft(k) = tail
  <2>1. Elements(k, Input) = <<>>
    BY <1>2, LeftTyped, ElementItems
  <2> HIDE DEF tail
  <2> QED
    BY <1>1, <2>1, ConcatEmptySeq DEF InputsLeft, tail
<1>3. ASSUME k > 0 PROVE InputsLeft(k) = Input \o InputsLeft(k - 1)
  <2>1. k - 1 \in Nat
    BY <1>3
  <2>2. Elements(k, Input) = Input \o Elements(k - 1, Input)
    BY <1>3, LeftTyped, ElementItems
  <2>3. Elements(k - 1, Input) \in Seq(TxItems) /\ Input \in Seq(TxItems)
    BY <2>1, LeftTyped, ElementItems
  <2> HIDE DEF tail
  <2>4. (Input \o Elements(k - 1, Input)) \o tail = Input \o (Elements(k - 1, Input) \o tail)
    BY <1>1, <2>3, ConcatAssociative
  <2> QED
    BY <2>2, <2>4 DEF InputsLeft, tail
<1> QED
  BY <1>2, <1>3

\* With no output left the locktime is next; otherwise an output is.
LEMMA OutputsLeftAre ==
  ASSUME NEW k \in Nat
  PROVE  /\ k = 0 => OutputsLeft(k) = <<Data("locktime", 4)>>
         /\ k > 0 => OutputsLeft(k) = TxOutput \o OutputsLeft(k - 1)
<1> DEFINE tail == <<Data("locktime", 4)>>
<1>1. tail \in Seq(TxItems)
  BY DEF TxItems
<1>2. ASSUME k = 0 PROVE OutputsLeft(k) = tail
  <2>1. Elements(k, TxOutput) = <<>>
    BY <1>2, LeftTyped, ElementItems
  <2> HIDE DEF tail
  <2> QED
    BY <1>1, <2>1, ConcatEmptySeq DEF OutputsLeft, tail
<1>3. ASSUME k > 0 PROVE OutputsLeft(k) = TxOutput \o OutputsLeft(k - 1)
  <2>1. k - 1 \in Nat
    BY <1>3
  <2>2. Elements(k, TxOutput) = TxOutput \o Elements(k - 1, TxOutput)
    BY <1>3, LeftTyped, ElementItems
  <2>3. Elements(k - 1, TxOutput) \in Seq(TxItems) /\ TxOutput \in Seq(TxItems)
    BY <2>1, LeftTyped, ElementItems
  <2> HIDE DEF tail
  <2>4. (TxOutput \o Elements(k - 1, TxOutput)) \o tail
          = TxOutput \o (Elements(k - 1, TxOutput) \o tail)
    BY <1>1, <2>3, ConcatAssociative
  <2> QED
    BY <2>2, <2>4 DEF OutputsLeft, tail
<1> QED
  BY <1>2, <1>3

-----------------------------------------------------------------------------
(* From one stage to the next                                              *)

\* After the version come the inputs.
LEMMA FromVersion ==
  ASSUME NEW n \in Nat, NEW m \in Nat, AtVersion(n, m), Next
  PROVE  AtInputs(n, m)'
<1> DEFINE c == Count(0, 0, 0, 0, 0, 0, 0, 0, 0, 0)
           d == Count(1, 0, 0, 0, 0, 0, 0, 0, 0, 0)
<1>1. /\ rest # <<>> /\ Head(rest) = Data("version", 4) /\ at = 0
      /\ Tail(rest) = <<Vector("inputs", Input), Vector("outputs", TxOutput),
                        Data("locktime", 4)>>
  BY DEF AtVersion, Stage, Transaction
<1>2. /\ fields' = Field("version", at, 4) /\ at' = at + 4 /\ rest' = Tail(rest)
  BY <1>1, DataStep
<1>3. fields' = TxFields(n, m, d)
  <2>1. c \in [TxNames -> Nat] /\ Stage(n, m, Transaction, 0, c)
    BY CountTyped DEF AtVersion
  <2>2. at = TxStart(n, m, "version", c["version"] + 1) /\ 4 = TxLength("version")
    BY <1>1 DEF TxStart, TxLength, Count
  <2>3. d["version"] = c["version"] + 1
        /\ \A other \in TxNames \ {"version"} : d[other] = c[other]
    BY DEF Count, TxNames
  <2>4. "version" \in TxNames
    BY DEF TxNames
  <2> HIDE DEF c, d
  <2> QED
    BY <1>2, <2>1, <2>2, <2>3, <2>4, NextField
<1> QED
  BY <1>1, <1>2, <1>3 DEF AtInputs, Stage

\* The count that the form has is the only one that agrees.
LEMMA FromInputs ==
  ASSUME NEW n \in Nat, NEW m \in Nat, ReadsTransaction(n, m), AtInputs(n, m), Next, agrees'
  PROVE  AtInput(n, m, 0)'
<1> DEFINE c == Count(1, 0, 0, 0, 0, 0, 0, 0, 0, 0)
           d == Count(1, 1, 0, 0, 0, 0, 0, 0, 0, 0)
           left == <<Vector("outputs", TxOutput), Data("locktime", 4)>>
<1>0. n \in 0 .. 252 /\ m \in 0 .. 252
  BY DEF ReadsTransaction
<1>1. /\ rest # <<>> /\ Head(rest) = Vector("inputs", Input) /\ at = 4
      /\ Tail(rest) = left
  BY DEF AtInputs, Stage
<1>2. PICK k \in Nat : /\ agrees' = Agree(at, CompactSize(k))
                       /\ fields' = Field("inputs", at, Len(CompactSize(k)))
                       /\ at' = at + Len(CompactSize(k))
                       /\ rest' = Elements(k, Input) \o Tail(rest)
  BY <1>1, VectorStep
<1>3. k = n /\ CompactSize(k) = <<n>>
  <2>1. Wants(at, n) /\ at \in Int
    BY <1>1 DEF ReadsTransaction, Pinned
  <2>2. Agree(at, CompactSize(k))
    BY <1>2
  <2> QED
    BY <1>0, <2>1, <2>2, SizePinned
<1>4. fields' = Field("inputs", at, 1) /\ at' = at + 1
  <2>1. Len(CompactSize(k)) = 1
    BY <1>3
  <2> QED
    BY <1>2, <2>1
<1>5. rest' = InputsLeft(n)
  BY <1>1, <1>2, <1>3 DEF InputsLeft
<1>6. fields' = TxFields(n, m, d)
  <2>1. c \in [TxNames -> Nat]
    BY CountTyped
  <2>2. Stage(n, m, rest, 4, c)
    BY DEF AtInputs, Stage
  <2>3. at = TxStart(n, m, "inputs", c["inputs"] + 1) /\ 1 = TxLength("inputs")
    BY <1>1 DEF TxStart, TxLength, Count
  <2>4. d["inputs"] = c["inputs"] + 1
        /\ \A other \in TxNames \ {"inputs"} : d[other] = c[other]
    BY DEF Count, TxNames
  <2>5. "inputs" \in TxNames
    BY DEF TxNames
  <2> HIDE DEF c, d
  <2> QED
    BY <1>4, <2>1, <2>2, <2>3, <2>4, <2>5, NextField
<1>7. n - 0 = n /\ 5 + 41 * 0 = 5
  BY <1>0
<1> QED
  BY <1>1, <1>4, <1>5, <1>6, <1>7 DEF AtInput, Stage

\* After an input comes another, or after the last one the outputs.
LEMMA FromInput ==
  ASSUME NEW n \in Nat, NEW m \in Nat, NEW k \in 0 .. n, k < n,
         AtInput(n, m, k), Next
  PROVE  AtVout(n, m, k + 1)'
<1> DEFINE c == Count(1, 1, k, k, k, k, 0, 0, 0, 0)
           d == Count(1, 1, k + 1, k, k, k, 0, 0, 0, 0)
           left == InputsLeft(n - (k + 1))
<1>1. k \in Nat /\ n - k \in Nat /\ n - k > 0 /\ (n - k) - 1 = n - (k + 1)
      /\ n - (k + 1) \in Nat
  OBVIOUS
<1>2. rest = Input \o left
  BY <1>1, InputsLeftAre DEF AtInput, Stage
<1>3. left \in Seq(TxItems)
  BY <1>1, LeftTyped
<1>4. /\ Input \in Seq(TxItems) /\ Input # <<>> /\ Head(Input) = Data("txid", 32)
      /\ Tail(Input) = <<Data("vout", 4), String("scriptSig"), Data("sequence", 4)>>
  BY ElementItems DEF Input
<1> HIDE DEF left
<1>5. /\ rest # <<>> /\ Head(rest) = Data("txid", 32)
      /\ Tail(rest) = <<Data("vout", 4), String("scriptSig"), Data("sequence", 4)>> \o left
  <2>1. /\ Input \o left # <<>> /\ Head(Input \o left) = Head(Input)
        /\ Tail(Input \o left) = Tail(Input) \o left
    BY <1>3, <1>4, FirstPart
  <2> QED
    BY <1>2, <1>4, <2>1
<1>6. at = 5 + 41 * k
  BY DEF AtInput, Stage
<1>7. fields' = Field("txid", at, 32) /\ at' = at + 32 /\ rest' = Tail(rest)
  BY <1>5, DataStep
<1>8. fields' = TxFields(n, m, d)
  <2>1. c \in [TxNames -> Nat] /\ Stage(n, m, rest, at, c)
    BY <1>1, CountTyped DEF AtInput, Stage
  <2>2. at = TxStart(n, m, "txid", c["txid"] + 1) /\ 32 = TxLength("txid")
    BY <1>1, <1>6 DEF TxStart, TxLength, Count
  <2>3. d["txid"] = c["txid"] + 1 /\ \A other \in TxNames \ {"txid"} : d[other] = c[other]
    BY DEF Count, TxNames
  <2>4. "txid" \in TxNames
    BY DEF TxNames
  <2> HIDE DEF c, d
  <2> QED
    BY <1>7, <2>1, <2>2, <2>3, <2>4, NextField
<1>9. at' = 41 * (k + 1) - 4 /\ (k + 1) - 1 = k
  BY <1>1, <1>6, <1>7
<1> QED
  BY <1>5, <1>7, <1>8, <1>9 DEF AtVout, Stage, left

\* After the last input come the outputs, as many as the form has.
LEMMA FromLastInput ==
  ASSUME NEW n \in Nat, NEW m \in Nat, ReadsTransaction(n, m), AtInput(n, m, n), Next, agrees'
  PROVE  AtOutput(n, m, 0)'
<1> DEFINE c == Count(1, 1, n, n, n, n, 0, 0, 0, 0)
           d == Count(1, 1, n, n, n, n, 1, 0, 0, 0)
<1>0. n \in 0 .. 252 /\ m \in 0 .. 252 /\ n \in Nat /\ n - n = 0
  BY DEF ReadsTransaction
<1>1. /\ rest # <<>> /\ Head(rest) = Vector("outputs", TxOutput) /\ at = 5 + 41 * n
      /\ Tail(rest) = <<Data("locktime", 4)>>
  <2>1. n - n \in Nat /\ n - n = 0
    BY <1>0
  <2>2. InputsLeft(n - n) = <<Vector("outputs", TxOutput), Data("locktime", 4)>>
    BY <2>1, InputsLeftAre, Zenon
  <2>3. rest = InputsLeft(n - n) /\ at = 5 + 41 * n
    BY DEF AtInput, Stage
  <2>4. rest = <<Vector("outputs", TxOutput), Data("locktime", 4)>>
    BY <2>2, <2>3, Zenon
  <2>5. rest # <<>>
    BY <2>4
  <2>6. Head(rest) = Vector("outputs", TxOutput)
    BY <2>4
  <2>7. Tail(rest) = <<Data("locktime", 4)>>
    BY <2>4
  <2> QED
    BY <2>3, <2>5, <2>6, <2>7
<1>2. PICK k \in Nat : /\ agrees' = Agree(at, CompactSize(k))
                       /\ fields' = Field("outputs", at, Len(CompactSize(k)))
                       /\ at' = at + Len(CompactSize(k))
                       /\ rest' = Elements(k, TxOutput) \o Tail(rest)
  BY <1>1, VectorStep
<1>3. k = m /\ CompactSize(k) = <<m>>
  <2>1. Wants(at, m) /\ at \in Int
    BY <1>0, <1>1 DEF ReadsTransaction, Pinned
  <2>2. Agree(at, CompactSize(k))
    BY <1>2
  <2> QED
    BY <1>0, <2>1, <2>2, SizePinned
<1>4. fields' = Field("outputs", at, 1) /\ at' = at + 1
  <2>1. Len(CompactSize(k)) = 1
    BY <1>3
  <2> QED
    BY <1>2, <2>1
<1>5. rest' = OutputsLeft(m)
  BY <1>1, <1>2, <1>3 DEF OutputsLeft
<1>6. fields' = TxFields(n, m, d)
  <2>1. c \in [TxNames -> Nat]
    BY CountTyped
  <2>2. Stage(n, m, rest, at, c)
    BY DEF AtInput, Stage
  <2>3. at = TxStart(n, m, "outputs", c["outputs"] + 1)
    <3>1. c["outputs"] + 1 = 1
      BY <1>0, <1>1 DEF Count
    <3>2. at = TxStart(n, m, "outputs", 1)
      BY <1>0, <1>1 DEF TxStart
    <3> QED
      BY <3>1, <3>2
  <2>4. 1 = TxLength("outputs")
    BY DEF TxLength
  <2>5. d["outputs"] = c["outputs"] + 1
        /\ \A other \in TxNames \ {"outputs"} : d[other] = c[other]
    BY <1>0, <1>1 DEF Count, TxNames
  <2>6. "outputs" \in TxNames
    BY DEF TxNames
  <2> HIDE DEF c, d
  <2> QED
    BY <1>4, <2>1, <2>2, <2>3, <2>4, <2>5, <2>6, NextField
<1>7. m - 0 = m /\ at' = 6 + 41 * n + 43 * 0
  BY <1>0, <1>1, <1>4
<1> QED
  BY <1>5, <1>6, <1>7 DEF AtOutput, Stage

\* What is left begins with some items.
LEMMA Peel ==
  ASSUME NEW u \in Seq(TxItems), NEW left \in Seq(TxItems), u # <<>>,
         rest = u \o left
  PROVE  rest # <<>> /\ Head(rest) = Head(u) /\ Tail(rest) = Tail(u) \o left
<1>1. /\ u \o left # <<>> /\ Head(u \o left) = Head(u)
      /\ Tail(u \o left) = Tail(u) \o left
  BY FirstPart
<1> QED
  BY <1>1

\* After an input's vout comes its scriptSig.
LEMMA FromVout ==
  ASSUME NEW n \in Nat, NEW m \in Nat, NEW k \in 1 .. n, AtVout(n, m, k), Next
  PROVE  AtScriptSig(n, m, k)'
<1> DEFINE c == Count(1, 1, k, k - 1, k - 1, k - 1, 0, 0, 0, 0)
           d == Count(1, 1, k, k, k - 1, k - 1, 0, 0, 0, 0)
           left == InputsLeft(n - k)
           u == <<Data("vout", 4), String("scriptSig"), Data("sequence", 4)>>
<1>1. k \in Nat /\ k - 1 \in Nat /\ n - k \in Nat
  OBVIOUS
<1>2. left \in Seq(TxItems) /\ rest = u \o left /\ at = 41 * k - 4
  BY <1>1, LeftTyped DEF AtVout, Stage
<1>3. /\ u \in Seq(TxItems) /\ u # <<>> /\ Head(u) = Data("vout", 4)
      /\ Tail(u) = <<String("scriptSig"), Data("sequence", 4)>>
  BY DEF TxItems
<1> HIDE DEF left, u
<1>4. /\ rest # <<>> /\ Head(rest) = Data("vout", 4)
      /\ Tail(rest) = <<String("scriptSig"), Data("sequence", 4)>> \o left
  BY <1>2, <1>3, Peel
<1>5. fields' = Field("vout", at, 4) /\ at' = at + 4 /\ rest' = Tail(rest)
  BY <1>4, DataStep
<1>6. fields' = TxFields(n, m, d)
  <2>1. c \in [TxNames -> Nat]
    BY <1>1, <1>2, CountTyped
  <2>2. Stage(n, m, rest, at, c)
    BY DEF AtVout, Stage
  <2>3. at = TxStart(n, m, "vout", c["vout"] + 1)
    <3>1. c["vout"] + 1 = k
      BY <1>1, <1>2 DEF Count
    <3>2. at = TxStart(n, m, "vout", k)
      BY <1>1, <1>2 DEF TxStart
    <3> QED
      BY <3>1, <3>2
  <2>4. 4 = TxLength("vout")
    BY DEF TxLength
  <2>5. d["vout"] = c["vout"] + 1
        /\ \A other \in TxNames \ {"vout"} : d[other] = c[other]
    BY <1>1, <1>2 DEF Count, TxNames
  <2>6. "vout" \in TxNames
    BY DEF TxNames
  <2> HIDE DEF c, d
  <2> QED
    BY <1>5, <2>1, <2>2, <2>3, <2>4, <2>5, <2>6, NextField
<1>7. at' = 41 * k
  BY <1>1, <1>2, <1>5
<1> QED
  BY <1>4, <1>5, <1>6, <1>7 DEF AtScriptSig, Stage, left

\* A scriptSig that agrees is empty.
LEMMA FromScriptSig ==
  ASSUME NEW n \in Nat, NEW m \in Nat, ReadsTransaction(n, m), NEW k \in 1 .. n,
         AtScriptSig(n, m, k), Next, agrees'
  PROVE  AtSequence(n, m, k)'
<1> DEFINE c == Count(1, 1, k, k, k - 1, k - 1, 0, 0, 0, 0)
           d == Count(1, 1, k, k, k, k - 1, 0, 0, 0, 0)
           left == InputsLeft(n - k)
           u == <<String("scriptSig"), Data("sequence", 4)>>
<1>0. n \in Nat /\ m \in Nat /\ k \in Nat /\ k - 1 \in Nat /\ n - k \in Nat
      /\ reading.size \in Int
  BY DEF ReadsTransaction
<1>2. left \in Seq(TxItems) /\ rest = u \o left /\ at = 41 * k
  BY <1>0, LeftTyped DEF AtScriptSig, Stage
<1>3. /\ u \in Seq(TxItems) /\ u # <<>> /\ Head(u) = String("scriptSig")
      /\ Tail(u) = <<Data("sequence", 4)>>
  BY DEF TxItems
<1> HIDE DEF left, u
<1>4. /\ rest # <<>> /\ Head(rest) = String("scriptSig")
      /\ Tail(rest) = <<Data("sequence", 4)>> \o left
  BY <1>2, <1>3, Peel
<1>5. at \in Int
  BY <1>0, <1>2
<1>6. PICK l \in Nat : /\ agrees' = Agree(at, CompactSize(l))
                       /\ fields' = Field("scriptSig", at + Len(CompactSize(l)), l)
                       /\ at' = at + Len(CompactSize(l)) + l
  BY <1>0, <1>4, <1>5, StringStep
<1>7. rest' = Tail(rest)
  BY <1>0, <1>4, <1>5, StringStep
<1>8. l = 0 /\ Len(CompactSize(l)) = 1
  <2>1. Wants(at, 0)
    BY <1>2 DEF ReadsTransaction, Pinned
  <2>2. Agree(at, CompactSize(l))
    BY <1>6
  <2>3. 0 \in 0 .. 252
    OBVIOUS
  <2>4. l = 0 /\ CompactSize(l) = <<0>>
    BY <1>5, <2>1, <2>2, <2>3, SizePinned, Zenon
  <2> QED
    BY <2>4
<1>9. fields' = Field("scriptSig", at + 1, 0) /\ at' = 41 * k + 1
  <2>1. fields' = Field("scriptSig", at + 1, 0) /\ at' = (at + 1) + 0
    BY <1>6, <1>8, Zenon
  <2> QED
    BY <1>0, <1>2, <2>1
<1>10. fields' = TxFields(n, m, d)
  <2>1. c \in [TxNames -> Nat]
    BY <1>0, <1>2, CountTyped
  <2>2. Stage(n, m, rest, at, c)
    BY DEF AtScriptSig, Stage
  <2>3. at + 1 = TxStart(n, m, "scriptSig", c["scriptSig"] + 1)
    <3>1. c["scriptSig"] + 1 = k
      BY <1>0, <1>2 DEF Count
    <3>2. at + 1 = TxStart(n, m, "scriptSig", k)
      BY <1>0, <1>2 DEF TxStart
    <3> QED
      BY <3>1, <3>2
  <2>4. 0 = TxLength("scriptSig")
    BY DEF TxLength
  <2>5. d["scriptSig"] = c["scriptSig"] + 1
        /\ \A other \in TxNames \ {"scriptSig"} : d[other] = c[other]
    BY <1>0, <1>2 DEF Count, TxNames
  <2>6. "scriptSig" \in TxNames
    BY DEF TxNames
  <2> HIDE DEF c, d
  <2> QED
    BY <1>9, <2>1, <2>2, <2>3, <2>4, <2>5, <2>6, NextField
<1> QED
  BY <1>4, <1>7, <1>9, <1>10 DEF AtSequence, Stage, left

\* After an input's sequence is the end of the input.
LEMMA FromSequence ==
  ASSUME NEW n \in Nat, NEW m \in Nat, NEW k \in 1 .. n, AtSequence(n, m, k), Next
  PROVE  AtInput(n, m, k)'
<1> DEFINE c == Count(1, 1, k, k, k, k - 1, 0, 0, 0, 0)
           d == Count(1, 1, k, k, k, k, 0, 0, 0, 0)
           left == InputsLeft(n - k)
           u == <<Data("sequence", 4)>>
<1>1. k \in Nat /\ k - 1 \in Nat /\ n - k \in Nat
  OBVIOUS
<1>2. left \in Seq(TxItems) /\ rest = u \o left /\ at = 41 * k + 1
  BY <1>1, LeftTyped DEF AtSequence, Stage
<1>3. /\ u \in Seq(TxItems) /\ u # <<>> /\ Head(u) = Data("sequence", 4)
      /\ Tail(u) = <<>>
  BY DEF TxItems
<1> HIDE DEF left, u
<1>4. rest # <<>> /\ Head(rest) = Data("sequence", 4) /\ Tail(rest) = left
  <2>1. rest # <<>> /\ Head(rest) = Data("sequence", 4) /\ Tail(rest) = <<>> \o left
    BY <1>2, <1>3, Peel
  <2> QED
    BY <1>2, <2>1, ConcatEmptySeq
<1>5. fields' = Field("sequence", at, 4) /\ at' = at + 4 /\ rest' = Tail(rest)
  BY <1>4, DataStep
<1>6. fields' = TxFields(n, m, d)
  <2>1. c \in [TxNames -> Nat]
    BY <1>1, <1>2, CountTyped
  <2>2. Stage(n, m, rest, at, c)
    BY DEF AtSequence, Stage
  <2>3. at = TxStart(n, m, "sequence", c["sequence"] + 1)
    <3>1. c["sequence"] + 1 = k
      BY <1>1, <1>2 DEF Count
    <3>2. at = TxStart(n, m, "sequence", k)
      BY <1>1, <1>2 DEF TxStart
    <3> QED
      BY <3>1, <3>2
  <2>4. 4 = TxLength("sequence")
    BY DEF TxLength
  <2>5. d["sequence"] = c["sequence"] + 1
        /\ \A other \in TxNames \ {"sequence"} : d[other] = c[other]
    BY <1>1, <1>2 DEF Count, TxNames
  <2>6. "sequence" \in TxNames
    BY DEF TxNames
  <2> HIDE DEF c, d
  <2> QED
    BY <1>5, <2>1, <2>2, <2>3, <2>4, <2>5, <2>6, NextField
<1>7. at' = 5 + 41 * k
  BY <1>1, <1>2, <1>5
<1> QED
  BY <1>4, <1>5, <1>6, <1>7 DEF AtInput, Stage, left

\* After an output comes another.
LEMMA FromOutput ==
  ASSUME NEW n \in Nat, NEW m \in Nat, NEW j \in 0 .. m, j < m,
         AtOutput(n, m, j), Next
  PROVE  AtScript(n, m, j + 1)'
<1> DEFINE c == Count(1, 1, n, n, n, n, 1, j, j, 0)
           d == Count(1, 1, n, n, n, n, 1, j + 1, j, 0)
           left == OutputsLeft(m - (j + 1))
           u == TxOutput
<1>1. j \in Nat /\ m - j \in Nat /\ m - j > 0 /\ (m - j) - 1 = m - (j + 1)
      /\ m - (j + 1) \in Nat
  OBVIOUS
<1>2. left \in Seq(TxItems) /\ rest = u \o left /\ at = 6 + 41 * n + 43 * j
  BY <1>1, LeftTyped, OutputsLeftAre DEF AtOutput, Stage
<1>3. /\ u \in Seq(TxItems) /\ u # <<>> /\ Head(u) = Data("amount", 8)
      /\ Tail(u) = <<String("spk")>>
  BY ElementItems DEF TxOutput
<1> HIDE DEF left, u
<1>4. /\ rest # <<>> /\ Head(rest) = Data("amount", 8)
      /\ Tail(rest) = <<String("spk")>> \o left
  BY <1>2, <1>3, Peel
<1>5. fields' = Field("amount", at, 8) /\ at' = at + 8 /\ rest' = Tail(rest)
  BY <1>4, DataStep
<1>6. fields' = TxFields(n, m, d)
  <2>1. c \in [TxNames -> Nat]
    BY <1>1, <1>2, CountTyped
  <2>2. Stage(n, m, rest, at, c)
    BY DEF AtOutput, Stage
  <2>3. at = TxStart(n, m, "amount", c["amount"] + 1)
    <3>1. c["amount"] + 1 = j + 1
      BY <1>1, <1>2 DEF Count
    <3>2. at = TxStart(n, m, "amount", j + 1)
      BY <1>1, <1>2 DEF TxStart
    <3> QED
      BY <3>1, <3>2
  <2>4. 8 = TxLength("amount")
    BY DEF TxLength
  <2>5. d["amount"] = c["amount"] + 1
        /\ \A other \in TxNames \ {"amount"} : d[other] = c[other]
    BY <1>1, <1>2 DEF Count, TxNames
  <2>6. "amount" \in TxNames
    BY DEF TxNames
  <2> HIDE DEF c, d
  <2> QED
    BY <1>5, <2>1, <2>2, <2>3, <2>4, <2>5, <2>6, NextField
<1>7. at' = 41 * n + 43 * (j + 1) - 29 /\ (j + 1) - 1 = j
  BY <1>1, <1>2, <1>5
<1> QED
  BY <1>4, <1>5, <1>6, <1>7 DEF AtScript, Stage, left

\* A script that agrees has 34 bytes.
LEMMA FromScript ==
  ASSUME NEW n \in Nat, NEW m \in Nat, ReadsTransaction(n, m), NEW j \in 1 .. m, AtScript(n, m, j),
         Next, agrees'
  PROVE  AtOutput(n, m, j)'
<1> DEFINE c == Count(1, 1, n, n, n, n, 1, j, j - 1, 0)
           d == Count(1, 1, n, n, n, n, 1, j, j, 0)
           left == OutputsLeft(m - j)
           u == <<String("spk")>>
<1>0. n \in Nat /\ m \in Nat /\ j \in Nat /\ j - 1 \in Nat /\ m - j \in Nat
      /\ reading.size \in Int
  BY DEF ReadsTransaction
<1>2. left \in Seq(TxItems) /\ rest = u \o left /\ at = 41 * n + 43 * j - 29
  BY <1>0, LeftTyped DEF AtScript, Stage
<1>3. /\ u \in Seq(TxItems) /\ u # <<>> /\ Head(u) = String("spk") /\ Tail(u) = <<>>
  BY DEF TxItems
<1> HIDE DEF left, u
<1>4. rest # <<>> /\ Head(rest) = String("spk") /\ Tail(rest) = left
  <2>1. rest # <<>> /\ Head(rest) = String("spk") /\ Tail(rest) = <<>> \o left
    BY <1>2, <1>3, Peel
  <2> QED
    BY <1>2, <2>1, ConcatEmptySeq
<1>5. at \in Int
  BY <1>0, <1>2
<1>6. PICK l \in Nat : /\ agrees' = Agree(at, CompactSize(l))
                       /\ fields' = Field("spk", at + Len(CompactSize(l)), l)
                       /\ at' = at + Len(CompactSize(l)) + l
  BY <1>0, <1>4, <1>5, StringStep
<1>7. rest' = Tail(rest)
  BY <1>0, <1>4, <1>5, StringStep
<1>8. l = 34 /\ Len(CompactSize(l)) = 1
  <2>1. Wants(at, 34)
    BY <1>2 DEF ReadsTransaction, Pinned
  <2>2. Agree(at, CompactSize(l))
    BY <1>6
  <2>3. 34 \in 0 .. 252
    OBVIOUS
  <2>4. l = 34 /\ CompactSize(l) = <<34>>
    BY <1>5, <2>1, <2>2, <2>3, SizePinned, Zenon
  <2> QED
    BY <2>4
<1>9. fields' = Field("spk", at + 1, 34) /\ at' = 6 + 41 * n + 43 * j
  <2>1. fields' = Field("spk", at + 1, 34) /\ at' = (at + 1) + 34
    BY <1>6, <1>8, Zenon
  <2> QED
    BY <1>0, <1>2, <2>1
<1>10. fields' = TxFields(n, m, d)
  <2>1. c \in [TxNames -> Nat]
    BY <1>0, <1>2, CountTyped
  <2>2. Stage(n, m, rest, at, c)
    BY DEF AtScript, Stage
  <2>3. at + 1 = TxStart(n, m, "spk", c["spk"] + 1)
    <3>1. c["spk"] + 1 = j
      BY <1>0, <1>2 DEF Count
    <3>2. at + 1 = TxStart(n, m, "spk", j)
      BY <1>0, <1>2 DEF TxStart
    <3> QED
      BY <3>1, <3>2
  <2>4. 34 = TxLength("spk")
    BY DEF TxLength
  <2>5. d["spk"] = c["spk"] + 1
        /\ \A other \in TxNames \ {"spk"} : d[other] = c[other]
    BY <1>0, <1>2 DEF Count, TxNames
  <2>6. "spk" \in TxNames
    BY DEF TxNames
  <2> HIDE DEF c, d
  <2> QED
    BY <1>9, <2>1, <2>2, <2>3, <2>4, <2>5, <2>6, NextField
<1> QED
  BY <1>4, <1>7, <1>9, <1>10 DEF AtOutput, Stage, left

\* After the last output comes the locktime, and that is all.
LEMMA FromLastOutput ==
  ASSUME NEW n \in Nat, NEW m \in Nat, AtOutput(n, m, m), Next
  PROVE  AtEnd(n, m)'
<1> DEFINE c == Count(1, 1, n, n, n, n, 1, m, m, 0)
           d == Count(1, 1, n, n, n, n, 1, m, m, 1)
<1>1. /\ rest # <<>> /\ Head(rest) = Data("locktime", 4) /\ Tail(rest) = <<>>
      /\ at = 6 + 41 * n + 43 * m
  <2>1. m - m \in Nat /\ m - m = 0
    OBVIOUS
  <2>2. OutputsLeft(m - m) = <<Data("locktime", 4)>>
    BY <2>1, OutputsLeftAre, Zenon
  <2>3. rest = OutputsLeft(m - m) /\ at = 6 + 41 * n + 43 * m
    BY DEF AtOutput, Stage
  <2>4. rest = <<Data("locktime", 4)>>
    BY <2>2, <2>3, Zenon
  <2>5. rest # <<>>
    BY <2>4
  <2>6. Head(rest) = Data("locktime", 4)
    BY <2>4
  <2>7. Tail(rest) = <<>>
    BY <2>4
  <2> QED
    BY <2>3, <2>5, <2>6, <2>7
<1>2. fields' = Field("locktime", at, 4) /\ at' = at + 4 /\ rest' = Tail(rest)
  BY <1>1, DataStep
<1>3. fields' = TxFields(n, m, d)
  <2>1. c \in [TxNames -> Nat]
    BY <1>1, CountTyped
  <2>2. Stage(n, m, rest, at, c)
    BY DEF AtOutput, Stage
  <2>3. at = TxStart(n, m, "locktime", c["locktime"] + 1)
    <3>1. c["locktime"] + 1 = 1
      BY <1>1 DEF Count
    <3>2. at = TxStart(n, m, "locktime", 1)
      BY <1>1 DEF TxStart
    <3> QED
      BY <3>1, <3>2
  <2>4. 4 = TxLength("locktime")
    BY DEF TxLength
  <2>5. d["locktime"] = c["locktime"] + 1
        /\ \A other \in TxNames \ {"locktime"} : d[other] = c[other]
    BY <1>1 DEF Count, TxNames
  <2>6. "locktime" \in TxNames
    BY DEF TxNames
  <2> HIDE DEF c, d
  <2> QED
    BY <1>2, <2>1, <2>2, <2>3, <2>4, <2>5, <2>6, NextField
<1>4. at' = 10 + 41 * n + 43 * m
  BY <1>1, <1>2
<1> QED
  BY <1>1, <1>2, <1>3, <1>4 DEF AtEnd, Stage

\* Every step that agrees goes to the next stage.
LEMMA TxNext ==
  ASSUME NEW n \in Nat, NEW m \in Nat, ReadsTransaction(n, m), TxStage(n, m), Next, agrees'
  PROVE  TxStage(n, m)'
<1>1. CASE AtVersion(n, m)
  BY <1>1, FromVersion DEF TxStage
<1>2. CASE AtInputs(n, m)
  <2>1. AtInput(n, m, 0)' /\ 0 \in 0 .. n
    BY <1>2, FromInputs
  <2> QED
    BY <2>1 DEF TxStage
<1>3. ASSUME NEW k \in 0 .. n, AtInput(n, m, k)
      PROVE  TxStage(n, m)'
  <2>1. CASE k < n
    <3>1. AtVout(n, m, k + 1)' /\ k + 1 \in 1 .. n
      BY <1>3, <2>1, FromInput
    <3> QED
      BY <3>1 DEF TxStage
  <2>2. CASE ~ (k < n)
    <3>1. k = n
      BY <2>2
    <3>2. AtOutput(n, m, 0)' /\ 0 \in 0 .. m
      BY <1>3, <3>1, FromLastInput
    <3> QED
      BY <3>2 DEF TxStage
  <2> QED
    BY <2>1, <2>2
<1>4. ASSUME NEW k \in 1 .. n, AtVout(n, m, k)
      PROVE  TxStage(n, m)'
  BY <1>4, FromVout DEF TxStage
<1>5. ASSUME NEW k \in 1 .. n, AtScriptSig(n, m, k)
      PROVE  TxStage(n, m)'
  BY <1>5, FromScriptSig DEF TxStage
<1>6. ASSUME NEW k \in 1 .. n, AtSequence(n, m, k)
      PROVE  TxStage(n, m)'
  <2>1. AtInput(n, m, k)' /\ k \in 0 .. n
    BY <1>6, FromSequence
  <2> QED
    BY <2>1 DEF TxStage
<1>7. ASSUME NEW j \in 0 .. m, AtOutput(n, m, j)
      PROVE  TxStage(n, m)'
  <2>1. CASE j < m
    <3>1. AtScript(n, m, j + 1)' /\ j + 1 \in 1 .. m
      BY <1>7, <2>1, FromOutput
    <3> QED
      BY <3>1 DEF TxStage
  <2>2. CASE ~ (j < m)
    <3>1. j = m
      BY <2>2
    <3>2. AtEnd(n, m)'
      BY <1>7, <3>1, FromLastOutput
    <3> QED
      BY <3>2 DEF TxStage
  <2> QED
    BY <2>1, <2>2
<1>8. ASSUME NEW j \in 1 .. m, AtScript(n, m, j)
      PROVE  TxStage(n, m)'
  <2>1. AtOutput(n, m, j)' /\ j \in 0 .. m
    BY <1>8, FromScript
  <2> QED
    BY <2>1 DEF TxStage
<1>9. CASE AtEnd(n, m)
  BY <1>9 DEF AtEnd, Stage, Next, WriteData, WriteKnown, WriteString, WriteVector, Starts
<1> QED
  BY <1>1, <1>2, <1>3, <1>4, <1>5, <1>6, <1>7, <1>8, <1>9 DEF TxStage

\* Only at the end are so many bytes written as the program wants.
LEMMA TxAccepted ==
  ASSUME NEW n \in Nat, NEW m \in Nat, ReadsTransaction(n, m), TxStage(n, m), Accepted
  PROVE  AtEnd(n, m)
<1>1. at = 10 + 41 * n + 43 * m
  BY DEF Accepted, ReadsTransaction
<1> QED
  BY <1>1 DEF TxStage, AtVersion, AtInputs, AtInput, AtVout, AtScriptSig, AtSequence,
              AtOutput, AtScript, Stage

\* At the end every slice is a field, and the transaction has the form.
LEMMA TxEnd ==
  ASSUME NEW n \in Nat, NEW m \in Nat, ReadsTransaction(n, m), AtEnd(n, m)
  PROVE  SlicesAreFields /\ TransactionsHaveForm
<1> DEFINE c == Count(1, 1, n, n, n, n, 1, m, m, 1)
<1>1. c \in [TxNames -> Nat] /\ fields = TxFields(n, m, c) /\ reading.takes \subseteq fields
  <2>1. fields = TxFields(n, m, c) /\ reading.takes \subseteq fields
    BY DEF AtEnd, Stage, ReadsTransaction
  <2>2. c \in [TxNames -> Nat]
    BY CountTyped
  <2> QED
    BY <2>1, <2>2
<1>2. /\ c["version"] = 1 /\ c["txid"] = n /\ c["vout"] = n /\ c["scriptSig"] = n
      /\ c["sequence"] = n /\ c["amount"] = m /\ c["spk"] = m /\ c["locktime"] = 1
  BY DEF Count
<1>3. {"version", "txid", "vout", "scriptSig", "sequence", "amount", "spk", "locktime"}
        \subseteq TxNames
  BY DEF TxNames
<1> HIDE DEF c
<1>4. \A name \in TxNames :
        /\ Named(name) = {TxField(n, m, name, i) : i \in 1 .. c[name]}
        /\ Cardinality(Named(name)) = c[name]
  BY <1>1, TxNamed
<1>5. \A name, i : /\ TxField(n, m, name, i).start = TxStart(n, m, name, i)
                   /\ TxField(n, m, name, i).length = TxLength(name)
                   /\ TxField(n, m, name, i).name = name
  BY DEF TxField, Slice
<1>6. ASSUME NEW name \in TxNames, NEW f \in Named(name)
      PROVE  \E i \in 1 .. c[name] :
               f.start = TxStart(n, m, name, i) /\ f.length = TxLength(name)
  BY <1>4, <1>5
<1>7. Forms
  <2>1. ASSUME NEW f \in Named("version") PROVE Fixed(f, <<2, 0, 0, 0>>)
    <3>1. f.start = 0
      BY <1>3, <1>6 DEF TxStart
    <3> QED
      BY <3>1 DEF Fixed, ReadsTransaction, Pinned
  <2>2. ASSUME NEW f \in Named("scriptSig") PROVE f.length = 0
    BY <1>3, <1>6 DEF TxLength
  <2>3. ASSUME NEW f \in Named("sequence") PROVE Fixed(f, <<253, 255, 255, 255>>)
    <3>1. PICK i \in 1 .. n : f.start = TxStart(n, m, "sequence", i)
      BY <1>2, <1>3, <1>6
    <3>2. f.start = 41 * i + 1
      BY <3>1 DEF TxStart
    <3> QED
      BY <3>2 DEF Fixed, ReadsTransaction, Pinned
  <2>4. ASSUME NEW f \in Named("locktime") PROVE Fixed(f, <<0, 0, 0, 0>>)
    <3>1. f.start = 6 + 41 * n + 43 * m
      BY <1>3, <1>6 DEF TxStart
    <3> QED
      BY <3>1 DEF Fixed, ReadsTransaction, Pinned
  <2> QED
    BY <2>1, <2>2, <2>3, <2>4 DEF Forms
<1>8. Cardinality(Named("sequence")) = reading.inputs
  BY <1>2, <1>3, <1>4 DEF ReadsTransaction
<1>9. Cardinality(Named("spk")) = reading.outputs
  BY <1>2, <1>3, <1>4 DEF ReadsTransaction
<1>10. \A f \in Named("spk") : f.length = 34
  BY <1>3, <1>6 DEF TxLength
<1>11. ASSUME NEW e \in reading.expects, NEW f \in fields,
              f.name \in {"txid", "vout", "amount", "spk"}
       PROVE  e.offset \notin f.start .. f.start + f.length - 1
  <2>1. f \in Named(f.name) /\ f.name \in TxNames
    BY <1>3, <1>11 DEF Named
  <2>2. PICK i \in 1 .. c[f.name] :
          f.start = TxStart(n, m, f.name, i) /\ f.length = TxLength(f.name)
    BY <1>6, <2>1
  <2>3. \/ e.offset \in 0 .. 4
        \/ \E k \in 1 .. n : e.offset \in 41 * k .. 41 * k + 4
        \/ e.offset = 5 + 41 * n
        \/ \E j \in 1 .. m : e.offset = 41 * n + 43 * j - 29
        \/ e.offset \in 6 + 41 * n + 43 * m .. 9 + 41 * n + 43 * m
    BY DEF ReadsTransaction, OnlyPinned
  <2>4. CASE f.name = "txid"
    <3>1. i \in 1 .. n /\ f.start = 41 * i - 36 /\ f.length = 32
      BY <1>2, <2>2, <2>4 DEF TxStart, TxLength
    <3> QED
      BY <2>3, <3>1
  <2>5. CASE f.name = "vout"
    <3>1. i \in 1 .. n /\ f.start = 41 * i - 4 /\ f.length = 4
      BY <1>2, <2>2, <2>5 DEF TxStart, TxLength
    <3> QED
      BY <2>3, <3>1
  <2>6. CASE f.name = "amount"
    <3>1. i \in 1 .. m /\ f.start = 41 * n + 43 * i - 37 /\ f.length = 8
      BY <1>2, <2>2, <2>6 DEF TxStart, TxLength
    <3> QED
      BY <2>3, <3>1
  <2>7. CASE f.name = "spk"
    <3>1. i \in 1 .. m /\ f.start = 41 * n + 43 * i - 28 /\ f.length = 34
      BY <1>2, <2>2, <2>7 DEF TxStart, TxLength
    <3> QED
      BY <2>3, <3>1
  <2> QED
    BY <1>11, <2>4, <2>5, <2>6, <2>7
<1> QED
  BY <1>1, <1>7, <1>8, <1>9, <1>10, <1>11 DEF SlicesAreFields, TransactionsHaveForm

-----------------------------------------------------------------------------
(* The readings of transactions                                            *)

\* The bytes from an offset on are at these offsets.
LEMMA BytesAre ==
  ASSUME NEW o \in Int, NEW S, NEW b \in Seq(S)
  PROVE  /\ \A e \in Bytes(o, b) : e.offset \in o .. o + Len(b) - 1
         /\ \A k \in 1 .. Len(b) : [offset |-> o + k - 1, byte |-> b[k]] \in Bytes(o, b)
<1>1. Len(b) \in Nat
  OBVIOUS
<1>2. ASSUME NEW e \in Bytes(o, b) PROVE e.offset \in o .. o + Len(b) - 1
  <2>1. PICK k \in 1 .. Len(b) : e = [offset |-> o + k - 1, byte |-> b[k]]
    BY DEF Bytes
  <2>2. e.offset = o + k - 1
    BY <2>1
  <2> QED
    BY <1>1, <2>2
<1>3. \A k \in 1 .. Len(b) : [offset |-> o + k - 1, byte |-> b[k]] \in Bytes(o, b)
  BY DEF Bytes
<1> QED
  BY <1>2, <1>3

\* One byte at an offset.
LEMMA OneByte ==
  ASSUME NEW o \in Int, NEW b
  PROVE  Bytes(o, <<b>>) = {[offset |-> o, byte |-> b]}
<1>1. 1 .. Len(<<b>>) = {1} /\ <<b>>[1] = b /\ o + 1 - 1 = o
  OBVIOUS
<1> QED
  BY <1>1 DEF Bytes

\* The bytes between an input's vout and the next input.
LEMMA FinalBytes ==
  ASSUME NEW o \in Int
  PROVE  /\ [offset |-> o, byte |-> 0] \in Bytes(o, Final)
         /\ Bytes(o + 1, <<253, 255, 255, 255>>) \subseteq Bytes(o, Final)
         /\ \A e \in Bytes(o, Final) : e.offset \in o .. o + 4
<1>1. Final \in Seq(Int) /\ Len(Final) = 5 /\ Final[1] = 0
  BY DEF Final
<1>2. \A e \in Bytes(o, Final) : e.offset \in o .. o + 4
  <2>1. \A e \in Bytes(o, Final) : e.offset \in o .. o + Len(Final) - 1
    BY <1>1, BytesAre, Zenon
  <2>2. o + Len(Final) - 1 = o + 4
    BY <1>1
  <2> QED
    BY <2>1, <2>2, Zenon
<1>3. [offset |-> o, byte |-> 0] \in Bytes(o, Final)
  <2>1. 1 \in 1 .. Len(Final) /\ o + 1 - 1 = o
    BY <1>1
  <2> QED
    BY <1>1, <2>1, BytesAre
<1>4. ASSUME NEW e \in Bytes(o + 1, <<253, 255, 255, 255>>)
      PROVE  e \in Bytes(o, Final)
  <2> DEFINE four == <<253, 255, 255, 255>>
  <2>1. PICK k \in 1 .. Len(four) : e = [offset |-> o + 1 + k - 1, byte |-> four[k]]
    BY DEF Bytes
  <2>2. /\ k + 1 \in 1 .. Len(Final) /\ Final[k + 1] = four[k]
        /\ o + 1 + k - 1 = o + (k + 1) - 1
    <3>1. k \in 1 .. 4
      OBVIOUS
    <3>2. k \in {1, 2, 3, 4}
      BY <3>1
    <3> QED
      BY <1>1, <3>2 DEF Final
  <2> HIDE DEF four
  <2>3. e = [offset |-> o + (k + 1) - 1, byte |-> Final[k + 1]]
    BY <2>1, <2>2
  <2> QED
    BY <2>2, <2>3 DEF Bytes
<1> QED
  BY <1>2, <1>3, <1>4

\* The last input's bytes and the count after it.
LEMMA FinalAnd ==
  ASSUME NEW o \in Int, NEW b
  PROVE  Bytes(o, Final \o <<b>>) = Bytes(o, Final) \cup Bytes(o + 5, <<b>>)
<1> DEFINE six == Final \o <<b>>
<1>1. /\ Len(six) = 6 /\ \A k \in 1 .. 5 : six[k] = Final[k]
      /\ six[6] = b /\ Len(Final) = 5
  BY DEF Final
<1>2. Bytes(o + 5, <<b>>) = {[offset |-> o + 5, byte |-> b]}
  BY OneByte
<1> HIDE DEF six
<1>3. 1 .. Len(six) = (1 .. 5) \cup {6} /\ o + 6 - 1 = o + 5 /\ 1 .. Len(Final) = 1 .. 5
  BY <1>1
<1>4. Bytes(o, six) = Bytes(o, Final) \cup {[offset |-> o + 5, byte |-> b]}
  <2>1. ASSUME NEW e \in Bytes(o, six)
        PROVE  e \in Bytes(o, Final) \cup {[offset |-> o + 5, byte |-> b]}
    <3>1. PICK k \in 1 .. Len(six) : e = [offset |-> o + k - 1, byte |-> six[k]]
      BY DEF Bytes
    <3>2. CASE k \in 1 .. 5
      <4>1. e = [offset |-> o + k - 1, byte |-> Final[k]]
        BY <1>1, <3>1, <3>2
      <4> QED
        BY <1>3, <3>2, <4>1 DEF Bytes
    <3>3. CASE k = 6
      BY <1>1, <1>3, <3>1, <3>3
    <3> QED
      BY <1>3, <3>2, <3>3
  <2>2. ASSUME NEW e \in Bytes(o, Final)
        PROVE  e \in Bytes(o, six)
    <3>1. PICK k \in 1 .. 5 : e = [offset |-> o + k - 1, byte |-> Final[k]]
      BY <1>3 DEF Bytes
    <3>2. e = [offset |-> o + k - 1, byte |-> six[k]] /\ k \in 1 .. Len(six)
      BY <1>1, <1>3, <3>1
    <3> QED
      BY <3>2 DEF Bytes
  <2>3. [offset |-> o + 5, byte |-> b] \in Bytes(o, six)
    <3>1. 6 \in 1 .. Len(six)
      BY <1>3
    <3>2. [offset |-> o + 6 - 1, byte |-> six[6]] \in Bytes(o, six)
      BY <3>1 DEF Bytes
    <3> QED
      BY <1>1, <1>3, <3>2
  <2> QED
    BY <2>1, <2>2, <2>3
<1> QED
  BY <1>2, <1>4 DEF six

\* The bytes to insist on for n inputs and m outputs.
TxExpects(n, m) ==
  CommonTransaction(10 + 41 * n + 43 * m)
    \cup Bytes(4, <<n>>)
    \cup AllBytes({41 * k : k \in 1 .. n}, Final)
    \cup Bytes(5 + 41 * n, <<m>>)
    \cup AllBytes({41 * n + 43 * j - 29 : j \in 1 .. m}, <<34>>)

\* With these bytes the form is insisted on, and nothing else.
LEMMA TxPinned ==
  ASSUME NEW n \in Nat, NEW m \in Nat, reading.expects = TxExpects(n, m)
  PROVE  Pinned(n, m) /\ OnlyPinned(n, m)
<1> DEFINE last == 6 + 41 * n + 43 * m
           zeros == <<0, 0, 0, 0>>
           two == <<2, 0, 0, 0>>
<1>1. CommonTransaction(10 + 41 * n + 43 * m) = Bytes(0, two) \cup Bytes(last, zeros)
  <2>1. 10 + 41 * n + 43 * m - 4 = last
    OBVIOUS
  <2> QED
    BY <2>1 DEF CommonTransaction
<1>2. /\ \A e \in Bytes(0, two) : e.offset \in 0 .. 4
      /\ \A e \in Bytes(last, zeros) : e.offset \in last .. last + 3
  <2>1. two \in Seq(Int) /\ Len(two) = 4 /\ zeros \in Seq(Int) /\ Len(zeros) = 4
    OBVIOUS
  <2>2. last \in Int
    OBVIOUS
  <2> HIDE DEF two, zeros, last
  <2>3. \A e \in Bytes(0, two) : e.offset \in 0 .. 0 + Len(two) - 1
    <3>1. 0 \in Int
      OBVIOUS
    <3> QED
      BY <2>1, <3>1, BytesAre, Zenon
  <2>4. \A e \in Bytes(last, zeros) : e.offset \in last .. last + Len(zeros) - 1
    BY <2>1, <2>2, BytesAre
  <2> QED
    BY <2>1, <2>2, <2>3, <2>4
<1>3. /\ Bytes(4, <<n>>) = {[offset |-> 4, byte |-> n]}
      /\ Bytes(5 + 41 * n, <<m>>) = {[offset |-> 5 + 41 * n, byte |-> m]}
  <2>1. 4 \in Int /\ 5 + 41 * n \in Int
    OBVIOUS
  <2> QED
    BY <2>1, OneByte, Zenon
<1>4. AllBytes({41 * n + 43 * j - 29 : j \in 1 .. m}, <<34>>)
        = {[offset |-> 41 * n + 43 * j - 29, byte |-> 34] : j \in 1 .. m}
  <2>1. \A o \in Int : Bytes(o, <<34>>) = {[offset |-> o, byte |-> 34]}
    BY OneByte, Zenon
  <2>2. \A j \in 1 .. m : 41 * n + 43 * j - 29 \in Int
    OBVIOUS
  <2>3. \A j \in 1 .. m : Bytes(41 * n + 43 * j - 29, <<34>>)
                              = {[offset |-> 41 * n + 43 * j - 29, byte |-> 34]}
    BY <2>1, <2>2, Zenon
  <2>4. AllBytes({41 * n + 43 * j - 29 : j \in 1 .. m}, <<34>>)
          = UNION {Bytes(41 * n + 43 * j - 29, <<34>>) : j \in 1 .. m}
    BY DEF AllBytes
  <2> QED
    BY <2>3, <2>4
<1>5. AllBytes({41 * k : k \in 1 .. n}, Final) = UNION {Bytes(41 * k, Final) : k \in 1 .. n}
  BY DEF AllBytes
<1>6. \A k \in 1 .. n :
        /\ [offset |-> 41 * k, byte |-> 0] \in Bytes(41 * k, Final)
        /\ Bytes(41 * k + 1, <<253, 255, 255, 255>>) \subseteq Bytes(41 * k, Final)
        /\ \A e \in Bytes(41 * k, Final) : e.offset \in 41 * k .. 41 * k + 4
  BY FinalBytes
<1>7. Pinned(n, m)
  <2>1. Bytes(0, two) \subseteq reading.expects /\ Bytes(last, zeros) \subseteq reading.expects
    BY <1>1 DEF TxExpects
  <2>2. Wants(4, n) /\ Wants(5 + 41 * n, m)
    BY <1>3 DEF TxExpects, Wants
  <2>3. \A k \in 1 .. n : Bytes(41 * k, Final) \subseteq reading.expects
    BY <1>5 DEF TxExpects
  <2>4. \A j \in 1 .. m : Wants(41 * n + 43 * j - 29, 34)
    BY <1>4 DEF TxExpects, Wants
  <2> QED
    BY <1>6, <2>1, <2>2, <2>3, <2>4 DEF Pinned, Wants
<1>8. OnlyPinned(n, m)
  <2> SUFFICES ASSUME NEW e \in reading.expects
               PROVE  \/ e.offset \in 0 .. 4
                      \/ \E k \in 1 .. n : e.offset \in 41 * k .. 41 * k + 4
                      \/ e.offset = 5 + 41 * n
                      \/ \E j \in 1 .. m : e.offset = 41 * n + 43 * j - 29
                      \/ e.offset \in 6 + 41 * n + 43 * m .. 9 + 41 * n + 43 * m
    BY DEF OnlyPinned
  <2>1. CASE e \in Bytes(0, two)
    BY <1>2, <2>1
  <2>2. CASE e \in Bytes(last, zeros)
    BY <1>2, <2>2
  <2>3. CASE e = [offset |-> 4, byte |-> n]
    <3>1. e.offset = 4
      BY <2>3
    <3> QED
      BY <3>1
  <2>4. CASE e = [offset |-> 5 + 41 * n, byte |-> m]
    <3>1. e.offset = 5 + 41 * n
      BY <2>4
    <3> QED
      BY <3>1
  <2>5. ASSUME NEW k \in 1 .. n, e \in Bytes(41 * k, Final)
        PROVE  e.offset \in 41 * k .. 41 * k + 4
    BY <1>6, <2>5
  <2>6. ASSUME NEW j \in 1 .. m, e = [offset |-> 41 * n + 43 * j - 29, byte |-> 34]
        PROVE  e.offset = 41 * n + 43 * j - 29
    BY <2>6
  <2>7. \/ e \in Bytes(0, two) \/ e \in Bytes(last, zeros)
        \/ e = [offset |-> 4, byte |-> n]
        \/ e = [offset |-> 5 + 41 * n, byte |-> m]
        \/ \E k \in 1 .. n : e \in Bytes(41 * k, Final)
        \/ \E j \in 1 .. m : e = [offset |-> 41 * n + 43 * j - 29, byte |-> 34]
    <3>1. \/ e \in CommonTransaction(10 + 41 * n + 43 * m)
          \/ e \in Bytes(4, <<n>>) \/ e \in Bytes(5 + 41 * n, <<m>>)
          \/ e \in AllBytes({41 * k : k \in 1 .. n}, Final)
          \/ e \in AllBytes({41 * n + 43 * j - 29 : j \in 1 .. m}, <<34>>)
      BY Zenon DEF TxExpects
    <3>2. e \in CommonTransaction(10 + 41 * n + 43 * m)
            => e \in Bytes(0, two) \/ e \in Bytes(last, zeros)
      BY <1>1, Zenon
    <3>3. /\ e \in Bytes(4, <<n>>) => e = [offset |-> 4, byte |-> n]
          /\ e \in Bytes(5 + 41 * n, <<m>>) => e = [offset |-> 5 + 41 * n, byte |-> m]
      BY <1>3, Zenon
    <3>4. e \in AllBytes({41 * k : k \in 1 .. n}, Final)
            => \E k \in 1 .. n : e \in Bytes(41 * k, Final)
      BY <1>5, Zenon
    <3>5. e \in AllBytes({41 * n + 43 * j - 29 : j \in 1 .. m}, <<34>>)
            => \E j \in 1 .. m : e = [offset |-> 41 * n + 43 * j - 29, byte |-> 34]
      BY <1>4, Zenon
    <3> QED
      BY <3>1, <3>2, <3>3, <3>4, <3>5, Zenon
  <2> QED
    BY <2>1, <2>2, <2>3, <2>4, <2>5, <2>6, <2>7
<1> QED
  BY <1>7, <1>8

\* A field of the form is one of its fields.
LEMMA FieldOfForm ==
  ASSUME NEW n, NEW m, NEW c, NEW name \in TxNames, NEW i \in 1 .. c[name]
  PROVE  TxField(n, m, name, i) \in TxFields(n, m, c)
BY DEF TxFields

\* A reading with the sizes, offsets and slices of the form reads the form.
LEMMA ReadsForm ==
  ASSUME NEW n \in 0 .. 252, NEW m \in 0 .. 252, reading.inputs = n, reading.outputs = m,
         reading.size = 10 + 41 * n + 43 * m, reading.expects = TxExpects(n, m),
         reading.takes \subseteq TxFields(n, m, Count(1, 1, n, n, n, n, 1, m, m, 1))
  PROVE  ReadsTransaction(n, m)
<1>1. n \in Nat /\ m \in Nat
  OBVIOUS
<1>2. Pinned(n, m) /\ OnlyPinned(n, m)
  BY <1>1, TxPinned
<1> QED
  BY <1>2 DEF ReadsTransaction

\* OneInputTwoOutput reads the form for 1 input and 2 outputs.
LEMMA ReadsOneInputTwoOutput ==
  ASSUME reading = OneInputTwoOutput
  PROVE  ReadsTransaction(1, 2)
<1> DEFINE n == 1
           m == 2
           size == 137
           ins == {41}
           middle == 46
           outs == {55, 98}
           c == Count(1, 1, n, n, n, n, 1, m, m, 1)
<1>0. 41 \in Int
  OBVIOUS
<1>1. /\ reading.inputs = n /\ reading.outputs = m /\ reading.size = size
      /\ reading.expects = CommonTransaction(137) \cup Bytes(4, <<1>>)
                          \cup Bytes(41, Final \o <<2>>) \cup AllBytes({55, 98}, <<34>>)
      /\ reading.takes =
           {Slice("txid", 1, 5, 32),
           Slice("vout", 1, 37, 4),
           Slice("amount", 1, 47, 8),
           Slice("spk", 1, 56, 34),
           Slice("amount", 2, 90, 8),
           Slice("spk", 2, 99, 34)}
  BY DEF OneInputTwoOutput, CheckOneInputTwoOutput, PrevoutSlices
<1>2. /\ n \in 0 .. 252 /\ m \in 0 .. 252 /\ size = 10 + 41 * n + 43 * m
      /\ middle = 5 + 41 * n
      /\ ins = {41 * k : k \in 1 .. n}
      /\ outs = {41 * n + 43 * j - 29 : j \in 1 .. m}
  <2>1. ins = {41 * k : k \in 1 .. n}
    <3>1. 1 .. n = {1}
      OBVIOUS
    <3> QED
      BY <3>1
  <2>2. outs = {41 * n + 43 * j - 29 : j \in 1 .. m}
    <3>1. 1 .. m = {1, 2}
      OBVIOUS
    <3> QED
      BY <3>1
  <2> QED
    BY <2>1, <2>2
<1>3. Bytes(41, Final \o <<m>>) = AllBytes(ins, Final) \cup Bytes(middle, <<m>>)
  <2>1. Bytes(41, Final \o <<m>>) = Bytes(41, Final) \cup Bytes(41 + 5, <<m>>)
    BY FinalAnd, Zenon, <1>0
  <2>2. 41 + 5 = middle
    OBVIOUS
  <2>3. AllBytes(ins, Final) = Bytes(41, Final)
    BY DEF AllBytes
  <2> QED
    BY <2>1, <2>2, <2>3, Zenon
<1>4. TxExpects(n, m) = CommonTransaction(size) \cup Bytes(4, <<n>>)
                          \cup AllBytes(ins, Final) \cup Bytes(middle, <<m>>)
                          \cup AllBytes(outs, <<34>>)
  BY <1>2, Zenon DEF TxExpects
<1>5. reading.expects = CommonTransaction(size) \cup Bytes(4, <<n>>)
                          \cup AllBytes(ins, Final) \cup Bytes(middle, <<m>>)
                          \cup AllBytes(outs, <<34>>)
  BY <1>1, <1>3, Zenon
<1>6. reading.takes \subseteq TxFields(n, m, c)
  <2>1. {"txid", "vout", "amount", "spk"} \subseteq TxNames
    BY DEF TxNames
  <2>2. c["txid"] = n /\ c["vout"] = n /\ c["amount"] = m /\ c["spk"] = m
    BY DEF Count
  <2>3. /\ Slice("txid", 1, 5, 32) = TxField(n, m, "txid", 1)
        /\ Slice("vout", 1, 37, 4) = TxField(n, m, "vout", 1)
        /\ Slice("amount", 1, 47, 8) = TxField(n, m, "amount", 1)
        /\ Slice("spk", 1, 56, 34) = TxField(n, m, "spk", 1)
        /\ Slice("amount", 2, 90, 8) = TxField(n, m, "amount", 2)
        /\ Slice("spk", 2, 99, 34) = TxField(n, m, "spk", 2)
    BY DEF TxField, TxStart, TxLength
  <2>4. /\ 1 \in 1 .. c["txid"]
        /\ 1 \in 1 .. c["vout"]
        /\ 1 \in 1 .. c["amount"]
        /\ 1 \in 1 .. c["spk"]
        /\ 2 \in 1 .. c["amount"]
        /\ 2 \in 1 .. c["spk"]
    BY <2>2
  <2> HIDE DEF n, m, c
  <2>5. /\ TxField(n, m, "txid", 1) \in TxFields(n, m, c)
        /\ TxField(n, m, "vout", 1) \in TxFields(n, m, c)
        /\ TxField(n, m, "amount", 1) \in TxFields(n, m, c)
        /\ TxField(n, m, "spk", 1) \in TxFields(n, m, c)
        /\ TxField(n, m, "amount", 2) \in TxFields(n, m, c)
        /\ TxField(n, m, "spk", 2) \in TxFields(n, m, c)
    BY <2>1, <2>4, FieldOfForm, Zenon
  <2> QED
    BY <1>1, <2>3, <2>5
<1> HIDE DEF n, m, size, ins, middle, outs
<1>7. reading.expects = TxExpects(n, m) /\ reading.size = 10 + 41 * n + 43 * m
  <2>1. reading.expects = TxExpects(n, m)
    BY <1>4, <1>5, Zenon
  <2>2. reading.size = 10 + 41 * n + 43 * m
    BY <1>1, <1>2, Zenon
  <2> QED
    BY <2>1, <2>2
<1>8. /\ n \in 0 .. 252 /\ m \in 0 .. 252
      /\ reading.inputs = n /\ reading.outputs = m
  BY <1>1, <1>2
<1>9. ReadsTransaction(n, m)
  BY <1>6, <1>7, <1>8, ReadsForm, Zenon
<1> QED
  BY <1>9 DEF n, m

\* TwoInputThreeOutput reads the form for 2 inputs and 3 outputs.
LEMMA ReadsTwoInputThreeOutput ==
  ASSUME reading = TwoInputThreeOutput
  PROVE  ReadsTransaction(2, 3)
<1> DEFINE n == 2
           m == 3
           size == 221
           ins == {41, 82}
           middle == 87
           outs == {96, 139, 182}
           c == Count(1, 1, n, n, n, n, 1, m, m, 1)
<1>0. 82 \in Int
  OBVIOUS
<1>1. /\ reading.inputs = n /\ reading.outputs = m /\ reading.size = size
      /\ reading.expects = CommonTransaction(221) \cup Bytes(4, <<2>>)
                          \cup Bytes(41, Final) \cup Bytes(82, Final \o <<3>>)
                          \cup AllBytes({96, 139, 182}, <<34>>)
      /\ reading.takes =
           {Slice("txid", 1, 5, 32),
           Slice("vout", 1, 37, 4),
           Slice("amount", 1, 88, 8),
           Slice("spk", 1, 97, 34),
           Slice("spk", 2, 140, 34),
           Slice("amount", 3, 174, 8),
           Slice("spk", 3, 183, 34)}
  BY DEF TwoInputThreeOutput, PrevoutSlices
<1>2. /\ n \in 0 .. 252 /\ m \in 0 .. 252 /\ size = 10 + 41 * n + 43 * m
      /\ middle = 5 + 41 * n
      /\ ins = {41 * k : k \in 1 .. n}
      /\ outs = {41 * n + 43 * j - 29 : j \in 1 .. m}
  <2>1. ins = {41 * k : k \in 1 .. n}
    <3>1. 1 .. n = {1, 2}
      OBVIOUS
    <3> QED
      BY <3>1
  <2>2. outs = {41 * n + 43 * j - 29 : j \in 1 .. m}
    <3>1. 1 .. m = {1, 2, 3}
      OBVIOUS
    <3> QED
      BY <3>1
  <2> QED
    BY <2>1, <2>2
<1>3. Bytes(41, Final) \cup Bytes(82, Final \o <<m>>)
        = AllBytes(ins, Final) \cup Bytes(middle, <<m>>)
  <2>1. Bytes(82, Final \o <<m>>) = Bytes(82, Final) \cup Bytes(82 + 5, <<m>>)
    BY FinalAnd, Zenon, <1>0
  <2>2. 82 + 5 = middle
    OBVIOUS
  <2>3. AllBytes(ins, Final) = Bytes(41, Final) \cup Bytes(82, Final)
    BY DEF AllBytes
  <2> QED
    BY <2>1, <2>2, <2>3, Zenon
<1>4. TxExpects(n, m) = CommonTransaction(size) \cup Bytes(4, <<n>>)
                          \cup AllBytes(ins, Final) \cup Bytes(middle, <<m>>)
                          \cup AllBytes(outs, <<34>>)
  BY <1>2, Zenon DEF TxExpects
<1>5. reading.expects = CommonTransaction(size) \cup Bytes(4, <<n>>)
                          \cup AllBytes(ins, Final) \cup Bytes(middle, <<m>>)
                          \cup AllBytes(outs, <<34>>)
  <2>1. \A p, x, y, z, w, u :
          x \cup y = z \cup w => ((p \cup x) \cup y) \cup u = ((p \cup z) \cup w) \cup u
    OBVIOUS
  <2> DEFINE p == CommonTransaction(221) \cup Bytes(4, <<2>>)
             x == Bytes(41, Final)
             y == Bytes(82, Final \o <<3>>)
             z == AllBytes(ins, Final)
             w == Bytes(middle, <<m>>)
             u == AllBytes(outs, <<34>>)
  <2>2. reading.expects = ((p \cup x) \cup y) \cup u
    BY <1>1, Zenon
  <2>3. x \cup y = z \cup w
    BY <1>3, Zenon
  <2> HIDE DEF p, x, y, z, w, u
  <2>4. reading.expects = ((p \cup z) \cup w) \cup u
    BY <2>1, <2>2, <2>3, Zenon
  <2> QED
    BY <2>4, Zenon DEF p, z, w, u
<1>6. reading.takes \subseteq TxFields(n, m, c)
  <2>1. {"txid", "vout", "amount", "spk"} \subseteq TxNames
    BY DEF TxNames
  <2>2. c["txid"] = n /\ c["vout"] = n /\ c["amount"] = m /\ c["spk"] = m
    BY DEF Count
  <2>3. /\ Slice("txid", 1, 5, 32) = TxField(n, m, "txid", 1)
        /\ Slice("vout", 1, 37, 4) = TxField(n, m, "vout", 1)
        /\ Slice("amount", 1, 88, 8) = TxField(n, m, "amount", 1)
        /\ Slice("spk", 1, 97, 34) = TxField(n, m, "spk", 1)
        /\ Slice("spk", 2, 140, 34) = TxField(n, m, "spk", 2)
        /\ Slice("amount", 3, 174, 8) = TxField(n, m, "amount", 3)
        /\ Slice("spk", 3, 183, 34) = TxField(n, m, "spk", 3)
    BY DEF TxField, TxStart, TxLength
  <2>4. /\ 1 \in 1 .. c["txid"]
        /\ 1 \in 1 .. c["vout"]
        /\ 1 \in 1 .. c["amount"]
        /\ 1 \in 1 .. c["spk"]
        /\ 2 \in 1 .. c["spk"]
        /\ 3 \in 1 .. c["amount"]
        /\ 3 \in 1 .. c["spk"]
    BY <2>2
  <2> HIDE DEF n, m, c
  <2>5. /\ TxField(n, m, "txid", 1) \in TxFields(n, m, c)
        /\ TxField(n, m, "vout", 1) \in TxFields(n, m, c)
        /\ TxField(n, m, "amount", 1) \in TxFields(n, m, c)
        /\ TxField(n, m, "spk", 1) \in TxFields(n, m, c)
        /\ TxField(n, m, "spk", 2) \in TxFields(n, m, c)
        /\ TxField(n, m, "amount", 3) \in TxFields(n, m, c)
        /\ TxField(n, m, "spk", 3) \in TxFields(n, m, c)
    BY <2>1, <2>4, FieldOfForm, Zenon
  <2> QED
    BY <1>1, <2>3, <2>5
<1> HIDE DEF n, m, size, ins, middle, outs
<1>7. reading.expects = TxExpects(n, m) /\ reading.size = 10 + 41 * n + 43 * m
  <2>1. reading.expects = TxExpects(n, m)
    BY <1>4, <1>5, Zenon
  <2>2. reading.size = 10 + 41 * n + 43 * m
    BY <1>1, <1>2, Zenon
  <2> QED
    BY <2>1, <2>2
<1>8. /\ n \in 0 .. 252 /\ m \in 0 .. 252
      /\ reading.inputs = n /\ reading.outputs = m
  BY <1>1, <1>2
<1>9. ReadsTransaction(n, m)
  BY <1>6, <1>7, <1>8, ReadsForm, Zenon
<1> QED
  BY <1>9 DEF n, m

\* CollectionTransaction reads the form for 4 inputs and 3 outputs.
LEMMA ReadsCollectionTransaction ==
  ASSUME reading = CollectionTransaction
  PROVE  ReadsTransaction(4, 3)
<1> DEFINE n == 4
           m == 3
           size == 303
           ins == {41, 82, 123, 164}
           middle == 169
           outs == {178, 221, 264}
           c == Count(1, 1, n, n, n, n, 1, m, m, 1)
<1>1. /\ reading.inputs = n /\ reading.outputs = m /\ reading.size = size
      /\ reading.expects = CommonTransaction(303) \cup Bytes(4, <<4>>)
                          \cup AllBytes({41, 82, 123, 164}, Final)
                          \cup Bytes(169, <<3>>) \cup AllBytes({178, 221, 264}, <<34>>)
      /\ reading.takes =
           {Slice("txid", 1, 5, 32),
           Slice("vout", 1, 37, 4),
           Slice("amount", 1, 170, 8),
           Slice("spk", 1, 179, 34),
           Slice("spk", 2, 222, 34),
           Slice("amount", 3, 256, 8),
           Slice("spk", 3, 265, 34)}
  BY DEF CollectionTransaction, PrevoutSlices
<1>2. /\ n \in 0 .. 252 /\ m \in 0 .. 252 /\ size = 10 + 41 * n + 43 * m
      /\ middle = 5 + 41 * n
      /\ ins = {41 * k : k \in 1 .. n}
      /\ outs = {41 * n + 43 * j - 29 : j \in 1 .. m}
  <2>1. ins = {41 * k : k \in 1 .. n}
    <3>1. 1 .. n = {1, 2, 3, 4}
      OBVIOUS
    <3> QED
      BY <3>1
  <2>2. outs = {41 * n + 43 * j - 29 : j \in 1 .. m}
    <3>1. 1 .. m = {1, 2, 3}
      OBVIOUS
    <3> QED
      BY <3>1
  <2> QED
    BY <2>1, <2>2
<1>4. TxExpects(n, m) = CommonTransaction(size) \cup Bytes(4, <<n>>)
                          \cup AllBytes(ins, Final) \cup Bytes(middle, <<m>>)
                          \cup AllBytes(outs, <<34>>)
  BY <1>2, Zenon DEF TxExpects
<1>5. reading.expects = CommonTransaction(size) \cup Bytes(4, <<n>>)
                          \cup AllBytes(ins, Final) \cup Bytes(middle, <<m>>)
                          \cup AllBytes(outs, <<34>>)
  BY <1>1, Zenon
<1>6. reading.takes \subseteq TxFields(n, m, c)
  <2>1. {"txid", "vout", "amount", "spk"} \subseteq TxNames
    BY DEF TxNames
  <2>2. c["txid"] = n /\ c["vout"] = n /\ c["amount"] = m /\ c["spk"] = m
    BY DEF Count
  <2>3. /\ Slice("txid", 1, 5, 32) = TxField(n, m, "txid", 1)
        /\ Slice("vout", 1, 37, 4) = TxField(n, m, "vout", 1)
        /\ Slice("amount", 1, 170, 8) = TxField(n, m, "amount", 1)
        /\ Slice("spk", 1, 179, 34) = TxField(n, m, "spk", 1)
        /\ Slice("spk", 2, 222, 34) = TxField(n, m, "spk", 2)
        /\ Slice("amount", 3, 256, 8) = TxField(n, m, "amount", 3)
        /\ Slice("spk", 3, 265, 34) = TxField(n, m, "spk", 3)
    BY DEF TxField, TxStart, TxLength
  <2>4. /\ 1 \in 1 .. c["txid"]
        /\ 1 \in 1 .. c["vout"]
        /\ 1 \in 1 .. c["amount"]
        /\ 1 \in 1 .. c["spk"]
        /\ 2 \in 1 .. c["spk"]
        /\ 3 \in 1 .. c["amount"]
        /\ 3 \in 1 .. c["spk"]
    BY <2>2
  <2> HIDE DEF n, m, c
  <2>5. /\ TxField(n, m, "txid", 1) \in TxFields(n, m, c)
        /\ TxField(n, m, "vout", 1) \in TxFields(n, m, c)
        /\ TxField(n, m, "amount", 1) \in TxFields(n, m, c)
        /\ TxField(n, m, "spk", 1) \in TxFields(n, m, c)
        /\ TxField(n, m, "spk", 2) \in TxFields(n, m, c)
        /\ TxField(n, m, "amount", 3) \in TxFields(n, m, c)
        /\ TxField(n, m, "spk", 3) \in TxFields(n, m, c)
    BY <2>1, <2>4, FieldOfForm, Zenon
  <2> QED
    BY <1>1, <2>3, <2>5
<1> HIDE DEF n, m, size, ins, middle, outs
<1>7. reading.expects = TxExpects(n, m) /\ reading.size = 10 + 41 * n + 43 * m
  <2>1. reading.expects = TxExpects(n, m)
    BY <1>4, <1>5, Zenon
  <2>2. reading.size = 10 + 41 * n + 43 * m
    BY <1>1, <1>2, Zenon
  <2> QED
    BY <2>1, <2>2
<1>8. /\ n \in 0 .. 252 /\ m \in 0 .. 252
      /\ reading.inputs = n /\ reading.outputs = m
  BY <1>1, <1>2
<1>9. ReadsTransaction(n, m)
  BY <1>6, <1>7, <1>8, ReadsForm, Zenon
<1> QED
  BY <1>9 DEF n, m

\* SettlementTransaction reads the form for 2 inputs and 4 outputs.
LEMMA ReadsSettlementTransaction ==
  ASSUME reading = SettlementTransaction
  PROVE  ReadsTransaction(2, 4)
<1> DEFINE n == 2
           m == 4
           size == 264
           ins == {41, 82}
           middle == 87
           outs == {96, 139, 182, 225}
           c == Count(1, 1, n, n, n, n, 1, m, m, 1)
<1>1. /\ reading.inputs = n /\ reading.outputs = m /\ reading.size = size
      /\ reading.expects = CommonTransaction(264) \cup Bytes(4, <<2>>)
                          \cup AllBytes({41, 82}, Final) \cup Bytes(87, <<4>>)
                          \cup AllBytes({96, 139, 182, 225}, <<34>>)
      /\ reading.takes =
           {Slice("txid", 1, 5, 32),
           Slice("vout", 1, 37, 4),
           Slice("amount", 1, 88, 8),
           Slice("spk", 1, 97, 34),
           Slice("spk", 3, 183, 34),
           Slice("amount", 4, 217, 8),
           Slice("spk", 4, 226, 34)}
  BY DEF SettlementTransaction, SettlementSlices, PrevoutSlices
<1>2. /\ n \in 0 .. 252 /\ m \in 0 .. 252 /\ size = 10 + 41 * n + 43 * m
      /\ middle = 5 + 41 * n
      /\ ins = {41 * k : k \in 1 .. n}
      /\ outs = {41 * n + 43 * j - 29 : j \in 1 .. m}
  <2>1. ins = {41 * k : k \in 1 .. n}
    <3>1. 1 .. n = {1, 2}
      OBVIOUS
    <3> QED
      BY <3>1
  <2>2. outs = {41 * n + 43 * j - 29 : j \in 1 .. m}
    <3>1. 1 .. m = {1, 2, 3, 4}
      OBVIOUS
    <3> QED
      BY <3>1
  <2> QED
    BY <2>1, <2>2
<1>4. TxExpects(n, m) = CommonTransaction(size) \cup Bytes(4, <<n>>)
                          \cup AllBytes(ins, Final) \cup Bytes(middle, <<m>>)
                          \cup AllBytes(outs, <<34>>)
  BY <1>2, Zenon DEF TxExpects
<1>5. reading.expects = CommonTransaction(size) \cup Bytes(4, <<n>>)
                          \cup AllBytes(ins, Final) \cup Bytes(middle, <<m>>)
                          \cup AllBytes(outs, <<34>>)
  BY <1>1, Zenon
<1>6. reading.takes \subseteq TxFields(n, m, c)
  <2>1. {"txid", "vout", "amount", "spk"} \subseteq TxNames
    BY DEF TxNames
  <2>2. c["txid"] = n /\ c["vout"] = n /\ c["amount"] = m /\ c["spk"] = m
    BY DEF Count
  <2>3. /\ Slice("txid", 1, 5, 32) = TxField(n, m, "txid", 1)
        /\ Slice("vout", 1, 37, 4) = TxField(n, m, "vout", 1)
        /\ Slice("amount", 1, 88, 8) = TxField(n, m, "amount", 1)
        /\ Slice("spk", 1, 97, 34) = TxField(n, m, "spk", 1)
        /\ Slice("spk", 3, 183, 34) = TxField(n, m, "spk", 3)
        /\ Slice("amount", 4, 217, 8) = TxField(n, m, "amount", 4)
        /\ Slice("spk", 4, 226, 34) = TxField(n, m, "spk", 4)
    BY DEF TxField, TxStart, TxLength
  <2>4. /\ 1 \in 1 .. c["txid"]
        /\ 1 \in 1 .. c["vout"]
        /\ 1 \in 1 .. c["amount"]
        /\ 1 \in 1 .. c["spk"]
        /\ 3 \in 1 .. c["spk"]
        /\ 4 \in 1 .. c["amount"]
        /\ 4 \in 1 .. c["spk"]
    BY <2>2
  <2> HIDE DEF n, m, c
  <2>5. /\ TxField(n, m, "txid", 1) \in TxFields(n, m, c)
        /\ TxField(n, m, "vout", 1) \in TxFields(n, m, c)
        /\ TxField(n, m, "amount", 1) \in TxFields(n, m, c)
        /\ TxField(n, m, "spk", 1) \in TxFields(n, m, c)
        /\ TxField(n, m, "spk", 3) \in TxFields(n, m, c)
        /\ TxField(n, m, "amount", 4) \in TxFields(n, m, c)
        /\ TxField(n, m, "spk", 4) \in TxFields(n, m, c)
    BY <2>1, <2>4, FieldOfForm, Zenon
  <2> QED
    BY <1>1, <2>3, <2>5
<1> HIDE DEF n, m, size, ins, middle, outs
<1>7. reading.expects = TxExpects(n, m) /\ reading.size = 10 + 41 * n + 43 * m
  <2>1. reading.expects = TxExpects(n, m)
    BY <1>4, <1>5, Zenon
  <2>2. reading.size = 10 + 41 * n + 43 * m
    BY <1>1, <1>2, Zenon
  <2> QED
    BY <2>1, <2>2
<1>8. /\ n \in 0 .. 252 /\ m \in 0 .. 252
      /\ reading.inputs = n /\ reading.outputs = m
  BY <1>1, <1>2
<1>9. ReadsTransaction(n, m)
  BY <1>6, <1>7, <1>8, ReadsForm, Zenon
<1> QED
  BY <1>9 DEF n, m

-----------------------------------------------------------------------------
(* Formats without vectors                                                 *)

\* What is left of a format after k items.
Left(k) == [i \in 1 .. Len(format) - k |-> format[k + i]]

\* A step takes the first item of what is left.
LEMMA LeftAre ==
  ASSUME NEW S, format \in Seq(S), NEW k \in 0 .. Len(format)
  PROVE  /\ Left(0) = format
         /\ k = Len(format) <=> Left(k) = <<>>
         /\ k < Len(format) => Head(Left(k)) = format[k + 1] /\ Tail(Left(k)) = Left(k + 1)
<1>1. Len(format) \in Nat /\ \A i \in 1 .. Len(format) : format[i] \in S
  BY LenProperties, ElementOfSeq
<1>2. ASSUME NEW j \in 0 .. Len(format)
      PROVE  /\ Left(j) \in Seq(S) /\ Len(Left(j)) = Len(format) - j
             /\ \A i \in 1 .. Len(format) - j : Left(j)[i] = format[j + i]
  <2>1. Len(format) - j \in Nat /\ \A i \in 1 .. Len(format) - j : j + i \in 1 .. Len(format)
    BY <1>1
  <2>2. \A i \in 1 .. Len(format) - j : format[j + i] \in S
    BY <1>1, <2>1
  <2> QED
    BY <2>1, <2>2 DEF Left
<1>3. Left(0) = format
  <2>1. 0 \in 0 .. Len(format) /\ Len(format) - 0 = Len(format)
        /\ \A i \in 1 .. Len(format) : 0 + i = i
    BY <1>1
  <2>2. /\ Left(0) \in Seq(S) /\ Len(Left(0)) = Len(format)
        /\ \A i \in 1 .. Len(format) : Left(0)[i] = format[i]
    BY <1>2, <2>1
  <2> QED
    BY <2>2, SeqEqual
<1>4. k = Len(format) <=> Left(k) = <<>>
  BY <1>1, <1>2, EmptySeq, SeqEqual
<1>5. ASSUME k < Len(format)
      PROVE  Head(Left(k)) = format[k + 1] /\ Tail(Left(k)) = Left(k + 1)
  <2>1. /\ k + 1 \in 0 .. Len(format) /\ 1 \in 1 .. Len(format) - k
        /\ Len(format) - (k + 1) = Len(format) - k - 1
    BY <1>1, <1>5
  <2>2. Left(k) \in Seq(S) /\ Left(k) # <<>> /\ Len(Left(k)) = Len(format) - k
    BY <1>2, <1>4, <1>5
  <2>3. Head(Left(k)) = Left(k)[1]
    BY <2>2, HeadTailProperties
  <2>4. /\ Tail(Left(k)) \in Seq(S) /\ Len(Tail(Left(k))) = Len(format) - k - 1
        /\ \A i \in 1 .. Len(Tail(Left(k))) : Tail(Left(k))[i] = Left(k)[i + 1]
    BY <2>2, HeadTailProperties
  <2>5. /\ Left(k + 1) \in Seq(S) /\ Len(Left(k + 1)) = Len(format) - k - 1
        /\ \A i \in 1 .. Len(format) - k - 1 : Left(k + 1)[i] = format[k + 1 + i]
    BY <1>2, <2>1
  <2>6. \A i \in 1 .. Len(format) - k - 1 : Tail(Left(k))[i] = Left(k + 1)[i]
    <3>1. ASSUME NEW i \in 1 .. Len(format) - k - 1
          PROVE  Tail(Left(k))[i] = Left(k + 1)[i]
      <4>1. i + 1 \in 1 .. Len(format) - k /\ k + (i + 1) = k + 1 + i
        BY <1>1
      <4> QED
        BY <1>2, <2>4, <2>5, <4>1
    <3> QED
      BY <3>1
  <2>7. Tail(Left(k)) = Left(k + 1)
    BY <2>4, <2>5, <2>6, SeqEqual
  <2> QED
    BY <1>2, <2>1, <2>3, <2>7
<1> QED
  BY <1>3, <1>4, <1>5

\* A plan is the slices, in order, that a format's items are to be.
PlanEnd(plan, k) == IF k = 0 THEN 0 ELSE plan[k].start + plan[k].length

\* The program insists on 34 at an offset, or does not look.
MayBe34(o) == \A e \in reading.expects : e.offset = o => e.byte = 34

\* The k-th item follows the plan: the bytes the format has are bytes the
\* program accepts, and where it has a string it has a script.
Follows(plan, k) ==
  \/ /\ format[k] = Data(plan[k].name, plan[k].length)
     /\ plan[k].start = PlanEnd(plan, k - 1)
  \/ \E bytes \in Seq(Nat) :
       /\ format[k] = Known(plan[k].name, bytes)
       /\ plan[k].start = PlanEnd(plan, k - 1)
       /\ plan[k].length = Len(bytes)
       /\ Agree(plan[k].start, bytes)
  \/ /\ format[k] = String(plan[k].name)
     /\ plan[k].name \in {"spk", "withdrawal_destination"}
     /\ plan[k].start = PlanEnd(plan, k - 1) + 1
     /\ plan[k].length = 34
     /\ MayBe34(PlanEnd(plan, k - 1))

\* The slices of a name have the ordinals from 1 on.
InOrder(plan, k) ==
  /\ \A i \in 1 .. k - 1 :
       plan[i].name = plan[k].name => plan[i].ordinal < plan[k].ordinal
  /\ \A o \in 1 .. plan[k].ordinal - 1 :
       \E i \in 1 .. k - 1 : plan[i].name = plan[k].name /\ plan[i].ordinal = o

SliceOf(plan, k) ==
  /\ plan[k].ordinal \in Nat \ {0} /\ plan[k].start \in Nat /\ plan[k].length \in Nat
  /\ plan[k] = Slice(plan[k].name, plan[k].ordinal, plan[k].start, plan[k].length)

Planned(plan) ==
  /\ Len(format) > 0 /\ \E S : format \in Seq(S)
  /\ \A k \in 1 .. Len(format) :
       Follows(plan, k) /\ InOrder(plan, k) /\ SliceOf(plan, k)
  /\ reading.size = PlanEnd(plan, Len(format))
  /\ reading.takes \subseteq {plan[i] : i \in 1 .. Len(format)}

\* If the k-th item is a string, the program insists on its length.
LengthPinned(plan, k) ==
  format[k].kind = "string" => Wants(PlanEnd(plan, k - 1), 34)

FlatStage(plan, k) ==
  rest = Left(k) /\ at = PlanEnd(plan, k) /\ fields = {plan[i] : i \in 1 .. k}

\* After k items the next field has the plan's ordinal.
LEMMA OrdinalIs ==
  ASSUME NEW plan, Planned(plan), NEW k \in 1 .. Len(format),
         fields = {plan[i] : i \in 1 .. k - 1}
  PROVE  Cardinality(Named(plan[k].name)) + 1 = plan[k].ordinal
<1> DEFINE name == plan[k].name
           n == plan[k].ordinal - 1
<1>1. n \in Nat /\ Len(format) \in Nat
  BY DEF Planned, SliceOf
<1>2. \A i \in 1 .. k - 1 : i \in 1 .. Len(format)
  BY <1>1
<1>3. \A i \in 1 .. Len(format) : plan[i].ordinal \in Nat \ {0} /\ InOrder(plan, i)
  BY DEF Planned, SliceOf
<1>4. \A f \in Named(name) : \E i \in 1 .. k - 1 : f = plan[i] /\ plan[i].name = name
  BY DEF Named
<1>5. \A i \in 1 .. k - 1 : plan[i].name = name => plan[i] \in Named(name)
  BY DEF Named
<1>6. \A f \in Named(name) : f.ordinal \in 1 .. n
  <2> SUFFICES ASSUME NEW f \in Named(name) PROVE f.ordinal \in 1 .. n
    OBVIOUS
  <2>1. PICK i \in 1 .. k - 1 : f = plan[i] /\ plan[i].name = name
    BY <1>4
  <2>2. plan[i].ordinal \in Nat \ {0} /\ plan[i].ordinal < plan[k].ordinal
    BY <1>2, <1>3, <2>1 DEF InOrder
  <2> QED
    BY <1>1, <1>3, <2>1, <2>2
<1>7. \A o \in 1 .. n : \E f \in Named(name) : f.ordinal = o
  <2> SUFFICES ASSUME NEW o \in 1 .. n PROVE \E f \in Named(name) : f.ordinal = o
    OBVIOUS
  <2>1. PICK i \in 1 .. k - 1 : plan[i].name = name /\ plan[i].ordinal = o
    BY <1>3 DEF InOrder
  <2> QED
    BY <1>5, <2>1
<1>8. \A f, g \in Named(name) : f.ordinal = g.ordinal => f = g
  <2> SUFFICES ASSUME NEW f \in Named(name), NEW g \in Named(name), f.ordinal = g.ordinal
               PROVE  f = g
    OBVIOUS
  <2>1. PICK i \in 1 .. k - 1 : f = plan[i] /\ plan[i].name = name
    BY <1>4
  <2>2. PICK j \in 1 .. k - 1 : g = plan[j] /\ plan[j].name = name
    BY <1>4
  <2>3. ~ (i < j)
    <3>1. SUFFICES ASSUME i < j PROVE FALSE
      OBVIOUS
    <3>2. i \in 1 .. j - 1 /\ j \in 1 .. Len(format) /\ i \in 1 .. Len(format)
      BY <1>1, <3>1
    <3>3. plan[i].ordinal < plan[j].ordinal
      BY <1>3, <2>1, <2>2, <3>2 DEF InOrder
    <3> QED
      BY <1>3, <2>1, <2>2, <3>2, <3>3
  <2>4. ~ (j < i)
    <3>1. SUFFICES ASSUME j < i PROVE FALSE
      OBVIOUS
    <3>2. j \in 1 .. i - 1 /\ j \in 1 .. Len(format) /\ i \in 1 .. Len(format)
      BY <1>1, <3>1
    <3>3. plan[j].ordinal < plan[i].ordinal
      BY <1>3, <2>1, <2>2, <3>2 DEF InOrder
    <3> QED
      BY <1>3, <2>1, <2>2, <3>2, <3>3
  <2>5. i = j
    BY <2>3, <2>4
  <2> QED
    BY <2>1, <2>2, <2>5
<1> HIDE DEF name, n
<1>9. Cardinality(Named(name)) = n
  BY <1>1, <1>6, <1>7, <1>8, OrdinalsCount
<1> QED
  BY <1>3, <1>9 DEF name, n

\* Each step writes the next slice of the plan, if the string's length is
\* insisted on and agrees, or is what an honest writer puts there.
LEMMA FlatNext ==
  ASSUME NEW plan, Planned(plan), NEW k \in 0 .. Len(format), FlatStage(plan, k), Next,
         (LengthPinned(plan, k + 1) /\ agrees') \/ Honest'
  PROVE  k + 1 \in 1 .. Len(format) /\ agrees' /\ FlatStage(plan, k + 1)'
<1> DEFINE j == k + 1
<1>0. PICK S : format \in Seq(S)
  BY DEF Planned
<1>1. /\ agrees /\ rest # <<>> /\ UNCHANGED <<reading, format>>
      /\ rest' = Tail(rest) \/ Head(rest).kind = "vector"
  BY DEF Next, WriteData, WriteKnown, WriteString, WriteVector, Starts
<1>2. Len(format) \in Nat /\ rest = Left(k) /\ at = PlanEnd(plan, k)
  BY <1>0 DEF FlatStage
<1>3. j \in 1 .. Len(format) /\ j - 1 = k /\ j \in Nat /\ j # 0
  <2>1. k # Len(format)
    BY <1>0, <1>1, <1>2, LeftAre
  <2> QED
    BY <1>2, <2>1
<1>4. Head(rest) = format[j] /\ Tail(rest) = Left(j)
  <2>1. k < Len(format)
    BY <1>2, <1>3
  <2> QED
    BY <1>0, <1>2, <2>1, LeftAre
<1> HIDE DEF j
<1>5. Follows(plan, j) /\ SliceOf(plan, j) /\ PlanEnd(plan, j - 1) = at
  BY <1>2, <1>3 DEF Planned
<1>6. at \in Int /\ reading.size \in Int
  <2>1. \A i \in 1 .. Len(format) : plan[i].start + plan[i].length \in Int
    BY DEF Planned, SliceOf
  <2>2. \A i \in 0 .. Len(format) : PlanEnd(plan, i) \in Int
    <3> TAKE i \in 0 .. Len(format)
    <3>1. CASE i = 0
      BY <3>1 DEF PlanEnd
    <3>2. CASE i # 0
      <4>1. i \in 1 .. Len(format)
        BY <1>2, <3>2
      <4> QED
        BY <2>1, <3>2, <4>1 DEF PlanEnd
    <3> QED
      BY <3>1, <3>2
  <2>3. Len(format) \in 0 .. Len(format)
    BY <1>2
  <2>4. reading.size = PlanEnd(plan, Len(format))
    BY DEF Planned
  <2> QED
    BY <1>2, <2>2, <2>3, <2>4
<1>7. Field(plan[j].name, plan[j].start, plan[j].length) = {plan[i] : i \in 1 .. j}
  <2>1. fields = {plan[i] : i \in 1 .. j - 1}
    BY <1>3 DEF FlatStage
  <2>2. Cardinality(Named(plan[j].name)) + 1 = plan[j].ordinal
    BY <1>3, <2>1, OrdinalIs
  <2>3. Field(plan[j].name, plan[j].start, plan[j].length) = fields \cup {plan[j]}
    BY <1>5, <2>2 DEF Field, SliceOf
  <2>4. 1 .. j = (1 .. j - 1) \cup {j}
    BY <1>3
  <2> QED
    BY <2>1, <2>3, <2>4
<1>8. PlanEnd(plan, j) = plan[j].start + plan[j].length
  BY <1>3 DEF PlanEnd
<1>9. SUFFICES /\ agrees' /\ rest' = Tail(rest)
               /\ at' = plan[j].start + plan[j].length
               /\ fields' = Field(plan[j].name, plan[j].start, plan[j].length)
  <2>1. ASSUME /\ agrees' /\ rest' = Tail(rest)
               /\ at' = plan[j].start + plan[j].length
               /\ fields' = Field(plan[j].name, plan[j].start, plan[j].length)
        PROVE  agrees' /\ FlatStage(plan, j)'
    <3>1. rest' = Left(j)'
      BY <1>1, <1>4, <2>1 DEF Left
    <3> QED
      BY <1>7, <1>8, <2>1, <3>1 DEF FlatStage
  <2> QED
    BY <1>3, <2>1 DEF j
<1> DEFINE name == plan[j].name
           length == plan[j].length
<1>10. CASE format[j] = Data(name, length) /\ plan[j].start = PlanEnd(plan, j - 1)
  <2>1. Head(rest) = Data(name, length) /\ plan[j].start = at
    BY <1>4, <1>5, <1>10
  <2> HIDE DEF name, length
  <2>2. /\ agrees /\ agrees' = agrees /\ fields' = Field(name, at, length)
        /\ at' = at + length /\ rest' = Tail(rest)
    BY <1>1, <2>1, DataStep
  <2> QED
    BY <2>1, <2>2 DEF name, length
<1>11. ASSUME NEW bytes \in Seq(Nat), format[j] = Known(name, bytes),
              plan[j].start = PlanEnd(plan, j - 1), length = Len(bytes),
              Agree(plan[j].start, bytes)
       PROVE  /\ agrees' /\ rest' = Tail(rest)
              /\ at' = plan[j].start + plan[j].length
              /\ fields' = Field(plan[j].name, plan[j].start, plan[j].length)
  <2>1. Head(rest) = Known(name, bytes) /\ plan[j].start = at /\ Agree(at, bytes)
    BY <1>4, <1>5, <1>11
  <2>2. length = Len(bytes)
    BY <1>11
  <2> HIDE DEF name, length
  <2>3. /\ agrees' = Agree(at, bytes) /\ fields' = Field(name, at, Len(bytes))
        /\ at' = at + Len(bytes) /\ rest' = Tail(rest)
    BY <1>1, <2>1, KnownStep
  <2> QED
    BY <2>1, <2>2, <2>3 DEF name, length
<1>12. CASE /\ format[j] = String(name)
            /\ name \in {"spk", "withdrawal_destination"}
            /\ plan[j].start = PlanEnd(plan, j - 1) + 1
            /\ length = 34
            /\ MayBe34(PlanEnd(plan, j - 1))
  <2>1. /\ Head(rest) = String(name) /\ name \in {"spk", "withdrawal_destination"}
        /\ plan[j].start = at + 1 /\ length = 34 /\ MayBe34(at)
    BY <1>4, <1>5, <1>12
  <2>2. LengthPinned(plan, j) => Wants(at, 34)
    BY <1>3, <1>5, <1>12 DEF LengthPinned, String
  <2> HIDE DEF name, length
  <2>3. rest' = Tail(rest)
    BY <1>1, <1>6, <2>1, StringStep
  <2>4. PICK n \in Nat : /\ agrees' = Agree(at, CompactSize(n))
                         /\ fields' = Field(name, at + Len(CompactSize(n)), n)
                         /\ at' = at + Len(CompactSize(n)) + n
    BY <1>1, <1>6, <2>1, StringStep
  <2>5. n = 34
    <3>1. CASE LengthPinned(plan, j) /\ agrees'
      <4>1. Wants(at, 34) /\ Agree(at, CompactSize(n))
        BY <2>2, <2>4, <3>1
      <4>2. 34 \in 0 .. 252
        OBVIOUS
      <4> QED
        BY <1>6, <4>1, <4>2, SizePinned, Zenon
    <3>2. CASE Honest'
      <4>1. \A f \in fields' :
              f.name \in {"spk", "withdrawal_destination"} => f.length = 34
        BY <3>2 DEF Honest, Named
      <4>2. \E f \in fields' : f.name = name /\ f.length = n
        <5> DEFINE s == Slice(name, Cardinality(Named(name)) + 1,
                              at + Len(CompactSize(n)), n)
        <5>1. s \in fields'
          BY <2>4 DEF Field
        <5>2. s.name = name /\ s.length = n
          BY DEF Slice
        <5> HIDE DEF s
        <5> QED
          BY <5>1, <5>2
      <4> QED
        BY <2>1, <4>1, <4>2
    <3> QED
      BY <3>1, <3>2 DEF j
  <2>6. CompactSize(n) = <<34>> /\ Len(CompactSize(n)) = 1
    BY <2>5 DEF CompactSize
  <2>7. Agree(at, <<34>>)
    <3> SUFFICES ASSUME NEW e \in reading.expects, e.offset \in at .. at + Len(<< 34 >>) - 1
                 PROVE  e.byte = <<34>>[e.offset - at + 1]
      BY DEF Agree
    <3>1. e.offset = at
      BY <1>6
    <3>2. e.byte = 34 /\ e.offset - at + 1 = 1
      BY <1>6, <2>1, <3>1 DEF MayBe34
    <3> QED
      BY <3>2
  <2>8. agrees'
    BY <2>4, <2>6, <2>7
  <2>9. fields' = Field(name, at + 1, 34) /\ at' = (at + 1) + 34
    BY <2>4, <2>5, <2>6, Zenon
  <2> QED
    BY <2>1, <2>3, <2>8, <2>9 DEF name, length
<1> QED
  BY <1>5, <1>10, <1>11, <1>12 DEF Follows

-----------------------------------------------------------------------------
(* The invariant                                                           *)

\* A reading of transactions is of some number of inputs and outputs, and
\* what agrees so far is that far in their form.
TransactionInv ==
  reading.format = Transaction =>
    \E n, m \in 0 .. 252 : ReadsTransaction(n, m) /\ (agrees => TxStage(n, m))

\* The program insists on the length of the first string, and takes only it.
FirstAlone(plan) ==
  LengthPinned(plan, 1) /\ reading.takes \subseteq {plan[1]}

\* A string with a plan is written along it, as far as it agrees with a
\* program that insists on every length, and always by an honest writer.
Along(plan) ==
  /\ Planned(plan)
  /\ \/ \A k \in 1 .. Len(format) : LengthPinned(plan, k)
     \/ FirstAlone(plan)
  /\ Honest \/ (agrees /\ \A k \in 1 .. Len(format) : LengthPinned(plan, k))
       => agrees /\ \E k \in 0 .. Len(format) : FlatStage(plan, k)
  /\ FirstAlone(plan) /\ agrees => FlatStage(plan, 0) \/ plan[1] \in fields

\* The header of another state or statement is refused.
Crossed ==
  /\ format # <<>>
  /\ \E bytes \in Seq(Nat) : Head(format) = Known("header", bytes) /\ ~ Agree(0, bytes)

FlatInv(plans) ==
  /\ format = reading.format /\ format # Transaction => \E plan \in plans : Along(plan)
  /\ format # reading.format => Crossed /\ (agrees => rest = format /\ at = 0)

\* What a step does, whichever it is.
LEMMA NextKeeps ==
  ASSUME Next
  PROVE  agrees /\ rest # <<>> /\ UNCHANGED <<reading, format>> /\ fields \subseteq fields'
BY DEF Next, WriteData, WriteKnown, WriteString, WriteVector, Starts, Field

\* The invariant of transactions is kept.
LEMMA TransactionNext ==
  ASSUME TransactionInv, [Next]_vars
  PROVE  TransactionInv'
<1>1. reading' = reading
  BY NextKeeps DEF vars
<1> SUFFICES ASSUME reading.format = Transaction
             PROVE  \E n, m \in 0 .. 252 : ReadsTransaction(n, m)' /\ (agrees' => TxStage(n, m)')
  BY <1>1 DEF TransactionInv
<1>2. PICK n \in 0 .. 252, m \in 0 .. 252 : ReadsTransaction(n, m) /\ (agrees => TxStage(n, m))
  BY DEF TransactionInv
<1>3. ReadsTransaction(n, m)'
  BY <1>1, <1>2 DEF ReadsTransaction, Pinned, OnlyPinned, Wants
<1>4. ASSUME agrees' PROVE TxStage(n, m)'
  <2>1. CASE Next
    <3>1. n \in Nat /\ m \in Nat /\ TxStage(n, m)
      BY <1>2, <2>1, NextKeeps
    <3> QED
      BY <1>2, <1>4, <2>1, <3>1, TxNext
  <2>2. CASE UNCHANGED vars
    BY <1>2, <1>4, <2>2
       DEF vars, TxStage, Stage, AtVersion, AtInputs, AtInput, AtVout, AtScriptSig,
           AtSequence, AtOutput, AtScript, AtEnd
  <2> QED
    BY <2>1, <2>2
<1> QED
  BY <1>3, <1>4

\* What goes along its plan goes on along it.
LEMMA AlongNext ==
  ASSUME NEW plan, Along(plan), [Next]_vars, format = reading.format
  PROVE  Along(plan)'
<1>1. reading' = reading /\ format' = format
  BY NextKeeps DEF vars
<1> DEFINE whole == \A k \in 1 .. Len(format) : LengthPinned(plan, k)
<1>2. /\ Planned(plan)' /\ Planned(plan)
      /\ whole' <=> whole
      /\ FirstAlone(plan)' <=> FirstAlone(plan)
      /\ whole \/ FirstAlone(plan)
  <2>1. Planned(plan)'
    BY <1>1 DEF Along, Planned, Follows, InOrder, SliceOf, Agree, MayBe34, PlanEnd
  <2>2. \A k : LengthPinned(plan, k)' <=> LengthPinned(plan, k)
    BY <1>1 DEF LengthPinned, Wants, PlanEnd
  <2> QED
    BY <1>1, <2>1, <2>2 DEF Along, FirstAlone
<1>3. Len(format) \in Nat /\ Len(format) > 0
  <2>1. PICK S : format \in Seq(S)
    BY <1>2 DEF Planned
  <2> QED
    BY <1>2, <2>1 DEF Planned
<1>4. Honest' => Honest
  <2>1. fields \subseteq fields'
    BY NextKeeps DEF vars
  <2> QED
    BY <1>1, <2>1 DEF Honest, Named
<1>5. ASSUME Honest' \/ (agrees' /\ whole)
      PROVE  agrees' /\ \E k \in 0 .. Len(format) : FlatStage(plan, k)'
  <2>1. CASE Next
    <3>1. PICK k \in 0 .. Len(format) : FlatStage(plan, k)
      <4>1. Honest \/ (agrees /\ whole)
        BY <1>4, <1>5, <2>1, NextKeeps
      <4> QED
        BY <4>1 DEF Along
    <3>2. k + 1 \in 1 .. Len(format) => (LengthPinned(plan, k + 1) /\ agrees') \/ Honest'
      BY <1>5
    <3>3. k + 1 \in 1 .. Len(format)
      <4>1. PICK S : format \in Seq(S)
        BY <1>2 DEF Planned
      <4>2. k # Len(format)
        BY <2>1, <3>1, <4>1, NextKeeps, LeftAre DEF FlatStage
      <4> QED
        BY <1>3, <4>2
    <3>4. k + 1 \in 1 .. Len(format) /\ agrees' /\ FlatStage(plan, k + 1)'
      BY <1>2, <2>1, <3>1, <3>2, <3>3, FlatNext
    <3> QED
      BY <3>4
  <2>2. CASE UNCHANGED vars
    <3>1. Honest \/ (agrees /\ whole)
      BY <1>4, <1>5, <2>2 DEF vars
    <3>2. agrees /\ \E k \in 0 .. Len(format) : FlatStage(plan, k)
      BY <3>1 DEF Along
    <3> QED
      BY <2>2, <3>2 DEF vars, FlatStage, Left
  <2> QED
    BY <2>1, <2>2
<1>6. ASSUME FirstAlone(plan), agrees'
      PROVE  FlatStage(plan, 0)' \/ (plan[1] \in fields)'
  <2>1. CASE Next
    <3>1. FlatStage(plan, 0) \/ plan[1] \in fields
      BY <1>6, <2>1, NextKeeps DEF Along
    <3>2. ASSUME FlatStage(plan, 0) PROVE plan[1] \in fields'
      <4>1. LengthPinned(plan, 0 + 1) /\ 0 \in 0 .. Len(format)
        BY <1>3, <1>6 DEF FirstAlone
      <4>2. FlatStage(plan, 0 + 1)'
        BY <1>2, <1>6, <2>1, <3>2, <4>1, FlatNext, Zenon
      <4> QED
        BY <4>2 DEF FlatStage
    <3> QED
      BY <2>1, <3>1, <3>2, NextKeeps
  <2>2. CASE UNCHANGED vars
    BY <1>6, <2>2 DEF vars, FlatStage, Left, Along
  <2> QED
    BY <2>1, <2>2
<1> HIDE DEF whole
<1> QED
  BY <1>1, <1>2, <1>5, <1>6 DEF Along, whole

\* The invariant of the other formats is kept.
LEMMA FlatInvNext ==
  ASSUME NEW plans, FlatInv(plans), [Next]_vars
  PROVE  FlatInv(plans)'
<1>1. reading' = reading /\ format' = format
  BY NextKeeps DEF vars
<1>2. ASSUME format = reading.format, format # Transaction
      PROVE  \E plan \in plans : Along(plan)'
  <2>1. PICK plan \in plans : Along(plan)
    BY <1>2 DEF FlatInv
  <2> QED
    BY <1>2, <2>1, AlongNext
<1>3. ASSUME format # reading.format
      PROVE  Crossed' /\ (agrees' => rest' = format /\ at' = 0)
  <2>1. Crossed /\ (agrees => rest = format /\ at = 0)
    BY <1>3 DEF FlatInv
  <2>2. Crossed'
    BY <1>1, <2>1 DEF Crossed, Agree
  <2>3. CASE UNCHANGED vars
    BY <2>1, <2>2, <2>3 DEF vars
  <2>4. CASE Next
    <3>1. agrees /\ rest = format /\ at = 0 /\ rest # <<>>
      BY <2>1, <2>4, NextKeeps
    <3>2. PICK bytes \in Seq(Nat) : Head(rest) = Known("header", bytes) /\ ~ Agree(at, bytes)
      BY <2>1, <3>1 DEF Crossed
    <3> DEFINE name == "header"
    <3>3. Head(rest) = Known(name, bytes)
      BY <3>2
    <3> HIDE DEF name
    <3>4. agrees' = Agree(at, bytes)
      BY <2>4, <3>1, <3>3, KnownStep
    <3> QED
      BY <2>2, <3>2, <3>4
  <2> QED
    BY <2>3, <2>4
<1> QED
  BY <1>1, <1>2, <1>3 DEF FlatInv

\* The properties follow from the invariant.
LEMMA InvImplies ==
  ASSUME NEW plans, TransactionInv, FlatInv(plans)
  PROVE  SlicesAreFields /\ TransactionsHaveForm /\ HonestNeverRefused
<1>1. CASE reading.format = Transaction
  <2>1. PICK n \in 0 .. 252, m \in 0 .. 252 : ReadsTransaction(n, m) /\ (agrees => TxStage(n, m))
    BY <1>1 DEF TransactionInv
  <2>2. n \in Nat /\ m \in Nat
    OBVIOUS
  <2>3. Accepted => SlicesAreFields /\ TransactionsHaveForm
    BY <2>1, <2>2, TxAccepted, TxEnd DEF Accepted
  <2>4. HonestNeverRefused
    BY <1>1 DEF HonestNeverRefused, Honest
  <2> QED
    BY <2>3, <2>4 DEF SlicesAreFields, TransactionsHaveForm
<1>2. CASE reading.format # Transaction /\ format = reading.format
  <2>1. PICK plan \in plans : Along(plan)
    BY <1>2 DEF FlatInv
  <2>2. PICK S : format \in Seq(S)
    BY <2>1 DEF Along, Planned
  <2>3. /\ Len(format) \in Nat /\ Len(format) > 0
        /\ reading.takes \subseteq {plan[i] : i \in 1 .. Len(format)}
        /\ reading.size = PlanEnd(plan, Len(format))
    BY <2>1, <2>2 DEF Along, Planned
  <2>4. ASSUME NEW k \in 0 .. Len(format), FlatStage(plan, k), rest = <<>>
        PROVE  k = Len(format)
    BY <2>2, <2>4, LeftAre DEF FlatStage
  <2>5. HonestNeverRefused
    BY <2>1, <2>3, <2>4 DEF HonestNeverRefused, Along, FlatStage
  <2>6. ASSUME Accepted PROVE reading.takes \subseteq fields
    <3>1. CASE \A k \in 1 .. Len(format) : LengthPinned(plan, k)
      <4>1. PICK k \in 0 .. Len(format) : FlatStage(plan, k)
        BY <2>1, <2>6, <3>1 DEF Along, Accepted
      <4>2. k = Len(format)
        BY <2>4, <2>6, <4>1 DEF Accepted
      <4> QED
        BY <2>3, <4>1, <4>2 DEF FlatStage
    <3>2. CASE FirstAlone(plan)
      <4>1. ~ FlatStage(plan, 0)
        <5>1. 0 \in 0 .. Len(format) /\ 0 # Len(format)
          BY <2>3
        <5> QED
          BY <2>4, <2>6, <5>1 DEF Accepted
      <4> QED
        BY <2>1, <2>6, <3>2, <4>1 DEF Along, Accepted, FirstAlone
    <3> QED
      BY <2>1, <3>1, <3>2 DEF Along
  <2> QED
    BY <1>2, <2>5, <2>6 DEF SlicesAreFields, TransactionsHaveForm
<1>3. CASE reading.format # Transaction /\ format # reading.format
  <2>1. ~ Accepted
    BY <1>3 DEF FlatInv, Accepted, Crossed
  <2> QED
    BY <1>3, <2>1 DEF SlicesAreFields, TransactionsHaveForm, HonestNeverRefused, Honest
<1> QED
  BY <1>1, <1>2, <1>3

-----------------------------------------------------------------------------
(* The plans                                                               *)

ScriptsPlan(n) == [k \in 1 .. n |-> Slice("spk", k, 35 * k - 34, 34)]

GenesisPlan ==
  <<Slice("header", 1, 0, 9),
    Slice("root", 1, 9, 32)>>

ActivePlan ==
  <<Slice("header", 1, 0, 9),
    Slice("bridge_id", 1, 9, 32),
    Slice("root", 1, 41, 32)>>

CollectionPlan ==
  <<Slice("header", 1, 0, 33),
    Slice("bridge_id", 1, 33, 32),
    Slice("bridge_prevout", 1, 65, 36),
    Slice("old_root", 1, 101, 32),
    Slice("new_root", 1, 133, 32),
    Slice("old_backing", 1, 165, 8),
    Slice("new_backing", 1, 173, 8),
    Slice("outpoint", 1, 181, 36),
    Slice("value", 1, 217, 8),
    Slice("recipient_id", 1, 225, 4),
    Slice("key", 1, 229, 32),
    Slice("outpoint", 2, 261, 36),
    Slice("value", 2, 297, 8),
    Slice("recipient_id", 2, 305, 4),
    Slice("key", 2, 309, 32)>>

SettlementPlan ==
  <<Slice("header", 1, 0, 33),
    Slice("bridge_id", 1, 33, 32),
    Slice("bridge_prevout", 1, 65, 36),
    Slice("old_root", 1, 101, 32),
    Slice("new_root", 1, 133, 32),
    Slice("old_backing", 1, 165, 8),
    Slice("new_backing", 1, 173, 8),
    Slice("native_digest", 1, 181, 32),
    Slice("scoped_digest", 1, 213, 32),
    Slice("withdrawal_digest", 1, 245, 32),
    Slice("withdrawal_amount", 1, 277, 8),
    Slice("withdrawal_destination", 1, 286, 34)>>

Plans ==
  {ScriptsPlan(2), ScriptsPlan(4), GenesisPlan, ActivePlan, CollectionPlan, SettlementPlan}

\* The scripts of n inputs, if none is insisted to have another length.
LEMMA ScriptsPlanned ==
  ASSUME NEW n \in Nat \ {0}, format = SpentScripts(n), reading.size = 35 * n,
         \A e \in reading.expects : e.byte = 34,
         reading.takes \subseteq {ScriptsPlan(n)[k] : k \in 1 .. n}
  PROVE  /\ Planned(ScriptsPlan(n))
         /\ \A k \in 1 .. n : Wants(35 * (k - 1), 34) => LengthPinned(ScriptsPlan(n), k)
<1> DEFINE plan == ScriptsPlan(n)
<1>1. /\ format \in Seq({String("spk")}) /\ Len(format) = n
      /\ \A k \in 1 .. n : format[k] = String("spk")
  BY DEF SpentScripts
<1>2. \A k \in 1 .. n : plan[k] = Slice("spk", k, 35 * k - 34, 34)
  BY DEF ScriptsPlan
<1>3. \A k \in 1 .. n : /\ plan[k].name = "spk" /\ plan[k].ordinal = k
                        /\ plan[k].start = 35 * k - 34 /\ plan[k].length = 34
  <2> HIDE DEF plan
  <2> TAKE k \in 1 .. n
  <2>1. plan[k] = Slice("spk", k, 35 * k - 34, 34)
    BY <1>2
  <2> QED
    BY <2>1 DEF Slice
<1> HIDE DEF plan
<1>4. \A k \in 0 .. n : PlanEnd(plan, k) = 35 * k
  BY <1>3 DEF PlanEnd
<1>5. ASSUME NEW k \in 1 .. n
      PROVE  Follows(plan, k) /\ InOrder(plan, k) /\ SliceOf(plan, k)
  <2>1. k - 1 \in 0 .. n /\ k \in Nat \ {0} /\ 35 * k - 34 \in Nat
    OBVIOUS
  <2>2. plan[k].start = PlanEnd(plan, k - 1) + 1
    BY <1>3, <1>4, <2>1
  <2>3. Follows(plan, k)
    BY <1>1, <1>3, <2>2 DEF Follows, MayBe34
  <2>4. InOrder(plan, k)
    <3>1. \A i \in 1 .. k - 1 : i \in 1 .. n /\ i < k
      OBVIOUS
    <3> QED
      BY <1>3, <3>1 DEF InOrder
  <2>5. SliceOf(plan, k)
    BY <1>2, <1>3, <2>1 DEF SliceOf
  <2> QED
    BY <2>3, <2>4, <2>5
<1>6. reading.size = PlanEnd(plan, Len(format)) /\ Len(format) > 0
  BY <1>1, <1>4
<1>7. reading.takes \subseteq {plan[i] : i \in 1 .. Len(format)}
  BY <1>1 DEF plan
<1>8. Planned(plan)
  <2>1. \A k \in 1 .. Len(format) : Follows(plan, k) /\ InOrder(plan, k) /\ SliceOf(plan, k)
    BY <1>1, <1>5
  <2>2. \E S : format \in Seq(S)
    BY <1>1
  <2> QED
    BY <1>6, <1>7, <2>1, <2>2 DEF Planned
<1>9. \A k \in 1 .. n : Wants(35 * (k - 1), 34) => LengthPinned(plan, k)
  <2>1. \A k \in 1 .. n : k - 1 \in 0 .. n
    OBVIOUS
  <2> QED
    BY <1>4, <2>1 DEF LengthPinned
<1> QED
  BY <1>8, <1>9 DEF plan

\* The headers are sequences of numbers.
LEMMA Headers ==
  /\ \A b \in {0, 1} : /\ Magic \o <<1, b>> \in Seq(Nat) /\ Len(Magic \o <<1, b>>) = 9
                      /\ (Magic \o <<1, b>>)[9] = b
  /\ \A b \in {1, 2} : /\ Domain \o <<1, b>> \in Seq(Nat) /\ Len(Domain \o <<1, b>>) = 33
                      /\ (Domain \o <<1, b>>)[33] = b
<1>1. ASSUME NEW b \in {0, 1}
      PROVE  /\ Magic \o <<1, b>> \in Seq(Nat) /\ Len(Magic \o <<1, b>>) = 9
             /\ (Magic \o <<1, b>>)[9] = b
  BY DEF Magic
<1>2. ASSUME NEW b \in {1, 2}
      PROVE  /\ Domain \o <<1, b>> \in Seq(Nat) /\ Len(Domain \o <<1, b>>) = 33
             /\ (Domain \o <<1, b>>)[33] = b
  <2>1. Domain \in Seq(Nat) /\ Len(Domain) = 31
    BY DEF Domain
  <2>2. <<1, b>> \in Seq(Nat) /\ Len(<<1, b>>) = 2 /\ <<1, b>>[2] = b
    OBVIOUS
  <2> DEFINE t == <<1, b>>
  <2>3. t \in Seq(Nat) /\ Len(t) = 2 /\ t[2] = b
    BY <2>2
  <2> HIDE DEF t
  <2>4. /\ Domain \o t \in Seq(Nat) /\ Len(Domain \o t) = Len(Domain) + Len(t)
        /\ \A i \in 1 .. Len(Domain) + Len(t) :
             (Domain \o t)[i] = IF i <= Len(Domain) THEN Domain[i] ELSE t[i - Len(Domain)]
    BY <2>1, <2>3, ConcatProperties
  <2>5. 33 \in 1 .. Len(Domain) + Len(t) /\ ~ (33 <= Len(Domain)) /\ 33 - Len(Domain) = 2
    BY <2>1, <2>3
  <2>6. (Domain \o t)[33] = b
    BY <2>3, <2>4, <2>5, Zenon
  <2> QED
    BY <2>1, <2>3, <2>4, <2>6 DEF t
<1> QED
  BY <1>1, <1>2

\* The bytes that are insisted on agree with themselves.
LEMMA OwnBytesAgree ==
  ASSUME NEW b \in Seq(Nat), NEW more,
         \A e \in more : e.offset \notin 0 .. Len(b) - 1,
         reading.expects = Bytes(0, b) \cup more
  PROVE  Agree(0, b)
<1> SUFFICES ASSUME NEW e \in reading.expects, e.offset \in 0 .. 0 + Len(b) - 1
             PROVE  e.byte = b[e.offset - 0 + 1]
  BY DEF Agree
<1>1. Len(b) \in Nat
  OBVIOUS
<1>2. e \in Bytes(0, b)
  BY <1>1
<1>3. PICK k \in 1 .. Len(b) : e = [offset |-> 0 + k - 1, byte |-> b[k]]
  BY <1>2 DEF Bytes
<1>4. e.offset = k - 1 /\ e.byte = b[k]
  BY <1>3
<1>5. e.offset - 0 + 1 = k
  BY <1>1, <1>4
<1> QED
  BY <1>4, <1>5

\* Encoded_genesis_state, read for what it is, follows its plan.
LEMMA GenesisPlanned ==
  ASSUME reading = GenesisStateBytes, format = Encoded_genesis_state
  PROVE  /\ Planned(GenesisPlan)
         /\ \A k \in 1 .. Len(format) : LengthPinned(GenesisPlan, k)
<1> DEFINE plan == GenesisPlan
           header == Magic \o <<1, 0>>
<1>1. /\ Len(format) = 2
      /\ format[1] = Known("header", header)
      /\ format[2] = Data("root", 32)
  BY DEF Encoded_genesis_state
<1>2. \E S : format \in Seq(S)
  <2> DEFINE S == {Known("header", header), Data("root", 32)}
  <2>1. format \in Seq(S)
    BY DEF Encoded_genesis_state
  <2> QED
    BY <2>1
<1>3. /\ plan[1] = Slice("header", 1, 0, 9)
      /\ plan[2] = Slice("root", 1, 9, 32)
  BY DEF GenesisPlan
<1>4. /\ plan[1].name = "header" /\ plan[1].ordinal = 1
           /\ plan[1].start = 0 /\ plan[1].length = 9
      /\ plan[2].name = "root" /\ plan[2].ordinal = 1
           /\ plan[2].start = 9 /\ plan[2].length = 32
  BY <1>3 DEF Slice
<1>5. header \in Seq(Nat) /\ Len(header) = 9
  BY Headers
<1>6. Agree(0, header)
  <2> DEFINE more == {}
  <2>1. reading.expects = Bytes(0, header) \cup more
    BY DEF GenesisStateBytes
  <2>2. \A e \in more : e.offset \notin 0 .. Len(header) - 1
    OBVIOUS
  <2> HIDE DEF header, more
  <2> QED
    BY <1>5, <2>1, <2>2, OwnBytesAgree, Zenon
<1>7. reading.size = 41 /\ reading.takes \subseteq {plan[i] : i \in 1 .. 2}
  <2>1. /\ reading.size = 41
        /\ reading.takes = {plan[2]}
    BY <1>3, Zenon DEF GenesisStateBytes
  <2> HIDE DEF plan
  <2> QED
    BY <2>1
<1> HIDE DEF plan, header
<1>8. /\ PlanEnd(plan, 0) = 0
      /\ PlanEnd(plan, 1) = 9
      /\ PlanEnd(plan, 2) = 41
  BY <1>4 DEF PlanEnd
<1>9. /\ Follows(plan, 1)
      /\ Follows(plan, 2)
  <2>1. Follows(plan, 1)
    BY <1>1, <1>4, <1>5, <1>6, <1>8 DEF Follows
  <2>2. /\ Follows(plan, 2)
    BY <1>1, <1>4, <1>8 DEF Follows
  <2> QED
    BY <2>1, <2>2
<1>10. /\ InOrder(plan, 1)
       /\ InOrder(plan, 2)
  <2>1. /\ 1 .. 1 - 1 = {}
        /\ 1 .. 2 - 1 = {1}
    OBVIOUS
  <2> QED
    BY <1>4, <2>1 DEF InOrder
<1>11. /\ SliceOf(plan, 1)
       /\ SliceOf(plan, 2)
  BY <1>3, <1>4 DEF SliceOf
<1>12. 1 .. Len(format) = {1, 2}
  BY <1>1
<1>13. Planned(plan)
  <2>1. \A k \in 1 .. Len(format) : Follows(plan, k) /\ InOrder(plan, k) /\ SliceOf(plan, k)
    BY <1>9, <1>10, <1>11, <1>12
  <2>2. /\ reading.size = PlanEnd(plan, Len(format)) /\ Len(format) > 0
        /\ reading.takes \subseteq {plan[i] : i \in 1 .. Len(format)}
    BY <1>1, <1>7, <1>8
  <2> QED
    BY <1>2, <2>1, <2>2 DEF Planned
<1>14. \A k \in 1 .. Len(format) : LengthPinned(plan, k)
  <2>1. \A k \in 1 .. Len(format) : format[k].kind # "string"
    BY <1>1, <1>12 DEF Known, Data
  <2> QED
    BY <2>1 DEF LengthPinned
<1> QED
  BY <1>13, <1>14 DEF plan

\* Encoded_active_state, read for what it is, follows its plan.
LEMMA ActivePlanned ==
  ASSUME reading = ActiveStateBytes, format = Encoded_active_state
  PROVE  /\ Planned(ActivePlan)
         /\ \A k \in 1 .. Len(format) : LengthPinned(ActivePlan, k)
<1> DEFINE plan == ActivePlan
           header == Magic \o <<1, 1>>
<1>1. /\ Len(format) = 3
      /\ format[1] = Known("header", header)
      /\ format[2] = Data("bridge_id", 32)
      /\ format[3] = Data("root", 32)
  BY DEF Encoded_active_state
<1>2. \E S : format \in Seq(S)
  <2> DEFINE S == {Known("header", header), Data("bridge_id", 32), Data("root", 32)}
  <2>1. format \in Seq(S)
    BY DEF Encoded_active_state
  <2> QED
    BY <2>1
<1>3. /\ plan[1] = Slice("header", 1, 0, 9)
      /\ plan[2] = Slice("bridge_id", 1, 9, 32)
      /\ plan[3] = Slice("root", 1, 41, 32)
  BY DEF ActivePlan
<1>4. /\ plan[1].name = "header" /\ plan[1].ordinal = 1
           /\ plan[1].start = 0 /\ plan[1].length = 9
      /\ plan[2].name = "bridge_id" /\ plan[2].ordinal = 1
           /\ plan[2].start = 9 /\ plan[2].length = 32
      /\ plan[3].name = "root" /\ plan[3].ordinal = 1
           /\ plan[3].start = 41 /\ plan[3].length = 32
  BY <1>3 DEF Slice
<1>5. header \in Seq(Nat) /\ Len(header) = 9
  BY Headers
<1>6. Agree(0, header)
  <2> DEFINE more == {}
  <2>1. reading.expects = Bytes(0, header) \cup more
    BY DEF ActiveStateBytes
  <2>2. \A e \in more : e.offset \notin 0 .. Len(header) - 1
    OBVIOUS
  <2> HIDE DEF header, more
  <2> QED
    BY <1>5, <2>1, <2>2, OwnBytesAgree, Zenon
<1>7. reading.size = 73 /\ reading.takes \subseteq {plan[i] : i \in 1 .. 3}
  <2>1. /\ reading.size = 73
        /\ reading.takes = {plan[2], plan[3]}
    BY <1>3, Zenon DEF ActiveStateBytes
  <2> HIDE DEF plan
  <2> QED
    BY <2>1
<1> HIDE DEF plan, header
<1>8. /\ PlanEnd(plan, 0) = 0
      /\ PlanEnd(plan, 1) = 9
      /\ PlanEnd(plan, 2) = 41
      /\ PlanEnd(plan, 3) = 73
  BY <1>4 DEF PlanEnd
<1>9. /\ Follows(plan, 1)
      /\ Follows(plan, 2)
      /\ Follows(plan, 3)
  <2>1. Follows(plan, 1)
    BY <1>1, <1>4, <1>5, <1>6, <1>8 DEF Follows
  <2>2. /\ Follows(plan, 2)
        /\ Follows(plan, 3)
    BY <1>1, <1>4, <1>8 DEF Follows
  <2> QED
    BY <2>1, <2>2
<1>10. /\ InOrder(plan, 1)
       /\ InOrder(plan, 2)
       /\ InOrder(plan, 3)
  <2>1. /\ 1 .. 1 - 1 = {}
        /\ 1 .. 2 - 1 = {1}
        /\ 1 .. 3 - 1 = {1, 2}
    OBVIOUS
  <2> QED
    BY <1>4, <2>1 DEF InOrder
<1>11. /\ SliceOf(plan, 1)
       /\ SliceOf(plan, 2)
       /\ SliceOf(plan, 3)
  BY <1>3, <1>4 DEF SliceOf
<1>12. 1 .. Len(format) = {1, 2, 3}
  BY <1>1
<1>13. Planned(plan)
  <2>1. \A k \in 1 .. Len(format) : Follows(plan, k) /\ InOrder(plan, k) /\ SliceOf(plan, k)
    BY <1>9, <1>10, <1>11, <1>12
  <2>2. /\ reading.size = PlanEnd(plan, Len(format)) /\ Len(format) > 0
        /\ reading.takes \subseteq {plan[i] : i \in 1 .. Len(format)}
    BY <1>1, <1>7, <1>8
  <2> QED
    BY <1>2, <2>1, <2>2 DEF Planned
<1>14. \A k \in 1 .. Len(format) : LengthPinned(plan, k)
  <2>1. \A k \in 1 .. Len(format) : format[k].kind # "string"
    BY <1>1, <1>12 DEF Known, Data
  <2> QED
    BY <2>1 DEF LengthPinned
<1> QED
  BY <1>13, <1>14 DEF plan

\* CollectionStatement, read for what it is, follows its plan.
LEMMA CollectionPlanned ==
  ASSUME reading = CollectionStatementBytes, format = CollectionStatement
  PROVE  /\ Planned(CollectionPlan)
         /\ \A k \in 1 .. Len(format) : LengthPinned(CollectionPlan, k)
<1> DEFINE plan == CollectionPlan
           header == Domain \o <<1, 1>>
<1>1. /\ Len(format) = 15
      /\ format[1] = Known("header", header)
      /\ format[2] = Data("bridge_id", 32)
      /\ format[3] = Data("bridge_prevout", 36)
      /\ format[4] = Data("old_root", 32)
      /\ format[5] = Data("new_root", 32)
      /\ format[6] = Data("old_backing", 8)
      /\ format[7] = Data("new_backing", 8)
      /\ format[8] = Data("outpoint", 36)
      /\ format[9] = Data("value", 8)
      /\ format[10] = Data("recipient_id", 4)
      /\ format[11] = Data("key", 32)
      /\ format[12] = Data("outpoint", 36)
      /\ format[13] = Data("value", 8)
      /\ format[14] = Data("recipient_id", 4)
      /\ format[15] = Data("key", 32)
  BY DEF CollectionStatement, StatementPrefix, EncodedDeposit
<1>2. \E S : format \in Seq(S)
  <2> DEFINE S == {Known("header", header),
                   Data("bridge_id", 32),
                   Data("bridge_prevout", 36),
                   Data("old_root", 32),
                   Data("new_root", 32),
                   Data("old_backing", 8),
                   Data("new_backing", 8),
                   Data("outpoint", 36),
                   Data("value", 8),
                   Data("recipient_id", 4),
                   Data("key", 32)}
  <2>1. StatementPrefix(1) \in Seq(S) /\ EncodedDeposit \in Seq(S)
    BY DEF StatementPrefix, EncodedDeposit
  <2> HIDE DEF S
  <2>2. StatementPrefix(1) \o EncodedDeposit \in Seq(S)
    BY <2>1, ConcatProperties
  <2>3. format \in Seq(S)
    BY <2>1, <2>2, ConcatProperties DEF CollectionStatement
  <2> QED
    BY <2>3
<1>3. /\ plan[1] = Slice("header", 1, 0, 33)
      /\ plan[2] = Slice("bridge_id", 1, 33, 32)
      /\ plan[3] = Slice("bridge_prevout", 1, 65, 36)
      /\ plan[4] = Slice("old_root", 1, 101, 32)
      /\ plan[5] = Slice("new_root", 1, 133, 32)
      /\ plan[6] = Slice("old_backing", 1, 165, 8)
      /\ plan[7] = Slice("new_backing", 1, 173, 8)
      /\ plan[8] = Slice("outpoint", 1, 181, 36)
      /\ plan[9] = Slice("value", 1, 217, 8)
      /\ plan[10] = Slice("recipient_id", 1, 225, 4)
      /\ plan[11] = Slice("key", 1, 229, 32)
      /\ plan[12] = Slice("outpoint", 2, 261, 36)
      /\ plan[13] = Slice("value", 2, 297, 8)
      /\ plan[14] = Slice("recipient_id", 2, 305, 4)
      /\ plan[15] = Slice("key", 2, 309, 32)
  BY DEF CollectionPlan
<1>4. /\ plan[1].name = "header" /\ plan[1].ordinal = 1
           /\ plan[1].start = 0 /\ plan[1].length = 33
      /\ plan[2].name = "bridge_id" /\ plan[2].ordinal = 1
           /\ plan[2].start = 33 /\ plan[2].length = 32
      /\ plan[3].name = "bridge_prevout" /\ plan[3].ordinal = 1
           /\ plan[3].start = 65 /\ plan[3].length = 36
      /\ plan[4].name = "old_root" /\ plan[4].ordinal = 1
           /\ plan[4].start = 101 /\ plan[4].length = 32
      /\ plan[5].name = "new_root" /\ plan[5].ordinal = 1
           /\ plan[5].start = 133 /\ plan[5].length = 32
      /\ plan[6].name = "old_backing" /\ plan[6].ordinal = 1
           /\ plan[6].start = 165 /\ plan[6].length = 8
      /\ plan[7].name = "new_backing" /\ plan[7].ordinal = 1
           /\ plan[7].start = 173 /\ plan[7].length = 8
      /\ plan[8].name = "outpoint" /\ plan[8].ordinal = 1
           /\ plan[8].start = 181 /\ plan[8].length = 36
      /\ plan[9].name = "value" /\ plan[9].ordinal = 1
           /\ plan[9].start = 217 /\ plan[9].length = 8
      /\ plan[10].name = "recipient_id" /\ plan[10].ordinal = 1
           /\ plan[10].start = 225 /\ plan[10].length = 4
      /\ plan[11].name = "key" /\ plan[11].ordinal = 1
           /\ plan[11].start = 229 /\ plan[11].length = 32
      /\ plan[12].name = "outpoint" /\ plan[12].ordinal = 2
           /\ plan[12].start = 261 /\ plan[12].length = 36
      /\ plan[13].name = "value" /\ plan[13].ordinal = 2
           /\ plan[13].start = 297 /\ plan[13].length = 8
      /\ plan[14].name = "recipient_id" /\ plan[14].ordinal = 2
           /\ plan[14].start = 305 /\ plan[14].length = 4
      /\ plan[15].name = "key" /\ plan[15].ordinal = 2
           /\ plan[15].start = 309 /\ plan[15].length = 32
  BY <1>3 DEF Slice
<1>5. header \in Seq(Nat) /\ Len(header) = 33
  BY Headers
<1>6. Agree(0, header)
  <2> DEFINE more == {}
  <2>1. reading.expects = Bytes(0, header) \cup more
    BY DEF CollectionStatementBytes
  <2>2. \A e \in more : e.offset \notin 0 .. Len(header) - 1
    OBVIOUS
  <2> HIDE DEF header, more
  <2> QED
    BY <1>5, <2>1, <2>2, OwnBytesAgree, Zenon
<1>7. reading.size = 341 /\ reading.takes \subseteq {plan[i] : i \in 1 .. 15}
  <2>1. reading.size = 341 /\ reading.takes = HeaderSlices \cup
          UNION {{Slice("outpoint", k, 101 + 80 * k, 36),
                  Slice("value", k, 137 + 80 * k, 8),
                  Slice("recipient_id", k, 145 + 80 * k, 4),
                  Slice("key", k, 149 + 80 * k, 32)} : k \in 1 .. 2}
    BY DEF CollectionStatementBytes
  <2>2. 1 .. 2 = {1, 2}
    OBVIOUS
  <2>3. \A k \in 1 .. 2 :
          {Slice("outpoint", k, 101 + 80 * k, 36), Slice("value", k, 137 + 80 * k, 8),
           Slice("recipient_id", k, 145 + 80 * k, 4), Slice("key", k, 149 + 80 * k, 32)}
            \subseteq {plan[i] : i \in 8 .. 15}
    <3> HIDE DEF plan
    <3>1. 8 .. 15 = {8, 9, 10, 11, 12, 13, 14, 15}
      OBVIOUS
    <3> QED
      BY <1>3, <2>2, <3>1
  <2>4. HeaderSlices \subseteq {plan[i] : i \in 2 .. 7}
    <3> HIDE DEF plan
    <3>1. 2 .. 7 = {2, 3, 4, 5, 6, 7}
      OBVIOUS
    <3> QED
      BY <1>3, <3>1 DEF HeaderSlices
  <2> HIDE DEF plan
  <2>5. {plan[i] : i \in 2 .. 7} \subseteq {plan[i] : i \in 1 .. 15}
        /\ {plan[i] : i \in 8 .. 15} \subseteq {plan[i] : i \in 1 .. 15}
    OBVIOUS
  <2> QED
    BY <2>1, <2>3, <2>4, <2>5
<1> HIDE DEF plan, header
<1>8. /\ PlanEnd(plan, 0) = 0
      /\ PlanEnd(plan, 1) = 33
      /\ PlanEnd(plan, 2) = 65
      /\ PlanEnd(plan, 3) = 101
      /\ PlanEnd(plan, 4) = 133
      /\ PlanEnd(plan, 5) = 165
      /\ PlanEnd(plan, 6) = 173
      /\ PlanEnd(plan, 7) = 181
      /\ PlanEnd(plan, 8) = 217
      /\ PlanEnd(plan, 9) = 225
      /\ PlanEnd(plan, 10) = 229
      /\ PlanEnd(plan, 11) = 261
      /\ PlanEnd(plan, 12) = 297
      /\ PlanEnd(plan, 13) = 305
      /\ PlanEnd(plan, 14) = 309
      /\ PlanEnd(plan, 15) = 341
  BY <1>4 DEF PlanEnd
<1>9. /\ Follows(plan, 1)
      /\ Follows(plan, 2)
      /\ Follows(plan, 3)
      /\ Follows(plan, 4)
      /\ Follows(plan, 5)
      /\ Follows(plan, 6)
      /\ Follows(plan, 7)
      /\ Follows(plan, 8)
      /\ Follows(plan, 9)
      /\ Follows(plan, 10)
      /\ Follows(plan, 11)
      /\ Follows(plan, 12)
      /\ Follows(plan, 13)
      /\ Follows(plan, 14)
      /\ Follows(plan, 15)
  <2>1. Follows(plan, 1)
    BY <1>1, <1>4, <1>5, <1>6, <1>8 DEF Follows
  <2>2. /\ Follows(plan, 2)
        /\ Follows(plan, 3)
        /\ Follows(plan, 4)
        /\ Follows(plan, 5)
        /\ Follows(plan, 6)
        /\ Follows(plan, 7)
        /\ Follows(plan, 8)
        /\ Follows(plan, 9)
        /\ Follows(plan, 10)
        /\ Follows(plan, 11)
        /\ Follows(plan, 12)
        /\ Follows(plan, 13)
        /\ Follows(plan, 14)
        /\ Follows(plan, 15)
    BY <1>1, <1>4, <1>8 DEF Follows
  <2> QED
    BY <2>1, <2>2
<1>10. /\ InOrder(plan, 1)
       /\ InOrder(plan, 2)
       /\ InOrder(plan, 3)
       /\ InOrder(plan, 4)
       /\ InOrder(plan, 5)
       /\ InOrder(plan, 6)
       /\ InOrder(plan, 7)
       /\ InOrder(plan, 8)
       /\ InOrder(plan, 9)
       /\ InOrder(plan, 10)
       /\ InOrder(plan, 11)
       /\ InOrder(plan, 12)
       /\ InOrder(plan, 13)
       /\ InOrder(plan, 14)
       /\ InOrder(plan, 15)
  <2>1. /\ 1 .. 1 - 1 = {}
        /\ 1 .. 2 - 1 = {1}
        /\ 1 .. 3 - 1 = {1, 2}
        /\ 1 .. 4 - 1 = {1, 2, 3}
        /\ 1 .. 5 - 1 = {1, 2, 3, 4}
        /\ 1 .. 6 - 1 = {1, 2, 3, 4, 5}
        /\ 1 .. 7 - 1 = {1, 2, 3, 4, 5, 6}
        /\ 1 .. 8 - 1 = {1, 2, 3, 4, 5, 6, 7}
        /\ 1 .. 9 - 1 = {1, 2, 3, 4, 5, 6, 7, 8}
        /\ 1 .. 10 - 1 = {1, 2, 3, 4, 5, 6, 7, 8, 9}
        /\ 1 .. 11 - 1 = {1, 2, 3, 4, 5, 6, 7, 8, 9, 10}
        /\ 1 .. 12 - 1 = {1, 2, 3, 4, 5, 6, 7, 8, 9, 10, 11}
        /\ 1 .. 13 - 1 = {1, 2, 3, 4, 5, 6, 7, 8, 9, 10, 11, 12}
        /\ 1 .. 14 - 1 = {1, 2, 3, 4, 5, 6, 7, 8, 9, 10, 11, 12, 13}
        /\ 1 .. 15 - 1 = {1, 2, 3, 4, 5, 6, 7, 8, 9, 10, 11, 12, 13, 14}
    OBVIOUS
  <2> QED
    BY <1>4, <2>1 DEF InOrder
<1>11. /\ SliceOf(plan, 1)
       /\ SliceOf(plan, 2)
       /\ SliceOf(plan, 3)
       /\ SliceOf(plan, 4)
       /\ SliceOf(plan, 5)
       /\ SliceOf(plan, 6)
       /\ SliceOf(plan, 7)
       /\ SliceOf(plan, 8)
       /\ SliceOf(plan, 9)
       /\ SliceOf(plan, 10)
       /\ SliceOf(plan, 11)
       /\ SliceOf(plan, 12)
       /\ SliceOf(plan, 13)
       /\ SliceOf(plan, 14)
       /\ SliceOf(plan, 15)
  BY <1>3, <1>4 DEF SliceOf
<1>12. 1 .. Len(format) = {1, 2, 3, 4, 5, 6, 7, 8, 9, 10, 11, 12, 13, 14, 15}
  BY <1>1
<1>13. Planned(plan)
  <2>1. \A k \in 1 .. Len(format) : Follows(plan, k) /\ InOrder(plan, k) /\ SliceOf(plan, k)
    BY <1>9, <1>10, <1>11, <1>12
  <2>2. /\ reading.size = PlanEnd(plan, Len(format)) /\ Len(format) > 0
        /\ reading.takes \subseteq {plan[i] : i \in 1 .. Len(format)}
    BY <1>1, <1>7, <1>8
  <2> QED
    BY <1>2, <2>1, <2>2 DEF Planned
<1>14. \A k \in 1 .. Len(format) : LengthPinned(plan, k)
  <2>1. \A k \in 1 .. Len(format) : format[k].kind # "string"
    BY <1>1, <1>12 DEF Known, Data
  <2> QED
    BY <2>1 DEF LengthPinned
<1> QED
  BY <1>13, <1>14 DEF plan

\* SettlementStatement, read for what it is, follows its plan.
LEMMA SettlementPlanned ==
  ASSUME reading = SettlementStatementBytes, format = SettlementStatement
  PROVE  /\ Planned(SettlementPlan)
         /\ \A k \in 1 .. Len(format) : LengthPinned(SettlementPlan, k)
<1> DEFINE plan == SettlementPlan
           header == Domain \o <<1, 2>>
<1>1. /\ Len(format) = 12
      /\ format[1] = Known("header", header)
      /\ format[2] = Data("bridge_id", 32)
      /\ format[3] = Data("bridge_prevout", 36)
      /\ format[4] = Data("old_root", 32)
      /\ format[5] = Data("new_root", 32)
      /\ format[6] = Data("old_backing", 8)
      /\ format[7] = Data("new_backing", 8)
      /\ format[8] = Data("native_digest", 32)
      /\ format[9] = Data("scoped_digest", 32)
      /\ format[10] = Data("withdrawal_digest", 32)
      /\ format[11] = Data("withdrawal_amount", 8)
      /\ format[12] = String("withdrawal_destination")
  BY DEF SettlementStatement, StatementPrefix
<1>2. \E S : format \in Seq(S)
  <2> DEFINE S == {Known("header", header),
                   Data("bridge_id", 32),
                   Data("bridge_prevout", 36),
                   Data("old_root", 32),
                   Data("new_root", 32),
                   Data("old_backing", 8),
                   Data("new_backing", 8),
                   Data("native_digest", 32),
                   Data("scoped_digest", 32),
                   Data("withdrawal_digest", 32),
                   Data("withdrawal_amount", 8),
                   String("withdrawal_destination")}
  <2> DEFINE own == <<Data("native_digest", 32), Data("scoped_digest", 32),
                      Data("withdrawal_digest", 32), Data("withdrawal_amount", 8),
                      String("withdrawal_destination")>>
  <2>1. StatementPrefix(2) \in Seq(S) /\ own \in Seq(S)
    BY DEF StatementPrefix
  <2>2. format = StatementPrefix(2) \o own
    BY Zenon DEF SettlementStatement
  <2> HIDE DEF S, own
  <2>3. format \in Seq(S)
    BY <2>1, <2>2, ConcatProperties
  <2> QED
    BY <2>3
<1>3. /\ plan[1] = Slice("header", 1, 0, 33)
      /\ plan[2] = Slice("bridge_id", 1, 33, 32)
      /\ plan[3] = Slice("bridge_prevout", 1, 65, 36)
      /\ plan[4] = Slice("old_root", 1, 101, 32)
      /\ plan[5] = Slice("new_root", 1, 133, 32)
      /\ plan[6] = Slice("old_backing", 1, 165, 8)
      /\ plan[7] = Slice("new_backing", 1, 173, 8)
      /\ plan[8] = Slice("native_digest", 1, 181, 32)
      /\ plan[9] = Slice("scoped_digest", 1, 213, 32)
      /\ plan[10] = Slice("withdrawal_digest", 1, 245, 32)
      /\ plan[11] = Slice("withdrawal_amount", 1, 277, 8)
      /\ plan[12] = Slice("withdrawal_destination", 1, 286, 34)
  BY DEF SettlementPlan
<1>4. /\ plan[1].name = "header" /\ plan[1].ordinal = 1
           /\ plan[1].start = 0 /\ plan[1].length = 33
      /\ plan[2].name = "bridge_id" /\ plan[2].ordinal = 1
           /\ plan[2].start = 33 /\ plan[2].length = 32
      /\ plan[3].name = "bridge_prevout" /\ plan[3].ordinal = 1
           /\ plan[3].start = 65 /\ plan[3].length = 36
      /\ plan[4].name = "old_root" /\ plan[4].ordinal = 1
           /\ plan[4].start = 101 /\ plan[4].length = 32
      /\ plan[5].name = "new_root" /\ plan[5].ordinal = 1
           /\ plan[5].start = 133 /\ plan[5].length = 32
      /\ plan[6].name = "old_backing" /\ plan[6].ordinal = 1
           /\ plan[6].start = 165 /\ plan[6].length = 8
      /\ plan[7].name = "new_backing" /\ plan[7].ordinal = 1
           /\ plan[7].start = 173 /\ plan[7].length = 8
      /\ plan[8].name = "native_digest" /\ plan[8].ordinal = 1
           /\ plan[8].start = 181 /\ plan[8].length = 32
      /\ plan[9].name = "scoped_digest" /\ plan[9].ordinal = 1
           /\ plan[9].start = 213 /\ plan[9].length = 32
      /\ plan[10].name = "withdrawal_digest" /\ plan[10].ordinal = 1
           /\ plan[10].start = 245 /\ plan[10].length = 32
      /\ plan[11].name = "withdrawal_amount" /\ plan[11].ordinal = 1
           /\ plan[11].start = 277 /\ plan[11].length = 8
      /\ plan[12].name = "withdrawal_destination" /\ plan[12].ordinal = 1
           /\ plan[12].start = 286 /\ plan[12].length = 34
  BY <1>3 DEF Slice
<1>5. header \in Seq(Nat) /\ Len(header) = 33
  BY Headers
<1>6. Agree(0, header) /\ Wants(285, 34) /\ MayBe34(285)
  <2>1. reading.expects = Bytes(0, header) \cup Bytes(285, <<34>>)
    BY DEF SettlementStatementBytes
  <2>2. Bytes(285, <<34>>) = {[offset |-> 285, byte |-> 34]}
    <3>1. 285 \in Int
      OBVIOUS
    <3> QED
      BY <3>1, OneByte, Zenon
  <2>3. Wants(285, 34)
    BY <2>1, <2>2 DEF Wants
  <2> DEFINE more == Bytes(285, <<34>>)
  <2>4. \A e \in more : e.offset = 285 /\ e.byte = 34
    BY <2>2
  <2> HIDE DEF header, more
  <2>5. \A e \in more : e.offset \notin 0 .. Len(header) - 1
    <3>1. 285 \notin 0 .. Len(header) - 1
      BY <1>5
    <3> TAKE e \in more
    <3>2. e.offset = 285
      BY <2>4
    <3> QED
      BY <3>1, <3>2, Zenon
  <2>6. reading.expects = Bytes(0, header) \cup more
    BY <2>1 DEF more
  <2>7. Agree(0, header)
    BY <1>5, <2>5, <2>6, OwnBytesAgree, Zenon
  <2>8. MayBe34(285)
    <3>1. 0 \in Int
      OBVIOUS
    <3>2. \A e \in Bytes(0, header) : e.offset \in 0 .. 0 + Len(header) - 1
      BY <1>5, <3>1, BytesAre, Zenon
    <3>3. \A e \in Bytes(0, header) : e.offset # 285
      <4>1. 285 \notin 0 .. 0 + Len(header) - 1
        BY <1>5
      <4> TAKE e \in Bytes(0, header)
      <4>2. e.offset \in 0 .. 0 + Len(header) - 1
        BY <3>2
      <4> QED
        BY <4>1, <4>2, Zenon
    <3> QED
      BY <2>4, <2>6, <3>3 DEF MayBe34
  <2> QED
    BY <2>3, <2>7, <2>8
<1>7. reading.size = 320 /\ reading.takes \subseteq {plan[i] : i \in 1 .. 12}
  <2>1. reading.size = 320 /\ reading.takes = HeaderSlices \cup {plan[11], plan[12]}
    BY <1>3, Zenon DEF SettlementStatementBytes
  <2>2. HeaderSlices \subseteq {plan[i] : i \in 2 .. 7}
    <3> HIDE DEF plan
    <3>1. 2 .. 7 = {2, 3, 4, 5, 6, 7}
      OBVIOUS
    <3> QED
      BY <1>3, <3>1 DEF HeaderSlices
  <2> HIDE DEF plan
  <2> QED
    BY <2>1, <2>2
<1> HIDE DEF plan, header
<1>8. /\ PlanEnd(plan, 0) = 0
      /\ PlanEnd(plan, 1) = 33
      /\ PlanEnd(plan, 2) = 65
      /\ PlanEnd(plan, 3) = 101
      /\ PlanEnd(plan, 4) = 133
      /\ PlanEnd(plan, 5) = 165
      /\ PlanEnd(plan, 6) = 173
      /\ PlanEnd(plan, 7) = 181
      /\ PlanEnd(plan, 8) = 213
      /\ PlanEnd(plan, 9) = 245
      /\ PlanEnd(plan, 10) = 277
      /\ PlanEnd(plan, 11) = 285
      /\ PlanEnd(plan, 12) = 320
  BY <1>4 DEF PlanEnd
<1>9. /\ Follows(plan, 1)
      /\ Follows(plan, 2)
      /\ Follows(plan, 3)
      /\ Follows(plan, 4)
      /\ Follows(plan, 5)
      /\ Follows(plan, 6)
      /\ Follows(plan, 7)
      /\ Follows(plan, 8)
      /\ Follows(plan, 9)
      /\ Follows(plan, 10)
      /\ Follows(plan, 11)
      /\ Follows(plan, 12)
  <2>1. Follows(plan, 1)
    BY <1>1, <1>4, <1>5, <1>6, <1>8 DEF Follows
  <2>2. /\ Follows(plan, 2)
        /\ Follows(plan, 3)
        /\ Follows(plan, 4)
        /\ Follows(plan, 5)
        /\ Follows(plan, 6)
        /\ Follows(plan, 7)
        /\ Follows(plan, 8)
        /\ Follows(plan, 9)
        /\ Follows(plan, 10)
        /\ Follows(plan, 11)
    BY <1>1, <1>4, <1>8 DEF Follows
  <2>3. Follows(plan, 12)
    <3>1. 12 - 1 = 11
      OBVIOUS
    <3> QED
      BY <1>1, <1>4, <1>6, <1>8, <3>1 DEF Follows
  <2> QED
    BY <2>1, <2>2, <2>3
<1>10. /\ InOrder(plan, 1)
       /\ InOrder(plan, 2)
       /\ InOrder(plan, 3)
       /\ InOrder(plan, 4)
       /\ InOrder(plan, 5)
       /\ InOrder(plan, 6)
       /\ InOrder(plan, 7)
       /\ InOrder(plan, 8)
       /\ InOrder(plan, 9)
       /\ InOrder(plan, 10)
       /\ InOrder(plan, 11)
       /\ InOrder(plan, 12)
  <2>1. /\ 1 .. 1 - 1 = {}
        /\ 1 .. 2 - 1 = {1}
        /\ 1 .. 3 - 1 = {1, 2}
        /\ 1 .. 4 - 1 = {1, 2, 3}
        /\ 1 .. 5 - 1 = {1, 2, 3, 4}
        /\ 1 .. 6 - 1 = {1, 2, 3, 4, 5}
        /\ 1 .. 7 - 1 = {1, 2, 3, 4, 5, 6}
        /\ 1 .. 8 - 1 = {1, 2, 3, 4, 5, 6, 7}
        /\ 1 .. 9 - 1 = {1, 2, 3, 4, 5, 6, 7, 8}
        /\ 1 .. 10 - 1 = {1, 2, 3, 4, 5, 6, 7, 8, 9}
        /\ 1 .. 11 - 1 = {1, 2, 3, 4, 5, 6, 7, 8, 9, 10}
        /\ 1 .. 12 - 1 = {1, 2, 3, 4, 5, 6, 7, 8, 9, 10, 11}
    OBVIOUS
  <2> QED
    BY <1>4, <2>1 DEF InOrder
<1>11. /\ SliceOf(plan, 1)
       /\ SliceOf(plan, 2)
       /\ SliceOf(plan, 3)
       /\ SliceOf(plan, 4)
       /\ SliceOf(plan, 5)
       /\ SliceOf(plan, 6)
       /\ SliceOf(plan, 7)
       /\ SliceOf(plan, 8)
       /\ SliceOf(plan, 9)
       /\ SliceOf(plan, 10)
       /\ SliceOf(plan, 11)
       /\ SliceOf(plan, 12)
  BY <1>3, <1>4 DEF SliceOf
<1>12. 1 .. Len(format) = {1, 2, 3, 4, 5, 6, 7, 8, 9, 10, 11, 12}
  BY <1>1
<1>13. Planned(plan)
  <2>1. \A k \in 1 .. Len(format) : Follows(plan, k) /\ InOrder(plan, k) /\ SliceOf(plan, k)
    BY <1>9, <1>10, <1>11, <1>12
  <2>2. /\ reading.size = PlanEnd(plan, Len(format)) /\ Len(format) > 0
        /\ reading.takes \subseteq {plan[i] : i \in 1 .. Len(format)}
    BY <1>1, <1>7, <1>8
  <2> QED
    BY <1>2, <2>1, <2>2 DEF Planned
<1>14. \A k \in 1 .. Len(format) : LengthPinned(plan, k)
  <2>1. \A k \in {1, 2, 3, 4, 5, 6, 7, 8, 9, 10, 11} : format[k].kind # "string"
    BY <1>1 DEF Known, Data
  <2>2. LengthPinned(plan, 12)
    <3>1. 12 - 1 = 11
      OBVIOUS
    <3> QED
      BY <1>6, <1>8, <3>1 DEF LengthPinned
  <2> QED
    BY <1>12, <2>1, <2>2 DEF LengthPinned
<1> QED
  BY <1>13, <1>14 DEF plan

\* A header that differs from the one insisted on is refused.
LEMMA HeaderRefused ==
  ASSUME NEW b \in Seq(Nat), NEW c \in Seq(Nat), Len(c) = Len(b),
         NEW k \in 1 .. Len(b), b[k] # c[k],
         Bytes(0, b) \subseteq reading.expects
  PROVE  ~ Agree(0, c)
<1> DEFINE e == [offset |-> 0 + k - 1, byte |-> b[k]]
<1>1. e \in reading.expects
  BY DEF Bytes
<1>2. e.offset = k - 1 /\ e.byte = b[k]
  OBVIOUS
<1> HIDE DEF e
<1>3. Len(b) \in Nat
  OBVIOUS
<1>4. e.offset \in 0 .. 0 + Len(c) - 1 /\ e.offset - 0 + 1 = k
  BY <1>2, <1>3
<1>5. Agree(0, c) => e.byte = c[e.offset - 0 + 1]
  BY <1>1, <1>4 DEF Agree
<1> QED
  BY <1>2, <1>4, <1>5

\* The formats are told apart by their first item and their number of items.
LEMMA FormatsAre ==
  /\ Transaction[1].kind = "data"
  /\ \A n \in {2, 4} : Len(SpentScripts(n)) = n /\ SpentScripts(n)[1].kind = "string"
  /\ Len(Encoded_genesis_state) = 2 /\ Encoded_genesis_state[1].kind = "known"
  /\ Len(Encoded_active_state) = 3 /\ Encoded_active_state[1].kind = "known"
  /\ Len(CollectionStatement) = 15 /\ CollectionStatement[1].kind = "known"
  /\ Len(SettlementStatement) = 12 /\ SettlementStatement[1].kind = "known"
<1>1. \A name, other : /\ Data(name, other).kind = "data"
                       /\ String(name).kind = "string" /\ Known(name, other).kind = "known"
  BY DEF Data, String, Known
<1>2. Transaction[1].kind = "data"
  <2>1. Transaction[1] = Data("version", 4)
    BY DEF Transaction
  <2> QED
    BY <1>1, <2>1
<1>3. \A n \in {2, 4} : Len(SpentScripts(n)) = n /\ SpentScripts(n)[1].kind = "string"
  <2>1. \A n \in {2, 4} : Len(SpentScripts(n)) = n /\ SpentScripts(n)[1] = String("spk")
    BY DEF SpentScripts
  <2> QED
    BY <1>1, <2>1
<1>4. Len(Encoded_genesis_state) = 2 /\ Encoded_genesis_state[1].kind = "known"
  <2>1. Len(Encoded_genesis_state) = 2
        /\ Encoded_genesis_state[1] = Known("header", Magic \o <<1, 0>>)
    BY DEF Encoded_genesis_state
  <2> QED
    BY <1>1, <2>1
<1>5. Len(Encoded_active_state) = 3 /\ Encoded_active_state[1].kind = "known"
  <2>1. Len(Encoded_active_state) = 3
        /\ Encoded_active_state[1] = Known("header", Magic \o <<1, 1>>)
    BY DEF Encoded_active_state
  <2> QED
    BY <1>1, <2>1
<1>6. Len(CollectionStatement) = 15 /\ CollectionStatement[1].kind = "known"
  <2>1. Len(CollectionStatement) = 15
        /\ CollectionStatement[1] = Known("header", Domain \o <<1, 1>>)
    BY DEF CollectionStatement, StatementPrefix, EncodedDeposit
  <2> QED
    BY <1>1, <2>1
<1>7. Len(SettlementStatement) = 12 /\ SettlementStatement[1].kind = "known"
  <2>1. Len(SettlementStatement) = 12
        /\ SettlementStatement[1] = Known("header", Domain \o <<1, 2>>)
    BY DEF SettlementStatement, StatementPrefix
  <2> QED
    BY <1>1, <2>1
<1> QED
  BY <1>2, <1>3, <1>4, <1>5, <1>6, <1>7

\* What may be written under a reading.
LEMMA WrittenFor ==
  ASSUME Init
  PROVE  /\ reading.format = Transaction => format = Transaction
         /\ \A n \in {2, 4} : reading.format = SpentScripts(n) => format = SpentScripts(n)
         /\ reading.format \in {Encoded_genesis_state, Encoded_active_state}
              => format \in {Encoded_genesis_state, Encoded_active_state}
         /\ reading.format \in {CollectionStatement, SettlementStatement}
              => format \in {CollectionStatement, SettlementStatement}
<1> DEFINE f == reading.format
           two == SpentScripts(2)
           four == SpentScripts(4)
<1>1. /\ Len(two) = 2 /\ two[1].kind = "string" /\ Len(four) = 4 /\ four[1].kind = "string"
  BY FormatsAre
<1>2. PICK family \in Families : f \in family /\ format \in family
  BY DEF Init
<1> HIDE DEF f, two, four
<1>3. family \in {{Transaction}, {two}, {four},
                  {Encoded_genesis_state, Encoded_active_state},
                  {CollectionStatement, SettlementStatement}}
  BY <1>2 DEF Families, two, four
<1>4. /\ f = Transaction => format = Transaction
      /\ f = two => format = two
      /\ f = four => format = four
  BY <1>1, <1>2, <1>3, FormatsAre
<1>5. f \in {Encoded_genesis_state, Encoded_active_state}
        => format \in {Encoded_genesis_state, Encoded_active_state}
  BY <1>1, <1>2, <1>3, FormatsAre
<1>6. f \in {CollectionStatement, SettlementStatement}
        => format \in {CollectionStatement, SettlementStatement}
  BY <1>1, <1>2, <1>3, FormatsAre
<1> QED
  BY <1>4, <1>5, <1>6 DEF f, two, four

\* Which readings read transactions.
LEMMA TransactionReadings ==
  ASSUME Init, reading.format = Transaction
  PROVE  reading \in {OneInputTwoOutput, TwoInputThreeOutput, CollectionTransaction,
                      SettlementTransaction}
<1>1. /\ CollectionScripts.format = SpentScripts(4) /\ SettlementScripts.format = SpentScripts(2)
      /\ DepositScripts.format = SpentScripts(4)
      /\ GenesisStateBytes.format = Encoded_genesis_state
      /\ ActiveStateBytes.format = Encoded_active_state
      /\ CollectionStatementBytes.format = CollectionStatement
      /\ SettlementStatementBytes.format = SettlementStatement
  BY DEF CollectionScripts, SettlementScripts, DepositScripts, GenesisStateBytes,
         ActiveStateBytes, CollectionStatementBytes, SettlementStatementBytes
<1>2. /\ SpentScripts(4) # Transaction /\ SpentScripts(2) # Transaction
      /\ Encoded_genesis_state # Transaction /\ Encoded_active_state # Transaction
      /\ CollectionStatement # Transaction /\ SettlementStatement # Transaction
  BY FormatsAre
<1>3. reading \in Readings
  BY DEF Init
<1> QED
  BY <1>1, <1>2, <1>3 DEF Readings

\* Every reading of transactions begins at the first stage.
LEMMA TransactionInit ==
  ASSUME Init
  PROVE  TransactionInv
<1> SUFFICES ASSUME reading.format = Transaction
             PROVE  \E n, m \in 0 .. 252 : ReadsTransaction(n, m) /\ (agrees => TxStage(n, m))
  BY DEF TransactionInv
<1>1. ASSUME NEW n \in Nat, NEW m \in Nat
      PROVE  TxStage(n, m)
  <2> DEFINE c == Count(0, 0, 0, 0, 0, 0, 0, 0, 0, 0)
  <2>1. \A name \in TxNames : c[name] = 0
    BY DEF Count, TxNames
  <2> HIDE DEF c
  <2>2. \A name \in TxNames : 1 .. c[name] = {}
    BY <2>1
  <2>3. TxFields(n, m, c) = {}
    BY <2>2 DEF TxFields
  <2>4. format = Transaction
    BY WrittenFor
  <2> QED
    BY <2>3, <2>4 DEF Init, TxStage, AtVersion, Stage, c
<1>2. \E n, m \in 0 .. 252 : ReadsTransaction(n, m)
  <2>1. CASE reading = OneInputTwoOutput
    BY <2>1, ReadsOneInputTwoOutput DEF ReadsTransaction
  <2>2. CASE reading = TwoInputThreeOutput
    BY <2>2, ReadsTwoInputThreeOutput DEF ReadsTransaction
  <2>3. CASE reading = CollectionTransaction
    BY <2>3, ReadsCollectionTransaction DEF ReadsTransaction
  <2>4. CASE reading = SettlementTransaction
    BY <2>4, ReadsSettlementTransaction DEF ReadsTransaction
  <2> QED
    BY <2>1, <2>2, <2>3, <2>4, TransactionReadings
<1>3. 0 .. 252 \subseteq Nat
  OBVIOUS
<1> QED
  BY <1>1, <1>2, <1>3

\* A format that has a plan begins along it.
LEMMA AlongInit ==
  ASSUME Init, NEW plan, Planned(plan),
         (\A k \in 1 .. Len(format) : LengthPinned(plan, k)) \/ FirstAlone(plan)
  PROVE  Along(plan)
<1>1. PICK S : format \in Seq(S)
  BY DEF Planned
<1>2. Len(format) \in Nat /\ 0 \in 0 .. Len(format)
  BY <1>1
<1>3. Left(0) = format
  BY <1>1, <1>2, LeftAre
<1>4. FlatStage(plan, 0)
  <2>1. {plan[i] : i \in 1 .. 0} = {}
    OBVIOUS
  <2> QED
    BY <1>3, <2>1 DEF Init, FlatStage, PlanEnd
<1>5. agrees
  BY DEF Init
<1> QED
  BY <1>2, <1>4, <1>5 DEF Along

\* The scripts of a transition, under each of the three readings of them.
LEMMA ScriptsAlong ==
  ASSUME Init, reading \in {CollectionScripts, SettlementScripts, DepositScripts}
  PROVE  format = reading.format /\ \E plan \in Plans : Along(plan)
<1>1. ASSUME NEW n \in {2, 4}, format = SpentScripts(n), reading.size = 35 * n,
             \A e \in reading.expects : e.byte = 34,
             reading.takes \subseteq {ScriptsPlan(n)[k] : k \in 1 .. n},
             \/ \A k \in 1 .. n : Wants(35 * (k - 1), 34)
             \/ Wants(0, 34) /\ reading.takes \subseteq {ScriptsPlan(n)[1]}
      PROVE  \E plan \in Plans : Along(plan)
  <2>1. n \in Nat \ {0} /\ 1 \in 1 .. n /\ 35 * (1 - 1) = 0
    OBVIOUS
  <2>2. /\ Planned(ScriptsPlan(n))
        /\ \A k \in 1 .. n : Wants(35 * (k - 1), 34) => LengthPinned(ScriptsPlan(n), k)
    BY <1>1, <2>1, ScriptsPlanned, Zenon
  <2>3. Len(format) = n
    BY <1>1, FormatsAre
  <2>4. \/ \A k \in 1 .. Len(format) : LengthPinned(ScriptsPlan(n), k)
        \/ FirstAlone(ScriptsPlan(n))
    <3>1. Wants(0, 34) => LengthPinned(ScriptsPlan(n), 1)
      BY <2>1, <2>2, Zenon
    <3> QED
      BY <1>1, <2>2, <2>3, <3>1 DEF FirstAlone
  <2>5. Along(ScriptsPlan(n))
    BY <2>2, <2>4, AlongInit
  <2>6. ScriptsPlan(n) \in Plans
    BY DEF Plans
  <2> QED
    BY <2>5, <2>6
<1>2. \A o \in Int : Bytes(o, <<34>>) = {[offset |-> o, byte |-> 34]}
  BY OneByte, Zenon
<1>3. ASSUME NEW offsets \in SUBSET Int
      PROVE  /\ \A e \in AllBytes(offsets, <<34>>) : e.byte = 34
             /\ \A o \in offsets : [offset |-> o, byte |-> 34] \in AllBytes(offsets, <<34>>)
  <2>1. \A o \in offsets : Bytes(o, <<34>>) = {[offset |-> o, byte |-> 34]}
    BY <1>2
  <2> QED
    BY <2>1 DEF AllBytes
<1>4. CASE reading = CollectionScripts
  <2> DEFINE n == 4
             offsets == {0, 35, 70, 105}
  <2>1. format = SpentScripts(n) /\ format = reading.format /\ reading.size = 35 * n
    <3>1. reading.format = SpentScripts(4)
      BY <1>4 DEF CollectionScripts
    <3>2. format = SpentScripts(4)
      BY <3>1, WrittenFor
    <3>3. reading.size = 140 /\ 35 * 4 = 140
      BY <1>4 DEF CollectionScripts
    <3> QED
      BY <3>1, <3>2, <3>3
  <2>2. reading.expects = AllBytes(offsets, <<34>>) /\ offsets \in SUBSET Int
    BY <1>4 DEF CollectionScripts
  <2>3. 1 .. n = {1, 2, 3, 4} /\ n \in {2, 4}
    OBVIOUS
  <2>4. reading.takes \subseteq {ScriptsPlan(n)[k] : k \in 1 .. n}
    <3>1. /\ ScriptsPlan(4)[1] = Slice("spk", 1, 1, 34)
          /\ ScriptsPlan(4)[2] = Slice("spk", 2, 36, 34)
          /\ ScriptsPlan(4)[3] = Slice("spk", 3, 71, 34)
          /\ ScriptsPlan(4)[4] = Slice("spk", 4, 106, 34)
      BY DEF ScriptsPlan
    <3>2. reading.takes = {ScriptsPlan(4)[1], ScriptsPlan(4)[2], ScriptsPlan(4)[3],
                           ScriptsPlan(4)[4]}
      BY <1>4, <3>1, Zenon DEF CollectionScripts
    <3> QED
      BY <2>3, <3>2
  <2>5. \A k \in 1 .. n : 35 * (k - 1) \in offsets
    BY <2>3
  <2> HIDE DEF n, offsets
  <2>6. /\ \A e \in reading.expects : e.byte = 34
        /\ \A k \in 1 .. n : Wants(35 * (k - 1), 34)
    BY <1>3, <2>2, <2>5, Zenon DEF Wants
  <2> QED
    BY <1>1, <2>1, <2>3, <2>4, <2>6, Zenon
<1>5. CASE reading = SettlementScripts
  <2> DEFINE n == 2
             offsets == {0, 35}
  <2>1. format = SpentScripts(n) /\ format = reading.format /\ reading.size = 35 * n
    <3>1. reading.format = SpentScripts(2)
      BY <1>5 DEF SettlementScripts
    <3>2. format = SpentScripts(2)
      BY <3>1, WrittenFor
    <3>3. reading.size = 70 /\ 35 * 2 = 70
      BY <1>5 DEF SettlementScripts
    <3> QED
      BY <3>1, <3>2, <3>3
  <2>2. reading.expects = AllBytes(offsets, <<34>>) /\ offsets \in SUBSET Int
    BY <1>5 DEF SettlementScripts
  <2>3. 1 .. n = {1, 2} /\ n \in {2, 4}
    OBVIOUS
  <2>4. reading.takes \subseteq {ScriptsPlan(n)[k] : k \in 1 .. n}
    <3>1. ScriptsPlan(2)[1] = Slice("spk", 1, 1, 34) /\ ScriptsPlan(2)[2] = Slice("spk", 2, 36, 34)
      BY DEF ScriptsPlan
    <3>2. reading.takes = {ScriptsPlan(2)[1], ScriptsPlan(2)[2]}
      BY <1>5, <3>1, Zenon DEF SettlementScripts
    <3> QED
      BY <2>3, <3>2
  <2>5. \A k \in 1 .. n : 35 * (k - 1) \in offsets
    BY <2>3
  <2> HIDE DEF n, offsets
  <2>6. /\ \A e \in reading.expects : e.byte = 34
        /\ \A k \in 1 .. n : Wants(35 * (k - 1), 34)
    BY <1>3, <2>2, <2>5, Zenon DEF Wants
  <2> QED
    BY <1>1, <2>1, <2>3, <2>4, <2>6, Zenon
<1>6. CASE reading = DepositScripts
  <2> DEFINE n == 4
             takes == {ScriptsPlan(n)[1]}
  <2>1. format = SpentScripts(n) /\ format = reading.format /\ reading.size = 35 * n
    <3>1. reading.format = SpentScripts(4)
      BY <1>6 DEF DepositScripts
    <3>2. format = SpentScripts(4)
      BY <3>1, WrittenFor
    <3>3. reading.size = 140 /\ 35 * 4 = 140
      BY <1>6 DEF DepositScripts
    <3> QED
      BY <3>1, <3>2, <3>3
  <2>2. reading.expects = {[offset |-> 0, byte |-> 34]}
    <3>1. 0 \in Int
      OBVIOUS
    <3>2. reading.expects = Bytes(0, <<34>>)
      BY <1>6 DEF DepositScripts
    <3> QED
      BY <1>2, <3>1, <3>2, Zenon
  <2>3. 1 \in 1 .. n /\ n \in {2, 4}
    OBVIOUS
  <2>4. reading.takes = takes
    <3>1. ScriptsPlan(4)[1] = Slice("spk", 1, 1, 34)
      BY DEF ScriptsPlan
    <3> QED
      BY <1>6, <3>1, Zenon DEF DepositScripts
  <2>5. (\A e \in reading.expects : e.byte = 34) /\ Wants(0, 34)
    BY <2>2 DEF Wants
  <2>6. /\ reading.takes \subseteq {ScriptsPlan(n)[k] : k \in 1 .. n}
        /\ reading.takes \subseteq {ScriptsPlan(n)[1]}
    BY <2>3, <2>4
  <2> HIDE DEF n, takes
  <2> QED
    BY <1>1, <2>1, <2>3, <2>5, <2>6, Zenon
<1> QED
  BY <1>4, <1>5, <1>6

\* The states: each is written along its plan, and refused as the other.
LEMMA StatesFlat ==
  ASSUME Init, reading \in {GenesisStateBytes, ActiveStateBytes}
  PROVE  FlatInv(Plans)
<1> DEFINE zero == Magic \o <<1, 0>>
           one == Magic \o <<1, 1>>
<1>1. /\ zero \in Seq(Nat) /\ Len(zero) = 9 /\ zero[9] = 0
      /\ one \in Seq(Nat) /\ Len(one) = 9 /\ one[9] = 1
  BY Headers
<1>2. /\ Encoded_genesis_state # <<>> /\ Head(Encoded_genesis_state) = Known("header", zero)
      /\ Encoded_active_state # <<>> /\ Head(Encoded_active_state) = Known("header", one)
  BY DEF Encoded_genesis_state, Encoded_active_state
<1>3. /\ reading = GenesisStateBytes => /\ reading.format = Encoded_genesis_state
                                        /\ reading.expects = Bytes(0, zero)
      /\ reading = ActiveStateBytes => /\ reading.format = Encoded_active_state
                                       /\ reading.expects = Bytes(0, one)
  BY DEF GenesisStateBytes, ActiveStateBytes
<1>4. format \in {Encoded_genesis_state, Encoded_active_state}
  BY <1>3, WrittenFor
<1> HIDE DEF zero, one
<1>5. 9 \in 1 .. Len(zero) /\ 9 \in 1 .. Len(one) /\ zero[9] # one[9]
  BY <1>1
<1>6. ASSUME format # reading.format
      PROVE  Crossed /\ rest = format /\ at = 0
  <2>1. CASE reading = GenesisStateBytes
    <3>1. ~ Agree(0, one)
      BY <1>1, <1>3, <1>5, <2>1, HeaderRefused
    <3> QED
      BY <1>1, <1>2, <1>3, <1>4, <1>6, <2>1, <3>1 DEF Crossed, Init
  <2>2. CASE reading = ActiveStateBytes
    <3>1. ~ Agree(0, zero)
      BY <1>1, <1>3, <1>5, <2>2, HeaderRefused
    <3> QED
      BY <1>1, <1>2, <1>3, <1>4, <1>6, <2>2, <3>1 DEF Crossed, Init
  <2> QED
    BY <2>1, <2>2
<1>7. ASSUME format = reading.format
      PROVE  \E plan \in Plans : Along(plan)
  <2>1. CASE reading = GenesisStateBytes
    BY <1>3, <1>7, <2>1, GenesisPlanned, AlongInit DEF Plans
  <2>2. CASE reading = ActiveStateBytes
    BY <1>3, <1>7, <2>2, ActivePlanned, AlongInit DEF Plans
  <2> QED
    BY <2>1, <2>2
<1> QED
  BY <1>6, <1>7 DEF FlatInv

\* The statements likewise.
LEMMA StatementsFlat ==
  ASSUME Init, reading \in {CollectionStatementBytes, SettlementStatementBytes}
  PROVE  FlatInv(Plans)
<1> DEFINE first == Domain \o <<1, 1>>
           second == Domain \o <<1, 2>>
<1>1. /\ first \in Seq(Nat) /\ Len(first) = 33 /\ first[33] = 1
      /\ second \in Seq(Nat) /\ Len(second) = 33 /\ second[33] = 2
  BY Headers
<1>2. /\ CollectionStatement # <<>> /\ Head(CollectionStatement) = Known("header", first)
      /\ SettlementStatement # <<>> /\ Head(SettlementStatement) = Known("header", second)
  <2>1. CollectionStatement # <<>> /\ SettlementStatement # <<>>
    <3>1. Len(<<>>) = 0
      OBVIOUS
    <3>2. Len(CollectionStatement) = 15 /\ Len(SettlementStatement) = 12
      BY FormatsAre
    <3>3. /\ CollectionStatement = <<>> => 15 = 0
          /\ SettlementStatement = <<>> => 12 = 0
      BY <3>1, <3>2, Zenon
    <3> QED
      BY <3>3
  <2>2. Head(CollectionStatement) = Known("header", first)
    BY DEF CollectionStatement, StatementPrefix, EncodedDeposit
  <2>3. Head(SettlementStatement) = Known("header", second)
    BY DEF SettlementStatement, StatementPrefix
  <2> QED
    BY <2>1, <2>2, <2>3
<1>3. /\ reading = CollectionStatementBytes =>
           /\ reading.format = CollectionStatement
           /\ Bytes(0, first) \subseteq reading.expects
      /\ reading = SettlementStatementBytes =>
           /\ reading.format = SettlementStatement
           /\ Bytes(0, second) \subseteq reading.expects
  BY DEF CollectionStatementBytes, SettlementStatementBytes
<1>4. format \in {CollectionStatement, SettlementStatement}
  BY <1>3, WrittenFor
<1> HIDE DEF first, second
<1>5. 33 \in 1 .. Len(first) /\ 33 \in 1 .. Len(second) /\ first[33] # second[33]
  BY <1>1
<1>6. ASSUME format # reading.format
      PROVE  Crossed /\ rest = format /\ at = 0
  <2>1. CASE reading = CollectionStatementBytes
    <3>1. ~ Agree(0, second)
      BY <1>1, <1>3, <1>5, <2>1, HeaderRefused
    <3> QED
      BY <1>1, <1>2, <1>3, <1>4, <1>6, <2>1, <3>1 DEF Crossed, Init
  <2>2. CASE reading = SettlementStatementBytes
    <3>1. ~ Agree(0, first)
      BY <1>1, <1>3, <1>5, <2>2, HeaderRefused
    <3> QED
      BY <1>1, <1>2, <1>3, <1>4, <1>6, <2>2, <3>1 DEF Crossed, Init
  <2> QED
    BY <2>1, <2>2
<1>7. ASSUME format = reading.format
      PROVE  \E plan \in Plans : Along(plan)
  <2>1. CASE reading = CollectionStatementBytes
    BY <1>3, <1>7, <2>1, CollectionPlanned, AlongInit DEF Plans
  <2>2. CASE reading = SettlementStatementBytes
    BY <1>3, <1>7, <2>2, SettlementPlanned, AlongInit DEF Plans
  <2> QED
    BY <2>1, <2>2
<1> QED
  BY <1>6, <1>7 DEF FlatInv

\* Every string that is not a transaction begins as the invariant says.
LEMMA FlatInit ==
  ASSUME Init
  PROVE  FlatInv(Plans)
<1>1. reading \in Readings
  BY DEF Init
<1>2. CASE reading.format = Transaction
  <2>1. format = reading.format /\ format = Transaction
    BY <1>2, WrittenFor
  <2> QED
    BY <2>1 DEF FlatInv
<1>3. CASE reading \in {CollectionScripts, SettlementScripts, DepositScripts}
  BY <1>3, ScriptsAlong DEF FlatInv
<1>4. CASE reading \in {GenesisStateBytes, ActiveStateBytes}
  BY <1>4, StatesFlat
<1>5. CASE reading \in {CollectionStatementBytes, SettlementStatementBytes}
  BY <1>5, StatementsFlat
<1>6. CASE reading \in {OneInputTwoOutput, TwoInputThreeOutput, CollectionTransaction,
                        SettlementTransaction}
  <2>1. reading.format = Transaction
    BY <1>6 DEF OneInputTwoOutput, TwoInputThreeOutput, CollectionTransaction,
                SettlementTransaction
  <2> QED
    BY <1>2, <2>1
<1> QED
  BY <1>1, <1>3, <1>4, <1>5, <1>6 DEF Readings

-----------------------------------------------------------------------------
(* Theorems                                                                *)

LayoutInv == TransactionInv /\ FlatInv(Plans)

\* What every step of the writer keeps, for every string it may write: what
\* agrees so far is a prefix of the one form the reading has.
THEOREM Stays_In_Form == Spec => []LayoutInv
<1>1. Init => LayoutInv
  BY TransactionInit, FlatInit DEF LayoutInv
<1>2. LayoutInv /\ [Next]_vars => LayoutInv'
  <2> SUFFICES ASSUME LayoutInv, [Next]_vars PROVE LayoutInv'
    OBVIOUS
  <2>1. TransactionInv'
    BY TransactionNext DEF LayoutInv
  <2> DEFINE plans == Plans
  <2>2. FlatInv(plans)
    BY DEF LayoutInv
  <2> HIDE DEF plans
  <2>3. FlatInv(plans)'
    BY <2>2, FlatInvNext
  <2> QED
    BY <2>1, <2>3 DEF LayoutInv, plans
<1> QED
  BY <1>1, <1>2, PTL DEF Spec

\* bridge.py, deposit.py and linearization.py, every slice: in a string that
\* passes the checks each slice is the field it is taken for, whatever counts,
\* lengths and data the string's writer chose.
THEOREM Slices_Are_Fields == Spec => []SlicesAreFields
<1>1. LayoutInv => SlicesAreFields
  BY InvImplies DEF LayoutInv
<1> QED
  BY <1>1, Stays_In_Form, PTL

\* linearization.py and deposit.py, the checks of a parent and an ancestor:
\* they leave one form of transaction, and insist on nothing that is not in it.
THEOREM Transactions_Have_Form == Spec => []TransactionsHaveForm
<1>1. LayoutInv => TransactionsHaveForm
  BY InvImplies DEF LayoutInv
<1> QED
  BY <1>1, Stays_In_Form, PTL

\* lib.rs, the encoders, and bridge.py, the sizes and headers: no state,
\* statement or set of scripts of a well-formed transition is ever refused.
THEOREM Honest_Never_Refused == Spec => []HonestNeverRefused
<1>1. LayoutInv => HonestNeverRefused
  BY InvImplies DEF LayoutInv
<1> QED
  BY <1>1, Stays_In_Form, PTL

=============================================================================
