---------------------------- MODULE BuilderProofs ----------------------------
(***************************************************************************)
(* The Builder's names describe the stack of a run, whatever is called and *)
(* however its branches are decided: GetsNamed and BaseKept for programs   *)
(* of any size and nesting.                                                *)
(***************************************************************************)
EXTENDS Builder, SequenceTheorems, TLAPS

Item == Names \cup {NoName} \cup STRING

Frame == [side : Sides, taken : Sides, before : Seq(Item), after : Seq(Item)]

Agrees(frame) == frame.side = frame.taken

\* What the program keeps while the run waits for a side that is not taken to
\* be compiled: what the other side starts from, or what it ended with.
Left(frame) == IF frame.side = "yes" THEN frame.before ELSE frame.after

Typed ==
  /\ names \in Seq(Item)
  /\ branches \in Seq(Frame)
  /\ stack \in Seq(Item)

Described == Runs => stack = Base \o names

Waiting ==
  \A k \in 1 .. Len(branches) :
    ~ Agrees(branches[k]) /\ (\A j \in 1 .. k - 1 : Agrees(branches[j])) =>
      stack = Base \o Left(branches[k])

OnBase == \E items \in Seq(Item) : stack = Base \o items

BuilderInv == Typed /\ Described /\ Waiting /\ OnBase /\ GetsNamed

-----------------------------------------------------------------------------
(* Items above a base                                                      *)

\* The base stack, apart from the rest of the assumption.
LEMMA BaseItems == Base \in Seq(Item) /\ Len(Base) \in Nat /\ Len(Base) >= 2
<1>1. Base \in Seq(STRING) /\ Len(Base) >= 2
  BY BuilderAssumption
<1>2. STRING \subseteq Item
  BY DEF Item
<1> QED
  BY <1>1, <1>2, SeqMonotonic, LenProperties

\* Dropping from the top leaves what is below alone.
LEMMA DroppedAbove ==
  ASSUME NEW base \in Seq(Item), NEW s \in Seq(Item), NEW n \in 0 .. Len(s)
  PROVE  /\ Dropped(s, n) \in Seq(Item)
         /\ Dropped(base \o s, n) = base \o Dropped(s, n)
<1> DEFINE whole == base \o s
           kept == Dropped(s, n)
           left == Dropped(whole, n)
<1>1. /\ Len(s) \in Nat /\ Len(base) \in Nat /\ n \in Nat
      /\ \A i \in 1 .. Len(s) : s[i] \in Item
      /\ \A i \in 1 .. Len(base) : base[i] \in Item
  BY LenProperties, ElementOfSeq
<1>2. /\ whole \in Seq(Item)
      /\ Len(whole) = Len(base) + Len(s)
      /\ \A i \in 1 .. Len(base) + Len(s) :
           whole[i] = IF i <= Len(base) THEN base[i] ELSE s[i - Len(base)]
  BY ConcatProperties
<1>3. \A i \in 1 .. Len(whole) : whole[i] \in Item
  BY <1>2, ElementOfSeq
<1>4. /\ kept \in Seq(Item)
      /\ Len(kept) = Len(s) - n
      /\ \A i \in 1 .. Len(s) - n : kept[i] = s[i]
  <2> DEFINE m == Len(s) - n
  <2>1. m \in Nat /\ \A i \in 1 .. m : s[i] \in Item
    BY <1>1
  <2>2. /\ SubSeq(s, 1, m) \in Seq(Item)
        /\ Len(SubSeq(s, 1, m)) = IF 1 <= m THEN m - 1 + 1 ELSE 0
        /\ \A i \in 1 .. m - 1 + 1 : SubSeq(s, 1, m)[i] = s[1 + i - 1]
    BY <2>1, SubSeqProperties
  <2>3. kept = SubSeq(s, 1, m)
    BY DEF Dropped
  <2> HIDE DEF kept
  <2> QED
    BY <2>1, <2>2, <2>3
<1>5. /\ left \in Seq(Item)
      /\ Len(left) = Len(base) + Len(s) - n
      /\ \A i \in 1 .. Len(base) + Len(s) - n : left[i] = whole[i]
  <2> DEFINE m == Len(whole) - n
  <2> HIDE DEF whole
  <2>1. m \in Nat /\ m = Len(base) + Len(s) - n /\ \A i \in 1 .. m : whole[i] \in Item
    BY <1>1, <1>2, <1>3
  <2>2. /\ SubSeq(whole, 1, m) \in Seq(Item)
        /\ Len(SubSeq(whole, 1, m)) = IF 1 <= m THEN m - 1 + 1 ELSE 0
        /\ \A i \in 1 .. m - 1 + 1 : SubSeq(whole, 1, m)[i] = whole[1 + i - 1]
    BY <2>1, SubSeqProperties
  <2>3. left = SubSeq(whole, 1, m)
    BY DEF Dropped
  <2> HIDE DEF left, m
  <2> QED
    BY <2>1, <2>2, <2>3
<1> HIDE DEF whole, kept, left
<1>6. /\ base \o kept \in Seq(Item)
      /\ Len(base \o kept) = Len(base) + Len(kept)
      /\ \A i \in 1 .. Len(base) + Len(kept) :
           (base \o kept)[i] = IF i <= Len(base) THEN base[i] ELSE kept[i - Len(base)]
  BY <1>4, ConcatProperties
<1>7. \A i \in 1 .. Len(left) : left[i] = (base \o kept)[i]
  <2> SUFFICES ASSUME NEW i \in 1 .. Len(left)
               PROVE  left[i] = (base \o kept)[i]
    OBVIOUS
  <2>1. i \in 1 .. Len(base) + Len(s) - n /\ i \in 1 .. Len(base) + Len(s)
    BY <1>1, <1>5
  <2>2. left[i] = IF i <= Len(base) THEN base[i] ELSE s[i - Len(base)]
    BY <1>2, <1>5, <2>1
  <2>3. i \in 1 .. Len(base) + Len(kept)
    BY <1>1, <1>4, <2>1
  <2>4. (base \o kept)[i] = IF i <= Len(base) THEN base[i] ELSE kept[i - Len(base)]
    BY <1>6, <2>3
  <2>5. ~ i <= Len(base) => kept[i - Len(base)] = s[i - Len(base)]
    <3>1. ~ i <= Len(base) => i - Len(base) \in 1 .. Len(s) - n
      BY <1>1, <2>1
    <3> QED
      BY <1>4, <3>1
  <2> QED
    BY <2>2, <2>4, <2>5
<1>8. left = base \o kept
  BY <1>1, <1>4, <1>5, <1>6, <1>7, SeqEqual
<1> QED
  BY <1>4, <1>8 DEF whole, kept, left

\* Unnamed items are items.
LEMMA UnnamedItems ==
  ASSUME NEW n \in Nat
  PROVE  Unnamed(n) \in Seq(Item)
<1>1. Unnamed(n) \in [1 .. n -> Item]
  BY DEF Unnamed, Item
<1> QED
  BY <1>1, SeqDef

\* An opcode replaces items at the top and leaves what is below alone.
LEMMA ReplacedAbove ==
  ASSUME NEW base \in Seq(Item), NEW s \in Seq(Item),
         NEW n \in 0 .. Len(s), NEW m \in Nat
  PROVE  /\ Dropped(s, n) \o Unnamed(m) \in Seq(Item)
         /\ Dropped(base \o s, n) \o Unnamed(m) = base \o (Dropped(s, n) \o Unnamed(m))
<1>1. Dropped(s, n) \in Seq(Item) /\ Dropped(base \o s, n) = base \o Dropped(s, n)
  BY DroppedAbove
<1>2. Unnamed(m) \in Seq(Item)
  BY UnnamedItems
<1>3. Dropped(s, n) \o Unnamed(m) \in Seq(Item)
  BY <1>1, <1>2, ConcatProperties
<1>4. (base \o Dropped(s, n)) \o Unnamed(m) = base \o (Dropped(s, n) \o Unnamed(m))
  BY <1>1, <1>2, ConcatAssociative
<1> QED
  BY <1>1, <1>3, <1>4

\* A push leaves what is below alone.
LEMMA AppendAbove ==
  ASSUME NEW base \in Seq(Item), NEW s \in Seq(Item), NEW e \in Item
  PROVE  /\ Append(s, e) \in Seq(Item)
         /\ Append(base \o s, e) = base \o Append(s, e)
<1>1. Append(s, e) \in Seq(Item) /\ Append(s, e) = s \o <<e>>
  BY AppendProperties, AppendIsConcat
<1>2. base \o s \in Seq(Item) /\ Append(base \o s, e) = (base \o s) \o <<e>>
  BY ConcatProperties, AppendIsConcat
<1>3. <<e>> \in Seq(Item)
  OBVIOUS
<1>4. (base \o s) \o <<e>> = base \o (s \o <<e>>)
  BY <1>3, ConcatAssociative
<1> QED
  BY <1>1, <1>2, <1>4

\* Naming the top leaves what is below alone.
LEMMA RenamedAbove ==
  ASSUME NEW base \in Seq(Item), NEW s \in Seq(Item), s # <<>>, NEW e \in Item
  PROVE  /\ [s EXCEPT ![Len(s)] = e] \in Seq(Item)
         /\ [base \o s EXCEPT ![Len(base \o s)] = e] = base \o [s EXCEPT ![Len(s)] = e]
<1> DEFINE whole == base \o s
           new == [s EXCEPT ![Len(s)] = e]
           other == [whole EXCEPT ![Len(whole)] = e]
<1>1. Len(s) \in Nat /\ Len(base) \in Nat /\ Len(s) # 0
  BY LenProperties, EmptySeq
<1>2. /\ whole \in Seq(Item)
      /\ Len(whole) = Len(base) + Len(s)
      /\ \A i \in 1 .. Len(base) + Len(s) :
           whole[i] = IF i <= Len(base) THEN base[i] ELSE s[i - Len(base)]
  BY ConcatProperties
<1>3. /\ new \in Seq(Item)
      /\ Len(new) = Len(s)
      /\ \A j \in 1 .. Len(s) : new[j] = IF j = Len(s) THEN e ELSE s[j]
  <2>1. Len(s) \in 1 .. Len(s)
    BY <1>1
  <2> QED
    BY <2>1, ExceptSeq
<1> HIDE DEF whole, new
<1>4. /\ other \in Seq(Item)
      /\ Len(other) = Len(whole)
      /\ \A j \in 1 .. Len(whole) : other[j] = IF j = Len(whole) THEN e ELSE whole[j]
  <2>1. Len(whole) \in 1 .. Len(whole)
    BY <1>1, <1>2
  <2> QED
    BY <1>2, <2>1, ExceptSeq
<1> HIDE DEF other
<1>5. /\ base \o new \in Seq(Item)
      /\ Len(base \o new) = Len(base) + Len(new)
      /\ \A i \in 1 .. Len(base) + Len(new) :
           (base \o new)[i] = IF i <= Len(base) THEN base[i] ELSE new[i - Len(base)]
  BY <1>3, ConcatProperties
<1>6. \A i \in 1 .. Len(other) : other[i] = (base \o new)[i]
  <2> SUFFICES ASSUME NEW i \in 1 .. Len(other)
               PROVE  other[i] = (base \o new)[i]
    OBVIOUS
  <2>1. i \in 1 .. Len(base) + Len(s) /\ i \in 1 .. Len(whole)
    BY <1>2, <1>4
  <2>2. other[i] = IF i = Len(whole) THEN e ELSE whole[i]
    BY <1>4, <2>1
  <2>3. whole[i] = IF i <= Len(base) THEN base[i] ELSE s[i - Len(base)]
    BY <1>2, <2>1
  <2>4. (base \o new)[i] = IF i <= Len(base) THEN base[i] ELSE new[i - Len(base)]
    BY <1>3, <1>5, <2>1
  <2>5. ~ i <= Len(base) =>
          new[i - Len(base)] = IF i - Len(base) = Len(s) THEN e ELSE s[i - Len(base)]
    <3>1. ~ i <= Len(base) => i - Len(base) \in 1 .. Len(s)
      BY <1>1, <2>1
    <3> QED
      BY <1>3, <3>1
  <2>6. /\ i \in Nat
        /\ i <= Len(base) => i # Len(whole)
        /\ i - Len(base) = Len(s) <=> i = Len(whole)
    BY <1>1, <1>2, <2>1
  <2> QED
    BY <2>2, <2>3, <2>4, <2>5, <2>6
<1>7. other = base \o new
  BY <1>2, <1>3, <1>4, <1>5, <1>6, SeqEqual
<1> QED
  BY <1>3, <1>7 DEF whole, new, other

-----------------------------------------------------------------------------
(* Steps                                                                   *)

\* Before the first call the run has the base stack and no names.
LEMMA InitInv ==
  ASSUME Init
  PROVE  BuilderInv
<1>1. names \in Seq(Item)
  BY BuilderAssumption, SeqMonotonic DEF Init, Item
<1>2. branches = <<>> /\ branches \in Seq(Frame) /\ Len(branches) = 0
  BY DEF Init
<1>3. stack = Base \o names
  BY DEF Init
<1>4. stack \in Seq(Item)
  BY <1>1, <1>3, BaseItems, ConcatProperties
<1>5. Waiting
  BY <1>2 DEF Waiting
<1>6. GetsNamed
  BY DEF Init, GetsNamed, Nothing
<1> QED
  BY <1>1, <1>2, <1>3, <1>4, <1>5, <1>6 DEF BuilderInv, Typed, Described, OnBase

\* Code without branches: what it does to the names it does to the stack.
LEMMA StraightStep ==
  ASSUME BuilderInv, UNCHANGED branches, names' \in Seq(Item),
         stack' = IF Runs THEN Base \o names' ELSE stack,
         got'[1] = got'[2]
  PROVE  BuilderInv'
<1>1. Runs' <=> Runs
  BY DEF Runs
<1>2. branches' = branches
  OBVIOUS
<1>3. Typed'
  <2>1. Base \o names' \in Seq(Item)
    BY BaseItems, ConcatProperties
  <2> QED
    BY <2>1 DEF BuilderInv, Typed
<1>4. Described'
  BY <1>1 DEF Described
<1>5. Waiting'
  <2> SUFFICES ASSUME NEW k \in 1 .. Len(branches), ~ Agrees(branches[k]),
                      \A j \in 1 .. k - 1 : Agrees(branches[j])
               PROVE  stack' = Base \o Left(branches[k])
    BY <1>2 DEF Waiting
  <2>1. ~ Runs
    BY DEF Runs, Agrees
  <2>2. stack' = stack
    BY <2>1
  <2> QED
    BY <2>2 DEF BuilderInv, Waiting
<1>6. OnBase'
  BY DEF OnBase, BuilderInv
<1> QED
  BY <1>3, <1>4, <1>5, <1>6 DEF BuilderInv, GetsNamed

\* Where the run is, the names are its stack above the base.
LEMMA StackWhenRunning ==
  ASSUME BuilderInv, Runs
  PROVE  stack = Base \o names
BY DEF BuilderInv, Described

\* Replaces, on names and stack alike.
LEMMA ReplacesBoth ==
  ASSUME BuilderInv, NEW inputs \in 0 .. Len(names), NEW outputs \in Nat,
         Replaces(inputs, outputs)
  PROVE  /\ names' \in Seq(Item)
         /\ stack' = IF Runs THEN Base \o names' ELSE stack
<1>1. names \in Seq(Item) /\ Base \in Seq(Item)
  BY BaseItems DEF BuilderInv, Typed
<1>2. /\ Dropped(names, inputs) \o Unnamed(outputs) \in Seq(Item)
      /\ Dropped(Base \o names, inputs) \o Unnamed(outputs)
           = Base \o (Dropped(names, inputs) \o Unnamed(outputs))
  BY <1>1, ReplacedAbove
<1> QED
  BY <1>2, StackWhenRunning DEF Replaces

\* Names are a sequence, so the last of them has an index.
LEMMA NamesLength ==
  ASSUME BuilderInv
  PROVE  /\ names \in Seq(Item)
         /\ Len(names) \in Nat
         /\ names # <<>> => Len(names) # 0
BY LenProperties, EmptySeq DEF BuilderInv, Typed

\* A push names nothing and adds one item to both.
LEMMA PushStep ==
  ASSUME BuilderInv, Push
  PROVE  BuilderInv'
<1>1. 0 \in 0 .. Len(names)
  BY NamesLength
<1>2. names' \in Seq(Item) /\ stack' = IF Runs THEN Base \o names' ELSE stack
  BY <1>1, ReplacesBoth DEF Push
<1> QED
  BY <1>2, StraightStep DEF Push, Nothing

\* An opcode replaces the same items in both.
LEMMA OpStep ==
  ASSUME BuilderInv, NEW inputs \in Nat, NEW outputs \in Nat, Op(inputs, outputs)
  PROVE  BuilderInv'
<1>1. inputs \in 0 .. Len(names)
  BY NamesLength DEF Op
<1>2. names' \in Seq(Item) /\ stack' = IF Runs THEN Base \o names' ELSE stack
  BY <1>1, ReplacesBoth DEF Op
<1> QED
  BY <1>2, StraightStep DEF Op, Nothing

\* A finished prefix leaves the base.
LEMMA FinishPrefixStep ==
  ASSUME BuilderInv, FinishPrefix
  PROVE  BuilderInv'
<1>1. Len(names) \in 0 .. Len(names)
  BY NamesLength
<1>2. names' \in Seq(Item) /\ stack' = IF Runs THEN Base \o names' ELSE stack
  BY <1>1, ReplacesBoth DEF FinishPrefix
<1> QED
  BY <1>2, StraightStep DEF FinishPrefix, Nothing

\* Naming changes what is believed of the top item, and the item.
LEMMA NameStep ==
  ASSUME BuilderInv, NEW n \in Names, Name(n)
  PROVE  BuilderInv'
<1>1. n \in Item /\ names \in Seq(Item) /\ names # <<>> /\ Base \in Seq(Item)
  BY BaseItems, NamesLength DEF Item, Name
<1>2. /\ names' \in Seq(Item)
      /\ [Base \o names EXCEPT ![Len(Base \o names)] = n] = Base \o names'
  BY <1>1, RenamedAbove DEF Name
<1>3. stack' = IF Runs THEN Base \o names' ELSE stack
  BY <1>2, StackWhenRunning DEF Name
<1> QED
  BY <1>2, <1>3, StraightStep DEF Name, Nothing

\* A copy of the item at the depth that the names give.
LEMMA PicksStep ==
  ASSUME BuilderInv, NEW asked, NEW depth, Picks(asked, depth),
         Runs => stack[Len(stack) - depth] = asked
  PROVE  BuilderInv'
<1>1. NoName \in Item /\ names \in Seq(Item) /\ Base \in Seq(Item)
  BY BaseItems, NamesLength DEF Item
<1>2. /\ names' \in Seq(Item)
      /\ Append(Base \o names, NoName) = Base \o names'
  BY <1>1, AppendAbove DEF Picks
<1>3. stack' = IF Runs THEN Base \o names' ELSE stack
  BY <1>2, StackWhenRunning DEF Picks
<1>4. got'[1] = got'[2]
  BY DEF Picks, Nothing
<1> QED
  BY <1>2, <1>3, <1>4, StraightStep DEF Picks

\* An index into the run's stack, by base and names.
LEMMA RunningStack ==
  ASSUME BuilderInv, Runs
  PROVE  /\ Len(stack) = Len(Base) + Len(names)
         /\ \A i \in 1 .. Len(Base) + Len(names) :
              stack[i] = IF i <= Len(Base) THEN Base[i] ELSE names[i - Len(Base)]
BY BaseItems, NamesLength, StackWhenRunning, ConcatProperties

\* A copy is taken from where the name says the item is.
LEMMA GetStep ==
  ASSUME BuilderInv, NEW n \in Names, Get(n)
  PROVE  BuilderInv'
<1>1. PICK position \in PositionsOf(n) : Picks(n, Len(names) - position)
  BY DEF Get
<1>2. position \in 1 .. Len(names) /\ names[position] = n
  BY DEF PositionsOf
<1>3. ASSUME Runs
      PROVE  stack[Len(stack) - (Len(names) - position)] = n
  <2>1. Len(Base) \in Nat /\ Len(names) \in Nat
    BY BaseItems, NamesLength
  <2>2. Len(stack) - (Len(names) - position) = Len(Base) + position
    BY <1>2, <1>3, <2>1, RunningStack
  <2>3. /\ Len(Base) + position \in 1 .. Len(Base) + Len(names)
        /\ ~ Len(Base) + position <= Len(Base)
        /\ (Len(Base) + position) - Len(Base) = position
    BY <1>2, <2>1
  <2>4. stack[Len(Base) + position] = names[position]
    BY <1>3, <2>3, RunningStack
  <2> QED
    BY <1>2, <2>2, <2>4
<1> QED
  BY <1>1, <1>3, PicksStep

\* The digest is taken from its depth in the base.
LEMMA GetDigestStep ==
  ASSUME BuilderInv, GetDigest
  PROVE  BuilderInv'
<1>1. ASSUME Runs
      PROVE  stack[Len(stack) - (Len(stack) - 2)] = Base[2]
  <2>1. Len(Base) \in Nat /\ Len(Base) >= 2 /\ Len(names) \in Nat
    BY BaseItems, NamesLength
  <2>2. Len(stack) - (Len(stack) - 2) = 2
    BY <1>1, <2>1, RunningStack
  <2>3. 2 \in 1 .. Len(Base) + Len(names) /\ 2 <= Len(Base)
    BY <2>1
  <2>4. stack[2] = Base[2]
    BY <1>1, <2>3, RunningStack
  <2> QED
    BY <2>2, <2>4
<1> QED
  BY <1>1, PicksStep DEF GetDigest

-----------------------------------------------------------------------------
(* Branches                                                                *)

\* The open branches are a sequence of frames.
LEMMA BranchesLength ==
  ASSUME BuilderInv
  PROVE  /\ branches \in Seq(Frame)
         /\ Len(branches) \in Nat
         /\ branches # <<>> => Len(branches) \in 1 .. Len(branches)
         /\ \A k \in 1 .. Len(branches) : branches[k] \in Frame
<1>1. branches \in Seq(Frame)
  BY DEF BuilderInv, Typed
<1>2. Len(branches) \in Nat /\ (branches # <<>> => Len(branches) # 0)
  BY <1>1, LenProperties, EmptySeq
<1>3. \A k \in 1 .. Len(branches) : branches[k] \in Frame
  BY <1>1, ElementOfSeq
<1> QED
  BY <1>1, <1>2, <1>3

\* A step that changes no frame before the last of either state, and whose
\* stack agrees with the last frame of the new state.
LEMMA LowerFramesWait ==
  ASSUME BuilderInv, NEW m \in Nat, m <= Len(branches),
         branches' \in Seq(Frame), Len(branches') \in {m, m + 1},
         \A k \in 1 .. m : branches'[k] = branches[k],
         (\E k \in 1 .. m : ~ Agrees(branches[k])) => stack' = stack,
         /\ Len(branches') = m + 1
         /\ \A k \in 1 .. m : Agrees(branches[k])
         /\ ~ Agrees(branches'[m + 1])
         => stack' = Base \o Left(branches'[m + 1])
  PROVE  Waiting'
<1>1. \A k \in 1 .. m : Agrees(branches'[k]) <=> Agrees(branches[k])
  BY DEF Agrees
<1> SUFFICES ASSUME NEW k \in 1 .. Len(branches'), ~ Agrees(branches'[k]),
                    \A j \in 1 .. k - 1 : Agrees(branches'[j])
             PROVE  stack' = Base \o Left(branches'[k])
  BY DEF Waiting, Left
<1>2. CASE k <= m
  <2>1. k \in 1 .. m /\ k \in 1 .. Len(branches) /\ \A j \in 1 .. k - 1 : j \in 1 .. m
    BY <1>2, BranchesLength
  <2>2. ~ Agrees(branches[k]) /\ \A j \in 1 .. k - 1 : Agrees(branches[j])
    BY <1>1, <2>1
  <2>3. stack = Base \o Left(branches[k])
    BY <2>1, <2>2 DEF BuilderInv, Waiting
  <2> QED
    BY <2>1, <2>2, <2>3
<1>3. CASE ~ k <= m
  <2>1. k = m + 1 /\ Len(branches') = m + 1
    BY <1>3
  <2>2. \A j \in 1 .. m : Agrees(branches[j])
    BY <1>1, <2>1
  <2> QED
    BY <2>1, <2>2
<1> QED
  BY <1>2, <1>3

\* A branch starts on both sides from the names there are.
LEMMA IfStep ==
  ASSUME BuilderInv, NEW taken \in Sides, If(taken)
  PROVE  BuilderInv'
<1> DEFINE m == Len(branches)
           frame == [side |-> "yes", taken |-> taken, before |-> names', after |-> <<>>]
<1>1. names' \in Seq(Item) /\ stack' = IF Runs THEN Base \o names' ELSE stack
  <2>1. 1 \in 0 .. Len(names) /\ 0 \in Nat
    BY NamesLength DEF If
  <2> QED
    BY <2>1, ReplacesBoth DEF If
<1>2. frame \in Frame
  BY <1>1, EmptySeq DEF Frame, Sides
<1>3. /\ branches' \in Seq(Frame)
      /\ Len(branches') = m + 1
      /\ \A k \in 1 .. m : branches'[k] = branches[k]
      /\ branches'[m + 1] = frame
  <2>1. branches' = Append(branches, frame) /\ branches \in Seq(Frame)
    BY BranchesLength DEF If
  <2> HIDE DEF frame
  <2> QED
    BY <1>2, <2>1, AppendProperties
<1>4. m \in Nat
  BY BranchesLength
<1>5. \A k \in 1 .. m : Agrees(branches'[k]) <=> Agrees(branches[k])
  BY <1>3 DEF Agrees
<1>6. Agrees(branches'[m + 1]) <=> taken = "yes"
  BY <1>3 DEF Agrees, Sides
<1>7. Runs <=> \A k \in 1 .. m : Agrees(branches[k])
  BY DEF Runs, Agrees
<1>8. Typed'
  <2>1. Base \o names' \in Seq(Item)
    BY <1>1, BaseItems, ConcatProperties
  <2> QED
    BY <1>1, <1>3, <2>1 DEF BuilderInv, Typed
<1>9. Described'
  <2>1. Runs' => \A k \in 1 .. m : Agrees(branches'[k])
    BY <1>3, <1>4 DEF Runs, Agrees
  <2> QED
    BY <1>1, <1>5, <1>7, <2>1 DEF Described
<1>10. Waiting'
  <2>1. (\E k \in 1 .. m : ~ Agrees(branches[k])) => stack' = stack
    BY <1>1, <1>7
  <2>2. (\A k \in 1 .. m : Agrees(branches[k])) => stack' = Base \o Left(branches'[m + 1])
    BY <1>1, <1>3, <1>7 DEF Left
  <2> QED
    BY <1>3, <1>4, <2>1, <2>2, LowerFramesWait
<1>11. OnBase'
  BY <1>1 DEF OnBase, BuilderInv
<1>12. GetsNamed'
  BY DEF If, GetsNamed, Nothing
<1> QED
  BY <1>8, <1>9, <1>10, <1>11, <1>12 DEF BuilderInv

\* The second side starts from the names before the branch.
LEMMA ElseStep ==
  ASSUME BuilderInv, Else
  PROVE  BuilderInv'
<1> DEFINE n == Len(branches)
           m == n - 1
           old == branches[n]
           new == [old EXCEPT !.side = "no", !.after = names]
<1>1. /\ branches \in Seq(Frame)
      /\ n \in 1 .. n /\ n \in Nat
      /\ old \in Frame
      /\ old.side = "yes"
  BY BranchesLength DEF Else
<1>2. m \in Nat /\ m <= n /\ m + 1 = n /\ \A k \in 1 .. n : k # n => k \in 1 .. m
  BY <1>1
<1>3. /\ new \in Frame
      /\ new.side = "no" /\ new.taken = old.taken /\ new.after = names
  <2>1. names \in Seq(Item)
    BY NamesLength
  <2> QED
    BY <1>1, <2>1 DEF Frame, Sides
<1>4. branches' = [branches EXCEPT ![n] = new]
  BY <1>1 DEF Else
<1>5. /\ branches' \in Seq(Frame)
      /\ Len(branches') = n
      /\ \A k \in 1 .. m : branches'[k] = branches[k]
      /\ branches'[n] = new
  <2> HIDE DEF new
  <2>1. /\ [branches EXCEPT ![n] = new] \in Seq(Frame)
        /\ Len([branches EXCEPT ![n] = new]) = n
        /\ \A k \in 1 .. n :
             [branches EXCEPT ![n] = new][k] = IF k = n THEN new ELSE branches[k]
    BY <1>1, <1>3, ExceptSeq
  <2> HIDE DEF n, m
  <2>2. \A k \in 1 .. m : k \in 1 .. n /\ k # n
    BY <1>1, <1>2
  <2> QED
    BY <1>1, <1>4, <2>1, <2>2
<1> HIDE DEF new, m, n
<1>6. names' = old.before /\ names' \in Seq(Item) /\ stack' = stack
  BY <1>1 DEF Else, Frame, n
<1>7. \A k \in 1 .. m : Agrees(branches'[k]) <=> Agrees(branches[k])
  BY <1>5 DEF Agrees
<1>8. Agrees(branches[n]) <=> old.taken = "yes"
  BY <1>1 DEF Agrees
<1>9. Agrees(branches'[n]) <=> old.taken = "no"
  BY <1>3, <1>5 DEF Agrees
<1>10. old.taken \in Sides /\ Left(old) = old.before /\ Left(new) = names
  BY <1>1, <1>3 DEF Frame, Left
<1>11. Runs <=> (\A k \in 1 .. m : Agrees(branches[k])) /\ Agrees(branches[n])
  <2>1. \A k \in 1 .. m : k \in 1 .. n
    BY <1>1, <1>2
  <2> QED
    BY <1>1, <1>2, <2>1 DEF Runs, Agrees, n
<1>12. Typed'
  BY <1>5, <1>6 DEF BuilderInv, Typed
<1>13. Described'
  <2>1. SUFFICES ASSUME Runs'
                 PROVE  stack = Base \o old.before
    BY <1>6 DEF Described
  <2>2. \A k \in 1 .. n : Agrees(branches'[k])
    BY <1>5, <2>1 DEF Runs, Agrees
  <2>3. old.taken = "no"
    BY <1>1, <1>9, <2>2
  <2>4. ~ Agrees(branches[n])
    BY <1>8, <2>3
  <2>5. \A k \in 1 .. n - 1 : Agrees(branches[k])
    <3>1. \A k \in 1 .. n - 1 : k \in 1 .. n /\ k \in 1 .. m
      BY <1>1, <1>2
    <3> QED
      BY <1>7, <2>2, <3>1
  <2>6. stack = Base \o Left(branches[n])
    BY <1>1, <2>4, <2>5 DEF BuilderInv, Waiting, n
  <2> QED
    BY <1>10, <2>6
<1>14. Waiting'
  <2>1. ASSUME \A k \in 1 .. m : Agrees(branches[k]), ~ Agrees(branches'[n])
        PROVE  stack' = Base \o Left(branches'[n])
    <3>1. Agrees(branches[n])
      BY <1>8, <1>9, <1>10, <2>1 DEF Sides
    <3> QED
      BY <1>5, <1>6, <1>10, <1>11, <2>1, <3>1, StackWhenRunning
  <2>2. m <= Len(branches) /\ Len(branches') = m + 1
    BY <1>2, <1>5 DEF n
  <2> QED
    BY <1>2, <1>5, <1>6, <2>1, <2>2, LowerFramesWait
<1>15. OnBase'
  BY <1>6 DEF OnBase, BuilderInv
<1>16. GetsNamed'
  BY DEF Else, GetsNamed, Nothing
<1> QED
  BY <1>12, <1>13, <1>14, <1>15, <1>16 DEF BuilderInv

\* Both sides end with the same names, so either describes the run.
LEMMA EndIfStep ==
  ASSUME BuilderInv, EndIf
  PROVE  BuilderInv'
<1> DEFINE n == Len(branches)
           m == n - 1
<1>1. /\ branches \in Seq(Frame)
      /\ n \in 1 .. n /\ n \in Nat
      /\ branches[n].side = "no" /\ branches[n].after = names
  BY BranchesLength DEF EndIf
<1>2. m \in Nat /\ m <= n /\ \A k \in 1 .. n : k # n => k \in 1 .. m
  BY <1>1
<1>3. /\ branches' \in Seq(Frame)
      /\ Len(branches') = m
      /\ \A k \in 1 .. m : branches'[k] = branches[k]
  <2>1. branches' = SubSeq(branches, 1, m)
    BY DEF EndIf, Dropped
  <2> HIDE DEF n, m
  <2>2. \A k \in 1 .. m : branches[k] \in Frame
    <3>1. \A k \in 1 .. m : k \in 1 .. n
      BY <1>1, <1>2
    <3> QED
      BY <3>1, BranchesLength DEF n
  <2>3. /\ SubSeq(branches, 1, m) \in Seq(Frame)
        /\ Len(SubSeq(branches, 1, m)) = IF 1 <= m THEN m - 1 + 1 ELSE 0
        /\ \A k \in 1 .. m - 1 + 1 : SubSeq(branches, 1, m)[k] = branches[1 + k - 1]
    BY <1>2, <2>2, SubSeqProperties
  <2> QED
    BY <1>2, <2>1, <2>3
<1> HIDE DEF n, m
<1>4. names' = names /\ stack' = stack /\ names \in Seq(Item)
  BY NamesLength DEF EndIf
<1>5. \A k \in 1 .. m : Agrees(branches'[k]) <=> Agrees(branches[k])
  BY <1>3 DEF Agrees
<1>6. Typed'
  BY <1>3, <1>4 DEF BuilderInv, Typed
<1>7. Described'
  <2>1. SUFFICES ASSUME Runs'
                 PROVE  stack = Base \o names
    BY <1>4 DEF Described
  <2>2. \A k \in 1 .. m : Agrees(branches[k])
    BY <1>3, <1>5, <2>1 DEF Runs, Agrees
  <2>3. CASE Agrees(branches[n])
    <3>1. Runs
      BY <1>1, <1>2, <2>2, <2>3 DEF Runs, Agrees, n
    <3> QED
      BY <3>1, StackWhenRunning
  <2>4. CASE ~ Agrees(branches[n])
    <3>1. \A k \in 1 .. n - 1 : Agrees(branches[k])
      BY <2>2 DEF m
    <3>2. stack = Base \o Left(branches[n])
      BY <1>1, <2>4, <3>1 DEF BuilderInv, Waiting, n
    <3> QED
      BY <1>1, <3>2 DEF Left
  <2> QED
    BY <2>3, <2>4
<1>8. Waiting'
  <2>1. m <= Len(branches) /\ Len(branches') # m + 1
    BY <1>2, <1>3 DEF n
  <2> QED
    BY <1>2, <1>3, <1>4, <2>1, LowerFramesWait
<1>9. OnBase'
  BY <1>4 DEF OnBase, BuilderInv
<1>10. GetsNamed'
  BY DEF EndIf, GetsNamed, Nothing
<1> QED
  BY <1>6, <1>7, <1>8, <1>9, <1>10 DEF BuilderInv

-----------------------------------------------------------------------------

\* Every call keeps the invariant.
LEMMA NextInv ==
  ASSUME BuilderInv, [Next]_vars
  PROVE  BuilderInv'
<1>1. CASE Push
  BY <1>1, PushStep
<1>2. ASSUME NEW op \in Opcodes, Op(op[1], op[2])
      PROVE  BuilderInv'
  <2>1. op[1] \in Nat /\ op[2] \in Nat
    BY BuilderAssumption
  <2> QED
    BY <1>2, <2>1, OpStep
<1>3. ASSUME NEW n \in Names, Name(n)
      PROVE  BuilderInv'
  BY <1>3, NameStep
<1>4. ASSUME NEW n \in Names, Get(n)
      PROVE  BuilderInv'
  BY <1>4, GetStep
<1>5. CASE GetDigest
  BY <1>5, GetDigestStep
<1>6. ASSUME NEW taken \in Sides, If(taken)
      PROVE  BuilderInv'
  BY <1>6, IfStep
<1>7. CASE Else
  BY <1>7, ElseStep
<1>8. CASE EndIf
  BY <1>8, EndIfStep
<1>9. CASE FinishPrefix
  BY <1>9, FinishPrefixStep
<1>10. CASE UNCHANGED vars
  BY <1>10 DEF BuilderInv, Typed, Described, Runs, Waiting, Agrees, Left, OnBase,
               GetsNamed, vars
<1> QED
  BY <1>1, <1>2, <1>3, <1>4, <1>5, <1>6, <1>7, <1>8, <1>9, <1>10 DEF Next

\* linearization.py, Builder: the names describe the stack of every run, and
\* for a side that is not run the names of its branch's other side do.
THEOREM Describes == Spec => []BuilderInv
<1>1. Init => BuilderInv
  BY InitInv
<1>2. BuilderInv /\ [Next]_vars => BuilderInv'
  BY NextInv
<1> QED
  BY <1>1, <1>2, PTL DEF Spec

\* linearization.py, Builder.get, and bridge.py, _bind_statement_digest: for
\* programs of any length and nesting, what is got by name has that name.
THEOREM Gets_Named == Spec => []GetsNamed
<1>1. BuilderInv => GetsNamed
  BY DEF BuilderInv
<1> QED
  BY <1>1, Describes, PTL

\* linearization.py, finish_prefix: the base stays under every program, and
\* a finished prefix leaves exactly the base.
THEOREM Base_Kept == Spec => []BaseKept
<1>1. BuilderInv => BaseKept
  <2> SUFFICES ASSUME BuilderInv
               PROVE  BaseKept
    OBVIOUS
  <2>1. PICK items \in Seq(Item) : stack = Base \o items
    BY DEF BuilderInv, OnBase
  <2>2. Base \in Seq(Item) /\ Len(Base) \in Nat /\ Len(Base) >= 2
    BY BaseItems
  <2>3. Len(stack) >= Len(Base)
    <3>1. Len(stack) = Len(Base) + Len(items) /\ Len(items) \in Nat
      BY <2>1, <2>2, ConcatProperties, LenProperties
    <3> QED
      BY <2>2, <3>1
  <2>4. SubSeq(stack, 1, Len(Base)) = Base
    <3>1. 1 \in 1 .. Len(Base) /\ Len(Base) \in 1 .. Len(Base)
      BY <2>2
    <3>2. SubSeq(Base \o items, 1, Len(Base)) = SubSeq(Base, 1, Len(Base))
      BY <2>2, <3>1, SubSeqOfConcat1
    <3> QED
      BY <2>1, <2>2, <3>2, SubSeqFull
  <2>5. ASSUME names = <<>>, branches = <<>>
        PROVE  stack = Base
    <3>1. Runs
      BY <2>5 DEF Runs
    <3>2. stack = Base \o <<>>
      BY <2>5, <3>1, StackWhenRunning
    <3> QED
      BY <2>2, <3>2, ConcatEmptySeq
  <2> QED
    BY <2>3, <2>4, <2>5 DEF BaseKept
<1> QED
  BY <1>1, Describes, PTL

=============================================================================
