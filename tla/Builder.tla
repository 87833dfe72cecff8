------------------------------- MODULE Builder -------------------------------
(***************************************************************************)
(* The compiler of script/linearization.py: a Builder emits opcodes and    *)
(* keeps the names of the items it put on the stack, so that later code    *)
(* can get them by name.  Every leaf of the bridge is built with it.       *)
(*                                                                         *)
(* The emitted code is run as it is emitted, over a base stack that other  *)
(* code left, with every OP_IF decided one way or the other.  A stack item *)
(* is represented by the name it was last given, or NoName; the code of a  *)
(* side that is not taken is compiled and not run.                         *)
(***************************************************************************)
EXTENDS Integers, Sequences

CONSTANTS
  Names,           \* the names programs use
  NoName,          \* ""
  Base,            \* the items below the program's own, not named by it
  Inputs,          \* the names of the program's inputs, already on the stack
  Opcodes,         \* <<inputs, outputs>> of the opcodes programs use
  MaxItems,        \* no program keeps more items than this
  MaxDepth         \* no program nests more branches than this

ASSUME BuilderAssumption ==
  /\ NoName \notin Names
  /\ Base \in Seq(STRING) /\ Len(Base) >= 2
  /\ Inputs \in Seq(Names) /\ Len(Inputs) <= MaxItems
  /\ Opcodes \subseteq Nat \X Nat
  /\ MaxItems \in Nat /\ MaxDepth \in Nat

VARIABLES
  names,           \* Builder.names
  branches,        \* the branches being compiled, outermost first
  stack,           \* the items of the run
  got              \* what the run just got: the name asked for, the item found

vars == <<names, branches, stack, got>>

Nothing == <<NoName, NoName>>

Sides == {"yes", "no"}

\* The code being compiled is on sides that the run takes.
Runs == \A k \in 1 .. Len(branches) : branches[k].side = branches[k].taken

Dropped(items, n) == SubSeq(items, 1, Len(items) - n)

Unnamed(n) == [k \in 1 .. n |-> NoName]

\* The same change of the names and of the stack; opcodes reach the items
\* of the base as well as the program's own.
Replaces(inputs, outputs) ==
  /\ names' = Dropped(names, inputs) \o Unnamed(outputs)
  /\ stack' = IF Runs THEN Dropped(stack, inputs) \o Unnamed(outputs) ELSE stack

-----------------------------------------------------------------------------

Init ==
  /\ names = Inputs
  /\ branches = <<>>
  /\ stack = Base \o Inputs
  /\ got = Nothing

\* push and number
Push ==
  /\ Replaces(0, 1)
  /\ got' = Nothing
  /\ UNCHANGED branches

\* op, which refuses to reach below the program's own items
Op_NoUnderflow(inputs, outputs) ==
  /\ inputs <= Len(stack)
  /\ names' = Dropped(names, IF inputs <= Len(names) THEN inputs ELSE Len(names))
                \o Unnamed(outputs)
  /\ stack' = IF Runs THEN Dropped(stack, inputs) \o Unnamed(outputs) ELSE stack
  /\ got' = Nothing
  /\ UNCHANGED branches

Op(inputs, outputs) ==
  /\ inputs <= Len(names)
  /\ Replaces(inputs, outputs)
  /\ got' = Nothing
  /\ UNCHANGED branches

\* name: the item on top
Name(n) ==
  /\ names # <<>>
  /\ names' = [names EXCEPT ![Len(names)] = n]
  /\ stack' = IF Runs THEN [stack EXCEPT ![Len(stack)] = n] ELSE stack
  /\ got' = Nothing
  /\ UNCHANGED branches

PositionsOf(n) == {k \in 1 .. Len(names) : names[k] = n}

\* OP_PICK of the item that many below the top.
Picks(asked, depth) ==
  /\ names' = Append(names, NoName)
  /\ stack' = IF Runs THEN Append(stack, NoName) ELSE stack
  /\ got' = IF Runs THEN <<asked, stack[Len(stack) - depth]>> ELSE Nothing
  /\ UNCHANGED branches

\* get: the latest item of the name
Get(n) ==
  \E position \in PositionsOf(n) :
    /\ \A k \in PositionsOf(n) : k <= position
    /\ Picks(n, Len(names) - position)

\* _bind_statement_digest: OP_DEPTH, and the second item from the bottom.
GetDigest == Picks(Base[2], Len(stack) - 2)

\* branch: OP_IF, both sides in turn from the same names, OP_ENDIF.
If(taken) ==
  /\ names # <<>>
  /\ Replaces(1, 0)
  /\ branches' = Append(branches, [side |-> "yes", taken |-> taken,
                                   before |-> names', after |-> <<>>])
  /\ got' = Nothing

Else_NamesKept ==
  /\ branches # <<>>
  /\ branches[Len(branches)].side = "yes"
  /\ branches' = [branches EXCEPT ![Len(branches)].side = "no",
                                  ![Len(branches)].after = names]
  /\ got' = Nothing
  /\ UNCHANGED <<names, stack>>

Else ==
  /\ branches # <<>>
  /\ branches[Len(branches)].side = "yes"
  /\ names' = branches[Len(branches)].before
  /\ branches' = [branches EXCEPT ![Len(branches)].side = "no",
                                  ![Len(branches)].after = names]
  /\ got' = Nothing
  /\ UNCHANGED stack

\* "branch stack mismatch" when the sides end with different names
EndIf ==
  /\ branches # <<>>
  /\ branches[Len(branches)].side = "no"
  /\ names = branches[Len(branches)].after
  /\ branches' = Dropped(branches, 1)
  /\ got' = Nothing
  /\ UNCHANGED <<names, stack>>

\* finish_prefix: the verifier follows.
FinishPrefix ==
  /\ branches = <<>>
  /\ Replaces(Len(names), 0)
  /\ got' = Nothing
  /\ UNCHANGED branches

Next ==
  \/ Len(names) < MaxItems /\ Push
  \/ \E op \in Opcodes :
       Len(names) - op[1] + op[2] <= MaxItems /\ Op(op[1], op[2])
  \/ \E n \in Names : Name(n)
  \/ Len(names) < MaxItems /\ \E n \in Names : Get(n)
  \/ Len(names) < MaxItems /\ GetDigest
  \/ Len(branches) < MaxDepth /\ \E taken \in Sides : If(taken)
  \/ Else
  \/ EndIf
  \/ FinishPrefix

Spec == Init /\ [][Next]_vars

-----------------------------------------------------------------------------
(* Properties                                                              *)

\* linearization.py, Builder.get, and bridge.py, _bind_statement_digest: after
\* any calls, whichever branches run, a program that asks for an item by name
\* gets one that was given this name, and the leaf's digest is the verifier's.
GetsNamed == got[1] = got[2]

\* linearization.py, finish_prefix, "Consume tracked application inputs
\* without touching a lower base stack": whatever the program does above, the
\* base stays, and a finished prefix leaves exactly the base.
BaseKept ==
  /\ Len(stack) >= Len(Base)
  /\ SubSeq(stack, 1, Len(Base)) = Base
  /\ names = <<>> /\ branches = <<>> => stack = Base

=============================================================================
