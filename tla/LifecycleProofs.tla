-------------------------- MODULE LifecycleProofs --------------------------
(***************************************************************************)
(* Proofs about Lifecycle, for any actions, any number of commands and any *)
(* number of them at a time.                                               *)
(*                                                                         *)
(* First, what the sequences of steps are: every file that is opened is    *)
(* filled next, and a file that is written once was found missing by the   *)
(* same command (Fitting).  Then what a job did before its next step, as   *)
(* windows onto its steps (Since).  A command that made the work directory *)
(* or proofs/ is alone in having done so, which makes it the owner of what *)
(* it writes there: no other command comes to those steps.  state.json has *)
(* no owner, and whoever fills or replaces it does so with a state that is *)
(* backed.  Last, what more is so while commands run one at a time.        *)
(***************************************************************************)
EXTENDS MCLifecycle, SequenceTheorems, FiniteSetTheorems, WellFoundedInduction, TLAPS

-----------------------------------------------------------------------------
(* Sequences of steps                                                      *)

\* Some step before the k-th is in C, and none after it is in A.
Since(s, k, C, A) ==
  \E j \in 1 .. k - 1 : s[j] \in C /\ \A i \in j + 1 .. k - 1 : s[i] \notin A

\* What is so before the next step, from what was so before this one.
LEMMA SinceNext ==
  ASSUME NEW s, NEW k \in Nat \ {0}, NEW C, NEW A
  PROVE  Since(s, k + 1, C, A) <=>
           \/ s[k] \in C
           \/ Since(s, k, C, A) /\ s[k] \notin A
<1>1. ASSUME s[k] \in C
      PROVE  Since(s, k + 1, C, A)
  BY <1>1 DEF Since
<1>2. ASSUME Since(s, k, C, A), s[k] \notin A
      PROVE  Since(s, k + 1, C, A)
  <2>1. PICK j \in 1 .. k - 1 : s[j] \in C /\ \A i \in j + 1 .. k - 1 : s[i] \notin A
    BY <1>2 DEF Since
  <2>2. j \in 1 .. (k + 1) - 1 /\ \A i \in j + 1 .. (k + 1) - 1 : s[i] \notin A
    BY <1>2, <2>1
  <2> QED
    BY <2>1, <2>2 DEF Since
<1>3. ASSUME Since(s, k + 1, C, A), s[k] \notin C
      PROVE  Since(s, k, C, A) /\ s[k] \notin A
  <2>1. PICK j \in 1 .. (k + 1) - 1 :
          s[j] \in C /\ \A i \in j + 1 .. (k + 1) - 1 : s[i] \notin A
    BY <1>3 DEF Since
  <2>2. j \in 1 .. k - 1
    BY <1>3, <2>1
  <2>3. k \in j + 1 .. (k + 1) - 1 /\ \A i \in j + 1 .. k - 1 : i \in j + 1 .. (k + 1) - 1
    BY <2>2
  <2> QED
    BY <2>1, <2>2, <2>3 DEF Since
<1> QED
  BY <1>1, <1>2, <1>3

\* A window stays one when more steps come before it or after it.
LEMMA SinceConcat ==
  ASSUME NEW S, NEW s \in Seq(S), NEW t \in Seq(S), NEW C, NEW A
  PROVE  /\ \A k \in 1 .. Len(s) : Since(s, k, C, A) => Since(s \o t, k, C, A)
         /\ \A k \in 1 .. Len(t) :
              Since(t, k, C, A) => Since(s \o t, Len(s) + k, C, A)
<1> DEFINE u == s \o t
           m == Len(s)
           n == Len(t)
<1>1. /\ m \in Nat /\ n \in Nat
      /\ \A i \in 1 .. m : u[i] = s[i]
      /\ \A i \in 1 .. n : u[m + i] = t[i]
  <2>1. m \in Nat /\ n \in Nat
    BY LenProperties
  <2>2. \A i \in 1 .. m + n : u[i] = IF i <= m THEN s[i] ELSE t[i - m]
    BY ConcatProperties
  <2>3. \A i \in 1 .. m : i \in 1 .. m + n /\ i <= m
    BY <2>1
  <2>4. \A i \in 1 .. n : m + i \in 1 .. m + n /\ ~ (m + i <= m) /\ (m + i) - m = i
    BY <2>1
  <2> HIDE DEF u, m, n
  <2> QED
    BY <2>1, <2>2, <2>3, <2>4
<1> HIDE DEF u, m, n
<1>2. ASSUME NEW k \in 1 .. m, Since(s, k, C, A)
      PROVE  Since(u, k, C, A)
  <2>1. PICK j \in 1 .. k - 1 : s[j] \in C /\ \A i \in j + 1 .. k - 1 : s[i] \notin A
    BY <1>2 DEF Since
  <2>2. j \in 1 .. m /\ \A i \in j + 1 .. k - 1 : i \in 1 .. m
    BY <1>1, <1>2, <2>1
  <2> QED
    BY <1>1, <2>1, <2>2 DEF Since
<1>3. ASSUME NEW k \in 1 .. n, Since(t, k, C, A)
      PROVE  Since(u, m + k, C, A)
  <2>1. PICK j \in 1 .. k - 1 : t[j] \in C /\ \A i \in j + 1 .. k - 1 : t[i] \notin A
    BY <1>3 DEF Since
  <2>2. j \in 1 .. n /\ m + j \in 1 .. (m + k) - 1
    BY <1>1, <1>3, <2>1
  <2>3. ASSUME NEW i \in (m + j) + 1 .. (m + k) - 1
        PROVE  u[i] \notin A
    <3>1. i - m \in j + 1 .. k - 1 /\ i - m \in 1 .. n /\ m + (i - m) = i
      BY <1>1, <1>3, <2>1
    <3> QED
      BY <1>1, <2>1, <3>1
  <2>4. u[m + j] \in C
    BY <1>1, <2>1, <2>2
  <2> QED
    BY <2>2, <2>3, <2>4 DEF Since
<1> QED
  BY <1>2, <1>3 DEF u, m, n

-----------------------------------------------------------------------------
(* Sequences of sequences                                                  *)

\* A non-empty set of naturals has a least element.
LEMMA LeastOf ==
  ASSUME NEW T \in SUBSET Nat, T # {}
  PROVE  \E x \in T : \A y \in T : x <= y
<1>1. IsWellFoundedOn(OpToRel(<, Nat), Nat)
  BY NatLessThanWellFounded
<1>2. PICK x \in T : \A y \in T : ~ (<<y, x>> \in OpToRel(<, Nat))
  BY <1>1, WFMin
<1>3. \A y \in T : ~ (y < x)
  BY <1>2 DEF OpToRel
<1> QED
  BY <1>3

\* Induction from 1 to n, for the set T of what has a property.
LEMMA InductionTo ==
  ASSUME NEW n \in Nat, NEW T, 1 \in T,
         \A k \in 1 .. n - 1 : k \in T => k + 1 \in T
  PROVE  \A k \in 1 .. n : k \in T
<1> DEFINE rest == {k \in 1 .. n : k \notin T}
<1> SUFFICES ASSUME rest # {} PROVE FALSE
  OBVIOUS
<1>1. PICK k \in rest : \A j \in rest : k <= j
  <2>1. rest \in SUBSET Nat
    OBVIOUS
  <2> HIDE DEF rest
  <2> QED
    BY <2>1, LeastOf
<1>2. k \in 1 .. n /\ k # 1
  BY <1>1
<1>3. k - 1 \in 1 .. n - 1 /\ k - 1 \in 1 .. n /\ ~ (k <= k - 1) /\ (k - 1) + 1 = k
  BY <1>2
<1>4. k - 1 \in T
  BY <1>1, <1>3
<1> QED
  BY <1>1, <1>3, <1>4

\* f[k] is the first k of the sequences in one, for k up to m.
Joins(f, seqs, m) ==
  f = [k \in 1 .. m |-> IF k = 1 THEN seqs[k] ELSE f[k - 1] \o seqs[k]]

\* The parts joined so far are an initial part of the whole.
LEMMA JoinsExist ==
  ASSUME NEW n \in Nat \ {0}, NEW seqs
  PROVE  \E f : Joins(f, seqs, n)
<1> DEFINE T == {m \in 1 .. n : \E f : Joins(f, seqs, m)}
<1>1. 1 \in T
  <2>1. Joins([k \in 1 .. 1 |-> seqs[1]], seqs, 1)
    BY DEF Joins
  <2> QED
    BY <2>1
<1>2. ASSUME NEW m \in 1 .. n - 1, m \in T
      PROVE  m + 1 \in T
  <2>1. PICK f : Joins(f, seqs, m)
    BY <1>2
  <2> DEFINE last == f[m] \o seqs[m + 1]
             g == [k \in 1 .. m + 1 |-> IF k = m + 1 THEN last ELSE f[k]]
  <2>2. ASSUME NEW k \in 1 .. m + 1
        PROVE  g[k] = IF k = 1 THEN seqs[k] ELSE g[k - 1] \o seqs[k]
    <3>1. CASE k = m + 1
      <4>1. k # 1 /\ k - 1 = m /\ m \in 1 .. m + 1 /\ m # m + 1
        BY <3>1
      <4> HIDE DEF last
      <4>2. g[k] = last /\ g[m] = f[m]
        BY <3>1, <4>1
      <4>3. last = g[k - 1] \o seqs[k]
        BY <3>1, <4>1, <4>2, Zenon DEF last
      <4> QED
        BY <4>1, <4>2, <4>3, Zenon
    <3>2. CASE k # m + 1
      <4>1. k \in 1 .. m
        BY <3>2
      <4>2. f[k] = IF k = 1 THEN seqs[k] ELSE f[k - 1] \o seqs[k]
        BY <2>1, <4>1 DEF Joins
      <4>3. g[k] = f[k] /\ (k # 1 => g[k - 1] = f[k - 1])
        BY <3>2, <4>1
      <4> QED
        BY <4>2, <4>3
    <3> QED
      BY <3>1, <3>2
  <2>3. g = [k \in 1 .. m + 1 |-> IF k = 1 THEN seqs[k] ELSE g[k - 1] \o seqs[k]]
    <3>1. g = [k \in 1 .. m + 1 |-> g[k]]
      OBVIOUS
    <3> HIDE DEF g
    <3> QED
      BY <2>2, <3>1
  <2>4. Joins(g, seqs, m + 1)
    <3> HIDE DEF g
    <3> QED
      BY <2>3, Zenon DEF Joins
  <2>5. m + 1 \in 1 .. n
    OBVIOUS
  <2> HIDE DEF g
  <2> QED
    BY <2>4, <2>5
<1>3. \A m \in 1 .. n : m \in T
  <2> HIDE DEF T
  <2> QED
    BY <1>1, <1>2, InductionTo
<1> QED
  BY <1>3

\* What concatenation keeps true of some sequences, flattening keeps; and its
\* elements are theirs.
LEMMA Flattened ==
  ASSUME NEW n \in Nat \ {0}, NEW S, NEW T \in SUBSET Seq(S),
         \A s, t \in T : s \o t \in T,
         NEW seqs \in [1 .. n -> T]
  PROVE  /\ FlattenSeq(seqs) \in T
         /\ Range(FlattenSeq(seqs)) = UNION {Range(seqs[i]) : i \in 1 .. n}
<1> DEFINE g == CHOOSE f : Joins(f, seqs, n)
           Parts(m) == UNION {Range(seqs[i]) : i \in 1 .. m}
           U == {m \in 1 .. n : g[m] \in T /\ Range(g[m]) = Parts(m)}
<1>1. Joins(g, seqs, n)
  BY JoinsExist
<1>2. FlattenSeq(seqs) = g[n]
  <2>1. seqs \in Seq(T)
    BY SeqDef
  <2>2. DOMAIN seqs = 1 .. n /\ DOMAIN seqs = 1 .. Len(seqs) /\ Len(seqs) \in Nat
    BY <2>1, LenProperties
  <2>3. Len(seqs) = n
    BY <2>2
  <2> QED
    BY <2>3 DEF FlattenSeq, Joins
<1> HIDE DEF g
<1>3. 1 \in U
  <2>1. g[1] = seqs[1]
    BY <1>1 DEF Joins
  <2> QED
    BY <2>1
<1>4. ASSUME NEW m \in 1 .. n - 1, m \in U
      PROVE  m + 1 \in U
  <2>1. g[m + 1] = g[m] \o seqs[m + 1]
    <3>1. m + 1 \in 1 .. n /\ m + 1 # 1 /\ (m + 1) - 1 = m
      OBVIOUS
    <3>2. g[m + 1] = IF m + 1 = 1 THEN seqs[m + 1]
                     ELSE g[(m + 1) - 1] \o seqs[m + 1]
      BY <1>1, <3>1, Zenon DEF Joins
    <3> QED
      BY <3>1, <3>2, Zenon
  <2>2. g[m] \in T /\ seqs[m + 1] \in T /\ Range(g[m]) = Parts(m)
    <3> HIDE DEF Parts
    <3> QED
      BY <1>4
  <2>3. g[m + 1] \in T
    BY <2>1, <2>2
  <2>4. Range(g[m + 1]) = Parts(m) \cup Range(seqs[m + 1])
    <3>1. g[m] \in Seq(S) /\ seqs[m + 1] \in Seq(S)
      BY <2>2
    <3>2. Range(g[m] \o seqs[m + 1]) = Range(g[m]) \cup Range(seqs[m + 1])
      BY <3>1, RangeConcatenation
    <3> HIDE DEF Parts
    <3> QED
      BY <2>1, <2>2, <3>2, Zenon
  <2>5. Parts(m + 1) = Parts(m) \cup Range(seqs[m + 1])
    <3>1. 1 .. m + 1 = (1 .. m) \cup {m + 1}
      OBVIOUS
    <3> QED
      BY <3>1
  <2>6. m + 1 \in 1 .. n
    OBVIOUS
  <2> HIDE DEF Parts
  <2> QED
    BY <2>3, <2>4, <2>5, <2>6
<1>5. \A m \in 1 .. n : m \in U
  <2> HIDE DEF U
  <2> QED
    BY <1>3, <1>4, InductionTo
<1>6. g[n] \in T /\ Range(g[n]) = Parts(n)
  <2> HIDE DEF Parts
  <2> QED
    BY <1>5
<1> QED
  BY <1>2, <1>6, Zenon

-----------------------------------------------------------------------------
(* Paths                                                                   *)

Act == {Actions[k] : k \in DOMAIN Actions}

Requests == {Request(a) : a \in Act}

\* Files that one command writes once, genesis and prove.
GenesisFiles == {Deployment, Scenario} \cup {Input(a) : a \in Act}

ProveFiles ==
  {Proof(a) : a \in Act} \cup {ScriptOf(a) : a \in Act}
  \cup {Fixture(a, name) : a \in Act, name \in FixtureNames}

Once == GenesisFiles \cup ProveFiles

Directories ==
  {Work, Inputs, Proofs, Scripts, Fixtures, DeploymentDir}
  \cup {<<"inputs", a>> : a \in Act} \cup {<<"proofs", a>> : a \in Act}
  \cup {<<"fixtures", a>> : a \in Act}

\* Where one more element ends, and the path without it.
LEMMA FrontOf ==
  /\ \A x : Front(<<x>>) = <<>>
  /\ \A x, y : Front(<<x, y>>) = <<x>>
  /\ \A x, y, z : Front(<<x, y, z>>) = <<x, y>>
<1>1. \A s, t, S : s \in Seq(S) /\ t \in Seq(S) /\ Len(s) = Len(t)
                     /\ (\A i \in 1 .. Len(s) : s[i] = t[i]) => s = t
  BY SeqEqual
<1>2. ASSUME NEW x
      PROVE  Front(<<x>>) = <<>>
  <2>1. Front(<<x>>) = SubSeq(<<x>>, 1, 0)
    BY DEF Front
  <2> QED
    BY <2>1, SubSeqEmpty
<1>3. ASSUME NEW x, NEW y
      PROVE  Front(<<x, y>>) = <<x>>
  <2>1. Front(<<x, y>>) = SubSeq(<<x, y>>, 1, 1)
    BY DEF Front
  <2>2. \A i \in 1 .. 1 : <<x, y>>[i] \in {x, y}
    OBVIOUS
  <2>3. /\ SubSeq(<<x, y>>, 1, 1) \in Seq({x, y})
        /\ Len(SubSeq(<<x, y>>, 1, 1)) = 1
        /\ SubSeq(<<x, y>>, 1, 1)[1] = x
    BY <2>2, SubSeqProperties
  <2>4. <<x>> \in Seq({x, y}) /\ Len(<<x>>) = 1 /\ <<x>>[1] = x
    OBVIOUS
  <2> HIDE DEF Front
  <2> DEFINE s == SubSeq(<<x, y>>, 1, 1)
             t == <<x>>
  <2>5. \A i \in 1 .. Len(s) : s[i] = t[i]
    BY <2>3, <2>4
  <2> HIDE DEF s, t
  <2>6. s = t
    BY <1>1, <2>3, <2>4, <2>5 DEF s, t
  <2> QED
    BY <2>1, <2>6 DEF s, t
<1>4. ASSUME NEW x, NEW y, NEW z
      PROVE  Front(<<x, y, z>>) = <<x, y>>
  <2>1. Front(<<x, y, z>>) = SubSeq(<<x, y, z>>, 1, 2)
    BY DEF Front
  <2>2. \A i \in 1 .. 2 : <<x, y, z>>[i] \in {x, y, z}
    OBVIOUS
  <2>3. /\ SubSeq(<<x, y, z>>, 1, 2) \in Seq({x, y, z})
        /\ Len(SubSeq(<<x, y, z>>, 1, 2)) = 2
        /\ SubSeq(<<x, y, z>>, 1, 2)[1] = x
        /\ SubSeq(<<x, y, z>>, 1, 2)[2] = y
    BY <2>2, SubSeqProperties
  <2>4. /\ <<x, y>> \in Seq({x, y, z}) /\ Len(<<x, y>>) = 2
        /\ <<x, y>>[1] = x /\ <<x, y>>[2] = y
    OBVIOUS
  <2> DEFINE s == SubSeq(<<x, y, z>>, 1, 2)
             t == <<x, y>>
  <2>5. \A i \in 1 .. Len(s) : s[i] = t[i]
    BY <2>3, <2>4
  <2> HIDE DEF s, t
  <2>6. s = t
    BY <1>1, <2>3, <2>4, <2>5 DEF s, t
  <2> QED
    BY <2>1, <2>6 DEF s, t
<1> QED
  BY <1>2, <1>3, <1>4

\* The temporary files.
LEMMA Temporaries ==
  /\ Temporary(StateFile) = <<"state.json.new">>
  /\ \A a : Temporary(Request(a)) = <<"inputs", a, "request.json.new">>
<1>1. Temporary(StateFile) = <<"state.json.new">>
  <2>1. Temporary(StateFile) = Front(StateFile) \o <<"state.json.new">>
    BY DEF Temporary, Last, StateFile
  <2>2. Front(StateFile) = <<>>
    BY FrontOf DEF StateFile
  <2>3. <<"state.json.new">> \in Seq({"state.json.new"})
    OBVIOUS
  <2> QED
    BY <2>1, <2>2, <2>3, ConcatEmptySeq
<1>2. ASSUME NEW a
      PROVE  Temporary(Request(a)) = <<"inputs", a, "request.json.new">>
  <2>1. Temporary(Request(a)) = Front(Request(a)) \o <<"request.json.new">>
    BY DEF Temporary, Last, Request
  <2>2. Front(Request(a)) = <<"inputs", a>>
    BY FrontOf DEF Request
  <2> DEFINE S == {"inputs", a, "request.json.new"}
             s == <<"inputs", a>> \o <<"request.json.new">>
             t == <<"inputs", a, "request.json.new">>
  <2>3. t \in Seq(S) /\ Len(t) = 3
    OBVIOUS
  <2>4. s \in Seq(S) /\ Len(s) = 3
    <3>1. <<"inputs", a>> \in Seq(S) /\ <<"request.json.new">> \in Seq(S)
      OBVIOUS
    <3> QED
      BY <3>1, ConcatProperties
  <2>5. s[1] = t[1] /\ s[2] = t[2] /\ s[3] = t[3]
    OBVIOUS
  <2> HIDE DEF s, t, S
  <2>6. \A i \in 1 .. Len(s) : s[i] = t[i]
    BY <2>4, <2>5
  <2>7. s = t
    BY <2>3, <2>4, <2>6, SeqEqual
  <2> QED
    BY <2>1, <2>2, <2>7 DEF s, t
<1> QED
  BY <1>1, <1>2

-----------------------------------------------------------------------------
(* The steps of the commands                                               *)

Commands == {"genesis", "prove", "submit"}

FillOps == {"make", "copy", "save"}

\* The path that a step's contents were opened at.
Opened(step) ==
  IF step.path \in Requests \cup {StateFile} THEN Temporary(step.path) ELSE step.path

\* The steps after which there is no file at a path.
Checks(path) == {Do("absent", path), Do("mkdir", Front(path))}

CopyOf(a, name) ==
  [op |-> "copy", path |-> Fixture(a, name),
   source |-> CASE name = "input.json" -> Input(a)
                [] name = "proof.bin" -> Proof(a)
                [] name = "verified.json" -> Verified(a)
                [] name = "script.json" -> ScriptOf(a)]

Label(status) == [op |-> "label", path |-> StateFile, status |-> status]

StateOps(status) ==
  {Label(status), Do("open", Temporary(StateFile)), Do("save", StateFile),
   Do("replace", StateFile)}

RequestOps(a) ==
  {Do("mkdir", <<"inputs", a>>),
   Do("open", Temporary(Request(a))), Do("make", Request(a)),
   Do("replace", Request(a)),
   Do("absent", Input(a)), Do("read", Request(a)),
   Do("open", Input(a)), Do("make", Input(a))}

ProofOps(a) ==
  {Do("absent", <<"proofs", a>>), Do("read", Input(a)),
   Do("mkdir", <<"proofs", a>>),
   Do("open", Proof(a)), Do("make", Proof(a)),
   Do("open", Verified(a)), Do("make", Verified(a)), Do("read", Proof(a)),
   Do("absent", ScriptOf(a)), Do("read", Verified(a)), Do("read", Deployment),
   Do("open", ScriptOf(a)), Do("make", ScriptOf(a))}

FixtureOps(a) ==
  {Do("mkdir", <<"fixtures", a>>)}
  \cup {Do("open", Fixture(a, name)) : name \in FixtureNames}
  \cup {CopyOf(a, name) : name \in FixtureNames}

ReadOps(a) ==
  {Do("read", Fixture(a, "input.json")), Do("read", Fixture(a, "verified.json")),
   Do("read", Fixture(a, "script.json"))}

\* A step beside its neighbours: what was opened is filled next, a file that is
\* written once was checked first, verified.json is written only while nothing
\* has read it, and a script is packaged after its proof.
FillsNext(s, k) ==
  /\ s[k].op = "open" =>
       /\ k < Len(s)
       /\ s[k + 1].op \in FillOps
       /\ Opened(s[k + 1]) = s[k].path
  /\ s[k].op \in FillOps => k > 1 /\ s[k - 1] = Do("open", Opened(s[k]))
  /\ s[k].op = "replace" =>
       /\ k > 1
       /\ s[k - 1] = Do(IF s[k].path = StateFile THEN "save" ELSE "make", s[k].path)
  /\ s[k].op = "save" => k > 2 /\ s[k - 2].op = "label"

ChecksFirst(s, k) ==
  /\ \A path \in Once \cup {Result} :
       s[k] = Do("open", path) => Since(s, k, Checks(path), {Do("open", path)})
  /\ \A a \in Act :
       /\ s[k] = Do("open", Verified(a)) =>
            Since(s, k, {Do("mkdir", <<"proofs", a>>)}, {Do("read", Verified(a))})
       /\ s[k] = Do("open", Fixture(a, "script.json")) =>
            Since(s, k, {CopyOf(a, "proof.bin")}, {})

Fitting(S) ==
  {s \in Seq(S) : \A k \in 1 .. Len(s) : FillsNext(s, k) /\ ChecksFirst(s, k)}

\* Fitting sequences, joined, fit.
LEMMA FittingConcat ==
  ASSUME NEW S, NEW s \in Fitting(S), NEW t \in Fitting(S)
  PROVE  s \o t \in Fitting(S)
<1> DEFINE u == s \o t
           m == Len(s)
           n == Len(t)
<1>1. s \in Seq(S) /\ t \in Seq(S) /\ u \in Seq(S)
  BY ConcatProperties DEF Fitting
<1>2. /\ m \in Nat /\ n \in Nat /\ Len(u) = m + n
      /\ \A i \in 1 .. m : u[i] = s[i]
      /\ \A i \in 1 .. n : u[m + i] = t[i]
  <2>1. m \in Nat /\ n \in Nat
    BY <1>1, LenProperties
  <2>2. /\ Len(u) = m + n
        /\ \A i \in 1 .. m + n : u[i] = IF i <= m THEN s[i] ELSE t[i - m]
    BY <1>1, ConcatProperties
  <2>3. \A i \in 1 .. m : i \in 1 .. m + n /\ i <= m
    BY <2>1
  <2>4. \A i \in 1 .. n : m + i \in 1 .. m + n /\ ~ (m + i <= m) /\ (m + i) - m = i
    BY <2>1
  <2> HIDE DEF u, m, n
  <2> QED
    BY <2>1, <2>2, <2>3, <2>4
<1>3. /\ \A k \in 1 .. m : FillsNext(s, k) /\ ChecksFirst(s, k)
      /\ \A k \in 1 .. n : FillsNext(t, k) /\ ChecksFirst(t, k)
  BY DEF Fitting
<1>4. \A C, A : /\ \A k \in 1 .. m : Since(s, k, C, A) => Since(u, k, C, A)
                /\ \A k \in 1 .. n : Since(t, k, C, A) => Since(u, m + k, C, A)
  BY <1>1, SinceConcat
<1> HIDE DEF u, m, n
<1>5. ASSUME NEW k \in 1 .. m
      PROVE  FillsNext(u, k) /\ ChecksFirst(u, k)
  <2>1. u[k] = s[k] /\ FillsNext(s, k) /\ ChecksFirst(s, k)
    BY <1>2, <1>3
  <2>2. /\ k < m => k < Len(u) /\ u[k + 1] = s[k + 1]
        /\ k > 1 => u[k - 1] = s[k - 1]
        /\ k > 2 => u[k - 2] = s[k - 2]
    BY <1>2
  <2>3. FillsNext(u, k)
    BY <2>1, <2>2 DEF FillsNext, m
  <2>4. ChecksFirst(u, k)
    BY <1>4, <2>1 DEF ChecksFirst
  <2> QED
    BY <2>3, <2>4
<1>6. ASSUME NEW k \in 1 .. n
      PROVE  FillsNext(u, m + k) /\ ChecksFirst(u, m + k)
  <2>1. u[m + k] = t[k] /\ FillsNext(t, k) /\ ChecksFirst(t, k)
    BY <1>2, <1>3
  <2>2. /\ k < n => m + k < Len(u) /\ u[(m + k) + 1] = t[k + 1]
        /\ k > 1 => u[(m + k) - 1] = t[k - 1] /\ m + k > 1
        /\ k > 2 => u[(m + k) - 2] = t[k - 2] /\ m + k > 2
    <3>1. ASSUME k < n
          PROVE  m + k < Len(u) /\ u[(m + k) + 1] = t[k + 1]
      <4>1. k + 1 \in 1 .. n /\ m + (k + 1) = (m + k) + 1
        BY <1>2, <3>1
      <4>2. u[m + (k + 1)] = t[k + 1]
        BY <1>2, <4>1
      <4> QED
        BY <1>2, <3>1, <4>1, <4>2
    <3>2. ASSUME k > 1
          PROVE  u[(m + k) - 1] = t[k - 1] /\ m + k > 1
      <4>1. k - 1 \in 1 .. n /\ m + (k - 1) = (m + k) - 1
        BY <1>2, <3>2
      <4>2. u[m + (k - 1)] = t[k - 1]
        BY <1>2, <4>1
      <4> QED
        BY <1>2, <3>2, <4>1, <4>2
    <3>3. ASSUME k > 2
          PROVE  u[(m + k) - 2] = t[k - 2] /\ m + k > 2
      <4>1. k - 2 \in 1 .. n /\ m + (k - 2) = (m + k) - 2
        BY <1>2, <3>3
      <4>2. u[m + (k - 2)] = t[k - 2]
        BY <1>2, <4>1
      <4> QED
        BY <1>2, <3>3, <4>1, <4>2
    <3> QED
      BY <3>1, <3>2, <3>3
  <2>3. FillsNext(u, m + k)
    BY <2>1, <2>2 DEF FillsNext, n
  <2>4. ChecksFirst(u, m + k)
    BY <1>4, <2>1 DEF ChecksFirst
  <2> QED
    BY <2>3, <2>4
<1>7. ASSUME NEW k \in 1 .. Len(u)
      PROVE  FillsNext(u, k) /\ ChecksFirst(u, k)
  <2>1. CASE k \in 1 .. m
    BY <2>1, <1>5
  <2>2. CASE k \notin 1 .. m
    <3>1. k - m \in 1 .. n /\ m + (k - m) = k
      BY <1>2, <2>2
    <3> QED
      BY <1>6, <3>1
  <2> QED
    BY <2>1, <2>2
<1> QED
  BY <1>1, <1>7 DEF Fitting, u

\* A path and the steps at it.
LEMMA OpensDiffer ==
  /\ \A op, path : Do(op, path).op = op /\ Do(op, path).path = path
  /\ \A a, name : CopyOf(a, name).op = "copy"
                  /\ CopyOf(a, name).path = Fixture(a, name)
  /\ \A status : Label(status).op = "label"
  /\ \A step : step.path \notin Requests \cup {StateFile} => Opened(step) = step.path
  /\ \A op : Opened(Do(op, StateFile)) = Temporary(StateFile)
  /\ \A op : \A a \in Act : Opened(Do(op, Request(a))) = Temporary(Request(a))
BY DEF Do, CopyOf, Label, Opened, Requests

\* Of the files that are opened, only requests and the state are renamed.
LEMMA Unrenamed ==
  ASSUME NEW a
  PROVE  /\ Deployment \notin Requests \cup {StateFile}
         /\ Scenario \notin Requests \cup {StateFile}
         /\ Result \notin Requests \cup {StateFile}
         /\ Input(a) \notin Requests \cup {StateFile}
         /\ Proof(a) \notin Requests \cup {StateFile}
         /\ Verified(a) \notin Requests \cup {StateFile}
         /\ ScriptOf(a) \notin Requests \cup {StateFile}
         /\ \A name : Fixture(a, name) \notin Requests \cup {StateFile}
BY DEF Deployment, Scenario, Result, Input, Proof, Verified, ScriptOf, Fixture,
       Requests, Request, StateFile

\* The files that are written once, and the two that need a window of their own.
LEMMA OpenChecks ==
  ASSUME NEW s, NEW k, NEW file, s[k] = Do("open", file),
         file \in Once \cup {Result} =>
           Since(s, k, Checks(file), {Do("open", file)}),
         \A a \in Act : file = Verified(a) =>
           Since(s, k, {Do("mkdir", <<"proofs", a>>)}, {Do("read", Verified(a))}),
         \A a \in Act : file = Fixture(a, "script.json") =>
           Since(s, k, {CopyOf(a, "proof.bin")}, {})
  PROVE  ChecksFirst(s, k)
<1>1. \A path : s[k] = Do("open", path) => file = path
  BY OpensDiffer
<1> QED
  BY <1>1, Zenon DEF ChecksFirst

\* Opening a temporary file needs no window.
LEMMA OtherOpens ==
  ASSUME NEW s, NEW k, NEW file, s[k] = Do("open", file),
         file \notin Once \cup {Result},
         \A b : file # Verified(b) /\ file # Fixture(b, "script.json")
  PROVE  ChecksFirst(s, k)
<1>1. \A path : s[k] = Do("open", path) => file = path
  BY OpensDiffer
<1> QED
  BY <1>1, Zenon DEF ChecksFirst

\* Opening a proof's record needs the window of its own.
LEMMA VerifiedOpens ==
  ASSUME NEW s, NEW k, NEW a \in Act, s[k] = Do("open", Verified(a)),
         Since(s, k, {Do("mkdir", <<"proofs", a>>)}, {Do("read", Verified(a))})
  PROVE  ChecksFirst(s, k)
<1>1. Verified(a) \notin Once \cup {Result}
  BY DEF Once, GenesisFiles, ProveFiles, Result, Verified, Deployment, Scenario,
         Input, Proof, ScriptOf, Fixture
<1>2. /\ \A b : s[k] = Do("open", Verified(b)) => a = b
      /\ \A path : s[k] = Do("open", path) => Verified(a) = path
      /\ \A b : s[k] # Do("open", Fixture(b, "script.json"))
  BY OpensDiffer DEF Verified, Fixture
<1> QED
  BY <1>1, <1>2, Zenon DEF ChecksFirst

\* The steps that prove, verify and script one action.
LEMMA ProvingFits ==
  ASSUME NEW a \in Act, NEW S, ProofOps(a) \subseteq S
  PROVE  LET s == HostProve(a) \o HostVerify(a) \o BuildVerifierArtifact(a)
         IN  s \in Fitting(S) /\ Range(s) = ProofOps(a)
<1> DEFINE s == HostProve(a) \o HostVerify(a) \o BuildVerifierArtifact(a)
<1>1. /\ Len(s) = 17
      /\ s[1] = Do("absent", <<"proofs", a>>) /\ s[2] = Do("read", Input(a))
      /\ s[3] = Do("absent", <<"proofs", a>>)
      /\ s[4] = Do("mkdir", <<"proofs", a>>)
      /\ s[5] = Do("open", Proof(a)) /\ s[6] = Do("make", Proof(a))
      /\ s[7] = Do("open", Verified(a)) /\ s[8] = Do("make", Verified(a))
      /\ s[9] = Do("read", Input(a)) /\ s[10] = Do("read", Proof(a))
      /\ s[11] = Do("open", Verified(a)) /\ s[12] = Do("make", Verified(a))
      /\ s[13] = Do("absent", ScriptOf(a)) /\ s[14] = Do("read", Verified(a))
      /\ s[15] = Do("read", Deployment)
      /\ s[16] = Do("open", ScriptOf(a)) /\ s[17] = Do("make", ScriptOf(a))
  BY DEF HostProve, HostVerify, BuildVerifierArtifact, Write
<1>2. s \in Seq(ProofOps(a)) /\ s \in Seq(S)
  BY DEF HostProve, HostVerify, BuildVerifierArtifact, Write, ProofOps
<1> HIDE DEF s
<1>3. Range(s) = ProofOps(a)
  <2>1. Range(s) = {s[i] : i \in 1 .. 17}
    BY <1>1, <1>2, RangeEquality
  <2>2. ProofOps(a) \subseteq {s[i] : i \in 1 .. 17}
    BY <1>1 DEF ProofOps
  <2>3. Range(s) \subseteq ProofOps(a)
    BY <1>2, RangeOfSeq
  <2> QED
    BY <2>1, <2>2, <2>3
<1>4. ASSUME NEW k \in 1 .. Len(s)
      PROVE  FillsNext(s, k)
  BY <1>1, OpensDiffer, Unrenamed DEF FillsNext, FillOps
<1>5. ASSUME NEW k \in 1 .. Len(s)
      PROVE  ChecksFirst(s, k)
  <2>1. CASE s[k].op # "open"
    BY <2>1, OpensDiffer DEF ChecksFirst
  <2>2. CASE k = 5
    <3>1. Since(s, k, Checks(Proof(a)), {Do("open", Proof(a))})
      BY <1>1, <2>2, FrontOf DEF Since, Checks, Proof
    <3> QED
      <4>1. s[k] = Do("open", Proof(a))
        BY <1>1, <2>2
      <4>2. \A b : Proof(a) # Verified(b) /\ Proof(a) # Fixture(b, "script.json")
        BY DEF Proof, Verified, Fixture
      <4> QED
        BY <3>1, <4>1, <4>2, OpenChecks
  <2>3. CASE k = 7 \/ k = 11
    <3>1. Since(s, k, {Do("mkdir", <<"proofs", a>>)}, {Do("read", Verified(a))})
      BY <1>1, <2>3, OpensDiffer DEF Since, Input, Verified, Proof
    <3>2. s[k] = Do("open", Verified(a))
      BY <1>1, <2>3
    <3> QED
      BY <3>1, <3>2, VerifiedOpens
  <2>4. CASE k = 16
    <3>1. Since(s, k, Checks(ScriptOf(a)), {Do("open", ScriptOf(a))})
      BY <1>1, <2>4, OpensDiffer DEF Since, Checks
    <3> QED
      <4>1. s[k] = Do("open", ScriptOf(a))
        BY <1>1, <2>4
      <4>2. \A b : ScriptOf(a) # Verified(b) /\ ScriptOf(a) # Fixture(b, "script.json")
        BY DEF ScriptOf, Verified, Fixture
      <4> QED
        BY <3>1, <4>1, <4>2, OpenChecks
  <2> QED
    BY <1>1, <2>1, <2>2, <2>3, <2>4, OpensDiffer
<1> QED
  BY <1>2, <1>3, <1>4, <1>5 DEF Fitting, s

\* The steps that write the request and the input of one action.
LEMMA RequestFits ==
  ASSUME NEW a \in Act, NEW S, RequestOps(a) \subseteq S
  PROVE  LET s == WriteRequest(a) \o DeriveInput(a)
         IN  s \in Fitting(S) /\ Range(s) = RequestOps(a)
<1> DEFINE s == WriteRequest(a) \o DeriveInput(a)
<1>1. /\ Len(s) = 8
      /\ s[1] = Do("mkdir", <<"inputs", a>>)
      /\ s[2] = Do("open", Temporary(Request(a)))
      /\ s[3] = Do("make", Request(a)) /\ s[4] = Do("replace", Request(a))
      /\ s[5] = Do("absent", Input(a)) /\ s[6] = Do("read", Request(a))
      /\ s[7] = Do("open", Input(a)) /\ s[8] = Do("make", Input(a))
  BY DEF WriteRequest, DeriveInput, Write
<1>2. s \in Seq(RequestOps(a)) /\ s \in Seq(S)
  BY DEF WriteRequest, DeriveInput, Write, RequestOps
<1> HIDE DEF s
<1>3. Range(s) = RequestOps(a)
  <2>1. Range(s) = {s[i] : i \in 1 .. 8}
    BY <1>1, <1>2, RangeEquality
  <2>2. RequestOps(a) \subseteq {s[i] : i \in 1 .. 8}
    BY <1>1 DEF RequestOps
  <2>3. Range(s) \subseteq RequestOps(a)
    BY <1>2, RangeOfSeq
  <2> QED
    BY <2>1, <2>2, <2>3
<1>4. ASSUME NEW k \in 1 .. Len(s)
      PROVE  FillsNext(s, k)
  <2>1. Request(a) # StateFile
    BY DEF Request, StateFile
  <2> QED
    BY <1>1, <2>1, OpensDiffer, Unrenamed DEF FillsNext, FillOps
<1>5. ASSUME NEW k \in 1 .. Len(s)
      PROVE  ChecksFirst(s, k)
  <2>1. CASE s[k].op # "open"
    BY <2>1, OpensDiffer DEF ChecksFirst
  <2>2. CASE k = 2
    <3>1. s[k] = Do("open", Temporary(Request(a)))
      BY <1>1, <2>2
    <3>2. /\ Temporary(Request(a)) \notin Once \cup {Result}
          /\ \A b : /\ Temporary(Request(a)) # Verified(b)
                  /\ Temporary(Request(a)) # Fixture(b, "script.json")
      BY Temporaries DEF Once, GenesisFiles, ProveFiles, Result, Deployment, Scenario,
         Input, Proof, ScriptOf, Fixture, Verified
    <3> QED
      BY <3>1, <3>2, OtherOpens
  <2>3. CASE k = 7
    <3>1. Since(s, k, Checks(Input(a)), {Do("open", Input(a))})
      BY <1>1, <2>3, OpensDiffer DEF Since, Checks
    <3>2. s[k] = Do("open", Input(a))
      BY <1>1, <2>3
    <3>3. \A b : Input(a) # Verified(b) /\ Input(a) # Fixture(b, "script.json")
      BY DEF Input, Verified, Fixture
    <3> QED
      BY <3>1, <3>2, <3>3, OpenChecks
  <2> QED
    BY <1>1, <2>1, <2>2, <2>3, OpensDiffer
<1> QED
  BY <1>2, <1>3, <1>4, <1>5 DEF Fitting, s

\* Steps that write nothing fit anywhere.
LEMMA PlainFits ==
  ASSUME NEW S, NEW s \in Seq(S),
         \A k \in 1 .. Len(s) :
           s[k].op \in {"absent", "mkdir", "mkdirs", "read", "load"}
  PROVE  s \in Fitting(S)
<1>1. ASSUME NEW k \in 1 .. Len(s)
      PROVE  FillsNext(s, k) /\ ChecksFirst(s, k)
  BY <1>1, OpensDiffer DEF FillsNext, ChecksFirst, FillOps
<1> QED
  BY <1>1 DEF Fitting

\* The steps that write the state.
LEMMA StateFits ==
  ASSUME NEW status, NEW S, StateOps(status) \subseteq S
  PROVE  LET s == WriteState(status)
         IN  s \in Fitting(S) /\ Range(s) = StateOps(status)
<1> DEFINE s == WriteState(status)
<1>1. /\ Len(s) = 4
      /\ s[1] = Label(status) /\ s[2] = Do("open", Temporary(StateFile))
      /\ s[3] = Do("save", StateFile) /\ s[4] = Do("replace", StateFile)
  BY DEF WriteState, Label
<1>2. s \in Seq(StateOps(status)) /\ s \in Seq(S)
  BY DEF WriteState, StateOps, Label
<1> HIDE DEF s
<1>3. Range(s) = StateOps(status)
  <2>1. Range(s) = {s[i] : i \in 1 .. 4}
    BY <1>1, <1>2, RangeEquality
  <2>2. StateOps(status) \subseteq {s[i] : i \in 1 .. 4}
    BY <1>1 DEF StateOps
  <2>3. Range(s) \subseteq StateOps(status)
    BY <1>2, RangeOfSeq
  <2> QED
    BY <2>1, <2>2, <2>3
<1>4. ASSUME NEW k \in 1 .. Len(s)
      PROVE  FillsNext(s, k)
  BY <1>1, OpensDiffer DEF FillsNext, FillOps
<1>5. ASSUME NEW k \in 1 .. Len(s)
      PROVE  ChecksFirst(s, k)
  <2>1. CASE s[k].op # "open"
    BY <2>1, OpensDiffer DEF ChecksFirst
  <2>2. CASE k = 2
    <3>1. s[k] = Do("open", Temporary(StateFile))
      BY <1>1, <2>2
    <3>2. /\ Temporary(StateFile) \notin Once \cup {Result}
          /\ \A b : /\ Temporary(StateFile) # Verified(b)
                  /\ Temporary(StateFile) # Fixture(b, "script.json")
      BY Temporaries DEF Once, GenesisFiles, ProveFiles, Result, Deployment, Scenario,
         Input, Proof, ScriptOf, Fixture, Verified
    <3> QED
      BY <3>1, <3>2, OtherOpens
  <2> QED
    BY <1>1, <2>1, <2>2, OpensDiffer
<1> QED
  BY <1>2, <1>3, <1>4, <1>5 DEF Fitting, s

HeadOps ==
  {Do("absent", Work), Do("mkdir", Work), Do("mkdir", Inputs),
   Do("absent", DeploymentDir), Do("mkdir", DeploymentDir),
   Do("open", Deployment), Do("make", Deployment),
   Do("absent", Scenario), Do("open", Scenario), Do("make", Scenario),
   Do("read", Scenario)}

GenesisHead ==
  <<Do("absent", Work), Do("mkdir", Work), Do("mkdir", Inputs)>>
  \o PrepareDeployment \o PrepareScenario
  \o <<Do("read", Scenario)>>

\* The first steps of genesis.
LEMMA HeadFits ==
  ASSUME NEW S, HeadOps \subseteq S
  PROVE  /\ GenesisHead \in Fitting(S) /\ Range(GenesisHead) = HeadOps
         /\ Len(GenesisHead) = 11
         /\ GenesisHead[1] = Do("absent", Work) /\ GenesisHead[2] = Do("mkdir", Work)
<1> DEFINE s == GenesisHead
<1>1. /\ Len(s) = 11
      /\ s[1] = Do("absent", Work) /\ s[2] = Do("mkdir", Work)
      /\ s[3] = Do("mkdir", Inputs)
      /\ s[4] = Do("absent", DeploymentDir) /\ s[5] = Do("mkdir", DeploymentDir)
      /\ s[6] = Do("open", Deployment) /\ s[7] = Do("make", Deployment)
      /\ s[8] = Do("absent", Scenario)
      /\ s[9] = Do("open", Scenario) /\ s[10] = Do("make", Scenario)
      /\ s[11] = Do("read", Scenario)
  BY DEF GenesisHead, PrepareDeployment, PrepareScenario, Write
<1>2. s \in Seq(HeadOps) /\ s \in Seq(S)
  BY DEF GenesisHead, PrepareDeployment, PrepareScenario, Write, HeadOps
<1> HIDE DEF s
<1>3. Range(s) = HeadOps
  <2>1. Range(s) = {s[i] : i \in 1 .. 11}
    BY <1>1, <1>2, RangeEquality
  <2>2. HeadOps \subseteq {s[i] : i \in 1 .. 11}
    BY <1>1 DEF HeadOps
  <2>3. Range(s) \subseteq HeadOps
    BY <1>2, RangeOfSeq
  <2> QED
    BY <2>1, <2>2, <2>3
<1>4. ASSUME NEW k \in 1 .. Len(s)
      PROVE  FillsNext(s, k)
  BY <1>1, OpensDiffer, Unrenamed DEF FillsNext, FillOps
<1>5. ASSUME NEW k \in 1 .. Len(s)
      PROVE  ChecksFirst(s, k)
  <2>1. CASE s[k].op # "open"
    BY <2>1, OpensDiffer DEF ChecksFirst
  <2>2. CASE k = 6
    <3>1. Since(s, k, Checks(Deployment), {Do("open", Deployment)})
      BY <1>1, <2>2, FrontOf DEF Since, Checks, Deployment, DeploymentDir
    <3>2. s[k] = Do("open", Deployment)
      BY <1>1, <2>2
    <3>3. \A b : Deployment # Verified(b) /\ Deployment # Fixture(b, "script.json")
      BY DEF Deployment, Verified, Fixture
    <3> QED
      BY <3>1, <3>2, <3>3, OpenChecks
  <2>3. CASE k = 9
    <3>1. Since(s, k, Checks(Scenario), {Do("open", Scenario)})
      BY <1>1, <2>3, OpensDiffer DEF Since, Checks
    <3>2. s[k] = Do("open", Scenario)
      BY <1>1, <2>3
    <3>3. \A b : Scenario # Verified(b) /\ Scenario # Fixture(b, "script.json")
      BY DEF Scenario, Verified, Fixture
    <3> QED
      BY <3>1, <3>2, <3>3, OpenChecks
  <2> QED
    BY <1>1, <2>1, <2>2, <2>3, OpensDiffer
<1> QED
  BY <1>1, <1>2, <1>3, <1>4, <1>5 DEF Fitting, s

CopySteps(a) ==
  <<Do("mkdir", <<"fixtures", a>>)>>
  \o Copy(Input(a), Fixture(a, "input.json"))
  \o Copy(Proof(a), Fixture(a, "proof.bin"))
  \o Copy(Verified(a), Fixture(a, "verified.json"))
  \o Copy(ScriptOf(a), Fixture(a, "script.json"))

\* The steps that package one action.
LEMMA FixtureFits ==
  ASSUME NEW a \in Act, NEW S, FixtureOps(a) \subseteq S
  PROVE  CopySteps(a) \in Fitting(S) /\ Range(CopySteps(a)) = FixtureOps(a)
<1> DEFINE s == CopySteps(a)
           Open(name) == Do("open", Fixture(a, name))
           ops == {Do("mkdir", <<"fixtures", a>>),
                   Open("input.json"), CopyOf(a, "input.json"),
                   Open("proof.bin"), CopyOf(a, "proof.bin"),
                   Open("verified.json"), CopyOf(a, "verified.json"),
                   Open("script.json"), CopyOf(a, "script.json")}
<1>1. /\ Len(s) = 9
      /\ s[1] = Do("mkdir", <<"fixtures", a>>)
      /\ s[2] = Open("input.json") /\ s[3] = CopyOf(a, "input.json")
      /\ s[4] = Open("proof.bin") /\ s[5] = CopyOf(a, "proof.bin")
      /\ s[6] = Open("verified.json") /\ s[7] = CopyOf(a, "verified.json")
      /\ s[8] = Open("script.json") /\ s[9] = CopyOf(a, "script.json")
  BY DEF CopySteps, Copy, CopyOf
<1>2. ops = FixtureOps(a)
  BY DEF FixtureOps, FixtureNames
<1>3. s \in Seq(ops) /\ s \in Seq(S)
  <2>1. s \in Seq(ops)
    BY DEF CopySteps, Copy, CopyOf
  <2> HIDE DEF s, ops
  <2> QED
    BY <1>2, <2>1, SeqMonotonic
<1> HIDE DEF s
<1>4. Range(s) = FixtureOps(a)
  <2>1. Range(s) = {s[i] : i \in 1 .. 9}
    BY <1>1, <1>3, RangeEquality
  <2>2. ops \subseteq {s[i] : i \in 1 .. 9}
    BY <1>1
  <2>3. Range(s) \subseteq ops
    BY <1>3, RangeOfSeq
  <2> HIDE DEF ops
  <2> QED
    BY <1>2, <2>1, <2>2, <2>3
<1>5. ASSUME NEW k \in 1 .. Len(s)
      PROVE  FillsNext(s, k)
  BY <1>1, OpensDiffer, Unrenamed DEF FillsNext, FillOps
<1>6. ASSUME NEW k \in 1 .. Len(s)
      PROVE  ChecksFirst(s, k)
  <2>1. CASE s[k].op # "open"
    BY <2>1, OpensDiffer DEF ChecksFirst
  <2>2. ASSUME NEW name \in FixtureNames, s[k] = Open(name)
        PROVE  ChecksFirst(s, k)
    <3>1. Since(s, k, Checks(Fixture(a, name)), {Open(name)})
      <4>1. Do("mkdir", <<"fixtures", a>>) \in Checks(Fixture(a, name))
        BY FrontOf DEF Checks, Fixture
      <4>2. s[1] \in Checks(Fixture(a, name)) /\ 1 \in 1 .. k - 1
        BY <1>1, <2>2, <4>1, OpensDiffer
      <4>3. \A i \in 2 .. k - 1 : s[i] \notin {Open(name)}
        BY <1>1, <2>2, OpensDiffer DEF Fixture
      <4> QED
        BY <4>2, <4>3 DEF Since
    <3>2. \A b : /\ Fixture(a, name) # Verified(b)
                 /\ Fixture(a, name) = Fixture(b, "script.json") =>
                      a = b /\ name = "script.json"
      BY DEF Verified, Fixture
    <3>3. name = "script.json" => Since(s, k, {CopyOf(a, "proof.bin")}, {})
      <4>1. ASSUME name = "script.json"
            PROVE  5 \in 1 .. k - 1
        BY <1>1, <2>2, <4>1, OpensDiffer DEF Fixture
      <4> QED
        BY <1>1, <4>1 DEF Since
    <3>4. \A b \in Act : Fixture(a, name) = Fixture(b, "script.json") =>
            Since(s, k, {CopyOf(b, "proof.bin")}, {})
      BY <3>2, <3>3, Zenon
    <3>5. \A b \in Act : Fixture(a, name) = Verified(b) =>
            Since(s, k, {Do("mkdir", <<"proofs", b>>)}, {Do("read", Verified(b))})
      BY <3>2, Zenon
    <3> QED
      BY <2>2, <3>1, <3>4, <3>5, OpenChecks, Zenon
  <2>3. \/ s[k].op # "open"
        \/ \E name \in FixtureNames : s[k] = Open(name)
    BY <1>1, OpensDiffer DEF FixtureNames
  <2> QED
    BY <2>1, <2>2, <2>3
<1> QED
  BY <1>3, <1>4, <1>5, <1>6 DEF Fitting, s

\* The steps that write the result.
LEMMA ResultFits ==
  ASSUME NEW S,
         {Do("absent", Result), Do("open", Result), Do("make", Result)} \subseteq S
  PROVE  LET s == <<Do("absent", Result)>> \o Write(Result)
         IN  /\ s \in Fitting(S)
             /\ Range(s) = {Do("absent", Result), Do("open", Result), Do("make", Result)}
<1> DEFINE s == <<Do("absent", Result)>> \o Write(Result)
           ops == {Do("absent", Result), Do("open", Result), Do("make", Result)}
<1>1. /\ Len(s) = 3 /\ s[1] = Do("absent", Result) /\ s[2] = Do("open", Result)
      /\ s[3] = Do("make", Result)
  BY DEF Write
<1>2. s \in Seq(ops) /\ s \in Seq(S)
  BY DEF Write
<1> HIDE DEF s
<1>3. Range(s) = ops
  <2>1. Range(s) = {s[i] : i \in 1 .. 3}
    BY <1>1, <1>2, RangeEquality
  <2> QED
    BY <1>1, <2>1
<1>4. ASSUME NEW k \in 1 .. Len(s)
      PROVE  FillsNext(s, k)
  BY <1>1, OpensDiffer, Unrenamed DEF FillsNext, FillOps
<1>5. ASSUME NEW k \in 1 .. Len(s)
      PROVE  ChecksFirst(s, k)
  <2>1. CASE s[k].op # "open"
    BY <2>1, OpensDiffer DEF ChecksFirst
  <2>2. CASE k = 2
    <3>1. Since(s, k, Checks(Result), {Do("open", Result)})
      BY <1>1, <2>2 DEF Since, Checks
    <3>2. s[k] = Do("open", Result)
      BY <1>1, <2>2
    <3>3. \A b : Result # Verified(b) /\ Result # Fixture(b, "script.json")
      BY DEF Result, Verified, Fixture
    <3> QED
      BY <3>1, <3>2, <3>3, OpenChecks
  <2> QED
    BY <1>1, <2>1, <2>2, OpensDiffer
<1> QED
  BY <1>2, <1>3, <1>4, <1>5 DEF Fitting, s

-----------------------------------------------------------------------------
(* The commands                                                            *)

\* y comes before every step in X.
Precedes(s, y, X) ==
  \A k \in 1 .. Len(s) : s[k] \in X => Since(s, k, {y}, {})

\* What precedes steps still does in a longer sequence.
LEMMA PrecedesConcat ==
  ASSUME NEW S, NEW s \in Seq(S), NEW t \in Seq(S), NEW y, NEW X
  PROVE  /\ y \in Range(s) /\ Range(s) \cap X = {} => Precedes(s \o t, y, X)
         /\ Precedes(s, y, X) /\ Range(t) \cap X = {} => Precedes(s \o t, y, X)
<1> DEFINE u == s \o t
           m == Len(s)
           n == Len(t)
<1>1. /\ m \in Nat /\ n \in Nat /\ Len(u) = m + n
      /\ \A i \in 1 .. m + n : u[i] = IF i <= m THEN s[i] ELSE t[i - m]
      /\ Range(s) = {s[i] : i \in 1 .. m} /\ Range(t) = {t[i] : i \in 1 .. n}
  BY LenProperties, ConcatProperties, RangeEquality
<1>2. \A k \in 1 .. m : Since(s, k, {y}, {}) => Since(u, k, {y}, {})
  BY SinceConcat
<1> HIDE DEF u, m, n
<1>3. ASSUME NEW k \in 1 .. Len(u)
      PROVE  /\ k <= m => k \in 1 .. m /\ u[k] = s[k]
             /\ ~ k <= m => k - m \in 1 .. n /\ u[k] = t[k - m]
  BY <1>1
<1>4. ASSUME y \in Range(s), Range(s) \cap X = {}
      PROVE  Precedes(u, y, X)
  <2> SUFFICES ASSUME NEW k \in 1 .. Len(u), u[k] \in X
               PROVE  Since(u, k, {y}, {})
    BY DEF Precedes
  <2>1. ~ k <= m
    BY <1>1, <1>3, <1>4
  <2>2. PICK j \in 1 .. m : s[j] = y
    BY <1>1, <1>4
  <2>3. j \in 1 .. k - 1 /\ u[j] = y
    <3>1. j \in 1 .. m + n /\ j <= m
      BY <1>1
    <3> QED
      BY <1>1, <2>1, <2>2, <3>1
  <2> QED
    BY <2>3 DEF Since
<1>5. ASSUME Precedes(s, y, X), Range(t) \cap X = {}
      PROVE  Precedes(u, y, X)
  <2> SUFFICES ASSUME NEW k \in 1 .. Len(u), u[k] \in X
               PROVE  Since(u, k, {y}, {})
    BY DEF Precedes
  <2>1. k <= m
    BY <1>1, <1>3, <1>5
  <2>2. Since(s, k, {y}, {})
    BY <1>3, <1>5, <2>1 DEF Precedes, m
  <2> QED
    BY <1>2, <1>3, <2>1, <2>2
<1> QED
  BY <1>4, <1>5 DEF u

\* A block for each action.
LEMMA ActionsFit ==
  ASSUME NEW S, NEW ops, NEW seqs \in [DOMAIN Actions -> Fitting(S)],
         \A k \in DOMAIN Actions : Range(seqs[k]) = ops[Actions[k]]
  PROVE  /\ FlattenSeq(seqs) \in Fitting(S)
         /\ Range(FlattenSeq(seqs)) = UNION {ops[a] : a \in Act}
<1>1. /\ Len(Actions) \in Nat \ {0}
      /\ DOMAIN Actions = 1 .. Len(Actions)
  BY LifecycleAssumption, LenProperties, EmptySeq
<1>2. Fitting(S) \in SUBSET Seq(S)
  BY DEF Fitting
<1>3. \A s, t \in Fitting(S) : s \o t \in Fitting(S)
  BY FittingConcat
<1>4. /\ FlattenSeq(seqs) \in Fitting(S)
      /\ Range(FlattenSeq(seqs)) = UNION {Range(seqs[i]) : i \in 1 .. Len(Actions)}
  <2> DEFINE n == Len(Actions)
  <2>1. n \in Nat \ {0} /\ seqs \in [1 .. n -> Fitting(S)]
    BY <1>1
  <2> HIDE DEF n
  <2>2. /\ FlattenSeq(seqs) \in Fitting(S)
        /\ Range(FlattenSeq(seqs)) = UNION {Range(seqs[i]) : i \in 1 .. n}
    BY <1>2, <1>3, <2>1, Flattened
  <2> QED
    BY <2>2 DEF n
<1>5. {Range(seqs[i]) : i \in 1 .. Len(Actions)} = {ops[a] : a \in Act}
  BY <1>1 DEF Act
<1> QED
  BY <1>4, <1>5, Zenon

\* What steps a command has.
GenesisOps ==
  HeadOps \cup (UNION {RequestOps(a) : a \in Act}) \cup StateOps("prepared")

FirstOps ==
  {Do("absent", Proofs), Do("absent", Scripts), Do("absent", Fixtures),
   Do("mkdir", Proofs), Do("mkdir", Scripts)}

ProveOps ==
  FirstOps \cup (UNION {ProofOps(a) : a \in Act})
  \cup {Do("absent", Fixtures), Do("mkdirs", Fixtures)}
  \cup (UNION {FixtureOps(a) : a \in Act})
  \cup {Do("load", StateFile)} \cup StateOps("proved")

ResultOps == {Do("absent", Result), Do("open", Result), Do("make", Result)}

SubmitOps ==
  {Do("absent", Result)} \cup (UNION {ReadOps(a) : a \in Act}) \cup ResultOps
  \cup {Do("load", StateFile), Do("read", Result)} \cup StateOps("mined")

\* Every action's requests and inputs.
LEMMA RequestsFit ==
  ASSUME NEW S, UNION {RequestOps(a) : a \in Act} \subseteq S
  PROVE  LET s == ForAll(LAMBDA a : WriteRequest(a) \o DeriveInput(a))
         IN  s \in Fitting(S) /\ Range(s) = UNION {RequestOps(a) : a \in Act}
<1> DEFINE seqs == [k \in DOMAIN Actions |->
                      WriteRequest(Actions[k]) \o DeriveInput(Actions[k])]
           ops == [a \in Act |-> RequestOps(a)]
<1>1. ASSUME NEW k \in DOMAIN Actions
      PROVE  seqs[k] \in Fitting(S) /\ Range(seqs[k]) = ops[Actions[k]]
  <2>1. Actions[k] \in Act /\ RequestOps(Actions[k]) \subseteq S
    BY DEF Act
  <2> QED
    BY <2>1, RequestFits
<1>2. seqs \in [DOMAIN Actions -> Fitting(S)]
  BY <1>1
<1>3. UNION {ops[a] : a \in Act} = UNION {RequestOps(a) : a \in Act}
  OBVIOUS
<1>4. ForAll(LAMBDA a : WriteRequest(a) \o DeriveInput(a)) = FlattenSeq(seqs)
  BY DEF ForAll
<1> HIDE DEF seqs, ops
<1>5. \A k \in DOMAIN Actions : Range(seqs[k]) = ops[Actions[k]]
  BY <1>1
<1>6. /\ FlattenSeq(seqs) \in Fitting(S)
      /\ Range(FlattenSeq(seqs)) = UNION {ops[a] : a \in Act}
  BY <1>2, <1>5, ActionsFit
<1> QED
  BY <1>3, <1>4, <1>6, Zenon

\* Every action's proofs and scripts.
LEMMA ProofsFit ==
  ASSUME NEW S, UNION {ProofOps(a) : a \in Act} \subseteq S
  PROVE  LET s == ForAll(LAMBDA a : HostProve(a) \o HostVerify(a)
                                     \o BuildVerifierArtifact(a))
         IN  s \in Fitting(S) /\ Range(s) = UNION {ProofOps(a) : a \in Act}
<1> DEFINE seqs == [k \in DOMAIN Actions |->
                      HostProve(Actions[k]) \o HostVerify(Actions[k])
                      \o BuildVerifierArtifact(Actions[k])]
           ops == [a \in Act |-> ProofOps(a)]
<1>1. ASSUME NEW k \in DOMAIN Actions
      PROVE  seqs[k] \in Fitting(S) /\ Range(seqs[k]) = ops[Actions[k]]
  <2>1. Actions[k] \in Act /\ ProofOps(Actions[k]) \subseteq S
    BY DEF Act
  <2> QED
    BY <2>1, ProvingFits
<1>2. seqs \in [DOMAIN Actions -> Fitting(S)]
  BY <1>1
<1>3. UNION {ops[a] : a \in Act} = UNION {ProofOps(a) : a \in Act}
  OBVIOUS
<1>4. ForAll(LAMBDA a : HostProve(a) \o HostVerify(a) \o BuildVerifierArtifact(a))
        = FlattenSeq(seqs)
  BY DEF ForAll
<1> HIDE DEF seqs, ops
<1>5. \A k \in DOMAIN Actions : Range(seqs[k]) = ops[Actions[k]]
  BY <1>1
<1>6. /\ FlattenSeq(seqs) \in Fitting(S)
      /\ Range(FlattenSeq(seqs)) = UNION {ops[a] : a \in Act}
  BY <1>2, <1>5, ActionsFit
<1> QED
  BY <1>3, <1>4, <1>6, Zenon

\* Every action's fixtures.
LEMMA FixturesFit ==
  ASSUME NEW S, UNION {FixtureOps(a) : a \in Act} \subseteq S
  PROVE  LET s == ForAll(CopySteps)
         IN  s \in Fitting(S) /\ Range(s) = UNION {FixtureOps(a) : a \in Act}
<1> DEFINE seqs == [k \in DOMAIN Actions |-> CopySteps(Actions[k])]
           ops == [a \in Act |-> FixtureOps(a)]
<1>1. ASSUME NEW k \in DOMAIN Actions
      PROVE  seqs[k] \in Fitting(S) /\ Range(seqs[k]) = ops[Actions[k]]
  <2>1. Actions[k] \in Act /\ FixtureOps(Actions[k]) \subseteq S
    BY DEF Act
  <2> QED
    BY <2>1, FixtureFits
<1>2. seqs \in [DOMAIN Actions -> Fitting(S)]
  BY <1>1
<1>3. UNION {ops[a] : a \in Act} = UNION {FixtureOps(a) : a \in Act}
  OBVIOUS
<1>4. ForAll(CopySteps) = FlattenSeq(seqs)
  BY DEF ForAll
<1> HIDE DEF seqs, ops
<1>5. \A k \in DOMAIN Actions : Range(seqs[k]) = ops[Actions[k]]
  BY <1>1
<1>6. /\ FlattenSeq(seqs) \in Fitting(S)
      /\ Range(FlattenSeq(seqs)) = UNION {ops[a] : a \in Act}
  BY <1>2, <1>5, ActionsFit
<1> QED
  BY <1>3, <1>4, <1>6, Zenon

ReadSteps(a) ==
  <<Do("read", Fixture(a, "input.json")), Do("read", Fixture(a, "verified.json")),
    Do("read", Fixture(a, "script.json"))>>

\* The bridge test's reading of every action's fixtures.
LEMMA ReadsFit ==
  ASSUME NEW S, UNION {ReadOps(a) : a \in Act} \subseteq S
  PROVE  LET s == ForAll(ReadSteps)
         IN  s \in Fitting(S) /\ Range(s) = UNION {ReadOps(a) : a \in Act}
<1> DEFINE seqs == [k \in DOMAIN Actions |-> ReadSteps(Actions[k])]
           ops == [a \in Act |-> ReadOps(a)]
<1>1. ASSUME NEW k \in DOMAIN Actions
      PROVE  seqs[k] \in Fitting(S) /\ Range(seqs[k]) = ops[Actions[k]]
  <2> DEFINE a == Actions[k]
             s == ReadSteps(a)
  <2>1. a \in Act /\ ReadOps(a) \subseteq S
    BY DEF Act
  <2>2. s \in Seq(ReadOps(a)) /\ Len(s) = 3
    BY DEF ReadSteps, ReadOps
  <2>3. s \in Seq(S)
    BY <2>1, <2>2, SeqMonotonic
  <2>4. \A i \in 1 .. Len(s) : s[i].op = "read"
    BY DEF ReadSteps, Do
  <2>5. s \in Fitting(S)
    BY <2>3, <2>4, PlainFits
  <2>6. Range(s) = ReadOps(a)
    <3>1. Range(s) = {s[i] : i \in 1 .. 3}
      BY <2>2, RangeEquality
    <3>2. ReadOps(a) = {s[1], s[2], s[3]}
      BY DEF ReadSteps, ReadOps
    <3> HIDE DEF s
    <3> QED
      BY <3>1, <3>2
  <2> QED
    BY <2>5, <2>6, <2>1
<1>2. seqs \in [DOMAIN Actions -> Fitting(S)]
  BY <1>1
<1>3. UNION {ops[a] : a \in Act} = UNION {ReadOps(a) : a \in Act}
  OBVIOUS
<1>4. ForAll(ReadSteps) = FlattenSeq(seqs)
  BY DEF ForAll
<1> HIDE DEF seqs, ops
<1>5. \A k \in DOMAIN Actions : Range(seqs[k]) = ops[Actions[k]]
  BY <1>1
<1>6. /\ FlattenSeq(seqs) \in Fitting(S)
      /\ Range(FlattenSeq(seqs)) = UNION {ops[a] : a \in Act}
  BY <1>2, <1>5, ActionsFit
<1> QED
  BY <1>3, <1>4, <1>6, Zenon
OpsOf(command) ==
  CASE command = "genesis" -> GenesisOps
    [] command = "prove" -> ProveOps
    [] command = "submit" -> SubmitOps

\* What concatenation does to the steps of two parts.
LEMMA PartsFit ==
  ASSUME NEW S, NEW s \in Fitting(S), NEW t \in Fitting(S)
  PROVE  /\ s \o t \in Fitting(S)
         /\ Range(s \o t) = Range(s) \cup Range(t)
         /\ \A y, X : /\ y \in Range(s) /\ Range(s) \cap X = {} => Precedes(s \o t, y, X)
                      /\ Precedes(s, y, X) /\ Range(t) \cap X = {} => Precedes(s \o t, y, X)
         /\ \A k \in 1 .. Len(s) : (s \o t)[k] = s[k]
         /\ Len(s \o t) = Len(s) + Len(t)
         /\ Len(s) \in Nat /\ Len(t) \in Nat
<1>1. s \in Seq(S) /\ t \in Seq(S)
  BY DEF Fitting
<1>2. s \o t \in Fitting(S)
  BY FittingConcat
<1>3. Range(s \o t) = Range(s) \cup Range(t)
  BY <1>1, RangeConcatenation
<1>4. \A y, X : /\ y \in Range(s) /\ Range(s) \cap X = {} => Precedes(s \o t, y, X)
                /\ Precedes(s, y, X) /\ Range(t) \cap X = {} => Precedes(s \o t, y, X)
  BY <1>1, PrecedesConcat
<1>5. /\ \A k \in 1 .. Len(s) : (s \o t)[k] = s[k]
      /\ Len(s \o t) = Len(s) + Len(t)
      /\ Len(s) \in Nat /\ Len(t) \in Nat
  <2>1. Len(s) \in Nat /\ Len(t) \in Nat
    BY <1>1, LenProperties
  <2>2. /\ Len(s \o t) = Len(s) + Len(t)
        /\ \A i \in 1 .. Len(s) + Len(t) :
             (s \o t)[i] = IF i <= Len(s) THEN s[i] ELSE t[i - Len(s)]
    BY <1>1, ConcatProperties
  <2> QED
    BY <2>1, <2>2
<1> QED
  BY <1>2, <1>3, <1>4, <1>5

\* What y precedes at the head of a sequence, and every later step.
LEMMA HeadPrecedes ==
  ASSUME NEW S, NEW s \in Seq(S), NEW m \in Nat \ {0}, m <= Len(s)
  PROVE  Precedes(s, s[m], Range(s) \ {s[i] : i \in 1 .. m})
<1>1. Len(s) \in Nat
  BY LenProperties
<1> SUFFICES ASSUME NEW k \in 1 .. Len(s), s[k] \notin {s[i] : i \in 1 .. m}
             PROVE  Since(s, k, {s[m]}, {})
  BY DEF Precedes
<1>2. m \in 1 .. k - 1
  BY <1>1
<1> QED
  BY <1>2 DEF Since

\* The state is replaced by the last step of a sequence.
ReplacesLast(s) ==
  \A k \in 1 .. Len(s) : s[k] = Do("replace", StateFile) => k = Len(s)

\* It is, where nothing before touched it.
LEMMA StateLast ==
  ASSUME NEW S, NEW s \in Seq(S), NEW status, Range(s) \cap StateOps(status) = {}
  PROVE  ReplacesLast(s \o WriteState(status))
<1> DEFINE w == WriteState(status)
           U == S \cup StateOps(status)
           y == Do("replace", StateFile)
<1>1. /\ w \in Seq(StateOps(status)) /\ Len(w) = 4
      /\ \A i \in 1 .. 4 : w[i] = y => i = 4
  BY OpensDiffer DEF WriteState, StateOps, Label
<1>2. s \in Seq(U) /\ w \in Seq(U)
  BY <1>1, SeqMonotonic
<1>3. \A i \in 1 .. Len(s) : s[i] # y
  <2>1. \A i \in 1 .. Len(s) : s[i] \in Range(s)
    BY RangeEquality
  <2> QED
    BY <2>1 DEF StateOps
<1> HIDE DEF w, U, y
<1>4. /\ Len(s \o w) = Len(s) + Len(w) /\ Len(s) \in Nat
      /\ \A i \in 1 .. Len(s) + Len(w) :
           (s \o w)[i] = IF i <= Len(s) THEN s[i] ELSE w[i - Len(s)]
  BY <1>2, ConcatProperties, LenProperties
<1>5. ASSUME NEW k \in 1 .. Len(s \o w), (s \o w)[k] = y
      PROVE  k = Len(s \o w)
  BY <1>1, <1>3, <1>4, <1>5
<1> QED
  BY <1>5 DEF ReplacesLast, w, y

\* genesis: what it does, first and before the state file.
LEMMA GenesisSteps_Fit ==
  LET s == GenesisSteps
  IN  /\ s \in Fitting(GenesisOps) /\ Range(s) = GenesisOps
      /\ s[1] = Do("absent", Work) /\ s[2] = Do("mkdir", Work) /\ Len(s) >= 2
      /\ \A y \in HeadOps \cup (UNION {RequestOps(a) : a \in Act}) :
           Precedes(s, y, StateOps("prepared"))
      /\ ReplacesLast(s)
<1> DEFINE F == ForAll(LAMBDA a : WriteRequest(a) \o DeriveInput(a))
           W == WriteState("prepared")
           R == UNION {RequestOps(a) : a \in Act}
<1>1. GenesisSteps = (GenesisHead \o F) \o W
  BY DEF GenesisSteps, GenesisHead
<1>2. /\ GenesisHead \in Fitting(GenesisOps) /\ Range(GenesisHead) = HeadOps
      /\ Len(GenesisHead) = 11
      /\ GenesisHead[1] = Do("absent", Work) /\ GenesisHead[2] = Do("mkdir", Work)
  <2>1. HeadOps \subseteq GenesisOps
    BY DEF GenesisOps
  <2> QED
    BY <2>1, HeadFits
<1>3. F \in Fitting(GenesisOps) /\ Range(F) = R
  <2>1. R \subseteq GenesisOps
    BY DEF GenesisOps
  <2> QED
    BY <2>1, RequestsFit
<1>4. W \in Fitting(GenesisOps) /\ Range(W) = StateOps("prepared")
  <2>1. StateOps("prepared") \subseteq GenesisOps
    BY DEF GenesisOps
  <2> QED
    BY <2>1, StateFits
<1>5. (HeadOps \cup R) \cap StateOps("prepared") = {}
  <2>1. \A x \in StateOps("prepared") : x.path \in {StateFile, Temporary(StateFile)}
    BY DEF StateOps, Label, Do
  <2>2. \A x \in HeadOps : x.path \notin {StateFile, Temporary(StateFile)}
    BY Temporaries DEF HeadOps, Do, Work, Inputs, DeploymentDir, Deployment, Scenario, StateFile
  <2>3. \A a : \A x \in RequestOps(a) : x.path \notin {StateFile, Temporary(StateFile)}
    BY Temporaries DEF RequestOps, Do, Request, Input, StateFile
  <2> QED
    BY <2>1, <2>2, <2>3
<1> HIDE DEF F, W, R
<1> DEFINE t == GenesisHead \o F
<1>6. /\ t \in Fitting(GenesisOps) /\ Range(t) = HeadOps \cup R
      /\ \A k \in 1 .. Len(GenesisHead) : t[k] = GenesisHead[k]
      /\ Len(t) \in Nat /\ Len(t) >= 11
  <2>1. /\ t \in Fitting(GenesisOps) /\ Range(t) = Range(GenesisHead) \cup Range(F)
        /\ \A k \in 1 .. Len(GenesisHead) : t[k] = GenesisHead[k]
        /\ Len(t) = Len(GenesisHead) + Len(F)
        /\ Len(GenesisHead) \in Nat /\ Len(F) \in Nat
    BY <1>2, <1>3, PartsFit, Zenon
  <2>2. Range(t) = HeadOps \cup R
    BY <1>2, <1>3, <2>1, Zenon
  <2> HIDE DEF t
  <2> QED
    BY <1>2, <2>1, <2>2
<1> HIDE DEF t
<1>7. /\ t \o W \in Fitting(GenesisOps)
      /\ Range(t \o W) = (HeadOps \cup R) \cup StateOps("prepared")
      /\ \A y, X : y \in HeadOps \cup R /\ (HeadOps \cup R) \cap X = {} =>
           Precedes(t \o W, y, X)
      /\ \A k \in 1 .. Len(t) : (t \o W)[k] = t[k]
      /\ Len(t \o W) >= 2
  <2>1. /\ t \o W \in Fitting(GenesisOps)
        /\ Range(t \o W) = Range(t) \cup Range(W)
        /\ \A y, X : y \in Range(t) /\ Range(t) \cap X = {} => Precedes(t \o W, y, X)
        /\ \A k \in 1 .. Len(t) : (t \o W)[k] = t[k]
        /\ Len(t \o W) = Len(t) + Len(W) /\ Len(W) \in Nat
    BY <1>4, <1>6, PartsFit
  <2>2. Range(t) \cup Range(W) = (HeadOps \cup R) \cup StateOps("prepared")
    BY <1>4, <1>6, Zenon
  <2>3. \A y, X : y \in HeadOps \cup R /\ (HeadOps \cup R) \cap X = {} =>
           Precedes(t \o W, y, X)
    BY <1>6, <2>1, Zenon
  <2>4. Len(t \o W) >= 2
    BY <1>6, <2>1
  <2> QED
    BY <2>1, <2>2, <2>3, <2>4, Zenon
<1>8. GenesisSteps = t \o W
  BY <1>1, Zenon DEF t
<1>9. GenesisOps = (HeadOps \cup R) \cup StateOps("prepared")
  BY Zenon DEF GenesisOps, R
<1>10. (t \o W)[1] = Do("absent", Work) /\ (t \o W)[2] = Do("mkdir", Work)
  BY <1>2, <1>6, <1>7
<1>11. \A y \in HeadOps \cup R : Precedes(t \o W, y, StateOps("prepared"))
  BY <1>5, <1>7, Zenon
<1>12. ReplacesLast(t \o W)
  <2>1. t \in Seq(GenesisOps)
    BY <1>6 DEF Fitting
  <2> QED
    BY <1>5, <1>6, <2>1, StateLast DEF W
<1> QED
  BY <1>7, <1>8, <1>9, <1>10, <1>11, <1>12, Zenon DEF R

\* prove: the directories first, then the proofs, the package, the state file.
LEMMA ProveSteps_Fit ==
  LET s == ProveSteps
  IN  /\ s \in Fitting(ProveOps) /\ Range(s) = ProveOps
      /\ s[1] = Do("absent", Proofs) /\ s[2] = Do("absent", Scripts)
      /\ s[3] = Do("absent", Fixtures) /\ s[4] = Do("mkdir", Proofs)
      /\ Len(s) >= 4
      /\ \A y \in UNION {ProofOps(a) : a \in Act} :
           Precedes(s, y, UNION {FixtureOps(a) : a \in Act})
      /\ \A y \in (UNION {FixtureOps(a) : a \in Act}) \cup {Do("load", StateFile)} :
           Precedes(s, y, StateOps("proved"))
      /\ ReplacesLast(s)
<1> DEFINE H == <<Do("absent", Proofs), Do("absent", Scripts), Do("absent", Fixtures),
                  Do("mkdir", Proofs), Do("mkdir", Scripts)>>
           F == ForAll(LAMBDA a : HostProve(a) \o HostVerify(a)
                                   \o BuildVerifierArtifact(a))
           D == <<Do("absent", Fixtures), Do("mkdirs", Fixtures)>>
           G == ForAll(CopySteps)
           L == <<Do("load", StateFile)>>
           W == WriteState("proved")
           P == UNION {ProofOps(a) : a \in Act}
           X == UNION {FixtureOps(a) : a \in Act}
           Dops == {Do("absent", Fixtures), Do("mkdirs", Fixtures)}
           T == StateOps("proved")
           S == ProveOps
<1>1. ProveSteps = (((H \o F) \o (D \o G)) \o L) \o W
  BY DEF ProveSteps, PackageFixtures, CopySteps, ForAll
<1>2. S = FirstOps \cup P \cup Dops \cup X \cup {Do("load", StateFile)} \cup T
  BY Zenon DEF ProveOps
<1>3. /\ H \in Fitting(S) /\ Range(H) = FirstOps /\ Len(H) = 5
      /\ H[1] = Do("absent", Proofs) /\ H[2] = Do("absent", Scripts)
      /\ H[3] = Do("absent", Fixtures) /\ H[4] = Do("mkdir", Proofs)
  <2>1. H \in Seq(FirstOps)
    BY DEF FirstOps
  <2>2. FirstOps \subseteq S
    BY <1>2
  <2>3. Len(H) = 5 /\ \A i \in 1 .. Len(H) : H[i].op \in {"absent", "mkdir"}
    BY DEF Do
  <2>4. H \in Seq(S)
    BY <2>1, <2>2, SeqMonotonic
  <2>5. H \in Fitting(S)
    BY <2>3, <2>4, PlainFits
  <2>6. Range(H) = FirstOps
    <3>1. Range(H) = {H[i] : i \in 1 .. 5}
      BY <2>1, <2>3, RangeEquality
    <3>2. FirstOps = {H[1], H[2], H[3], H[4], H[5]}
      BY DEF FirstOps
    <3> HIDE DEF H
    <3> QED
      BY <3>1, <3>2
  <2> QED
    BY <2>3, <2>5, <2>6
<1>4. F \in Fitting(S) /\ Range(F) = P
  <2>1. P \subseteq S
    BY <1>2
  <2> QED
    BY <2>1, ProofsFit
<1>5. D \in Fitting(S) /\ Range(D) = Dops
  <2>1. D \in Seq(Dops)
    OBVIOUS
  <2>2. Dops \subseteq S
    BY <1>2
  <2>3. Len(D) = 2 /\ \A i \in 1 .. Len(D) : D[i].op \in {"absent", "mkdirs"}
    BY DEF Do
  <2>4. D \in Seq(S)
    BY <2>1, <2>2, SeqMonotonic
  <2>5. D \in Fitting(S)
    BY <2>3, <2>4, PlainFits
  <2>6. Range(D) = Dops
    <3>1. Range(D) = {D[i] : i \in 1 .. 2}
      BY <2>1, <2>3, RangeEquality
    <3>2. Dops = {D[1], D[2]}
      OBVIOUS
    <3> HIDE DEF D, Dops
    <3> QED
      BY <3>1, <3>2
  <2> QED
    BY <2>5, <2>6
<1>6. G \in Fitting(S) /\ Range(G) = X
  <2>1. X \subseteq S
    BY <1>2
  <2> QED
    BY <2>1, FixturesFit
<1>7. L \in Fitting(S) /\ Range(L) = {Do("load", StateFile)}
  <2>1. L \in Seq(S) /\ Len(L) = 1
    BY <1>2
  <2>2. \A i \in 1 .. Len(L) : L[i].op = "load"
    BY DEF Do
  <2>3. L \in Fitting(S)
    BY <2>1, <2>2, PlainFits
  <2>4. Range(L) = {L[i] : i \in 1 .. 1}
    BY <2>1, RangeEquality
  <2>5. L[1] = Do("load", StateFile)
    OBVIOUS
  <2> HIDE DEF L
  <2> QED
    BY <2>3, <2>4, <2>5
<1>8. W \in Fitting(S) /\ Range(W) = T
  <2>1. T \subseteq S
    BY <1>2
  <2> QED
    BY <2>1, StateFits
<1>9. /\ (FirstOps \cup P) \cap X = {}
      /\ ({Do("load", StateFile)} \cup T) \cap X = {}
      /\ (FirstOps \cup P \cup Dops \cup X \cup {Do("load", StateFile)}) \cap T = {}
  <2>1. \A y \in T : \/ y.op = "label"
                     \/ y.path = Temporary(StateFile)
                     \/ y.op \in {"save", "replace"}
    BY DEF StateOps, Label, Do
  <2>2. \A y \in FirstOps : y.op \in {"absent", "mkdir"} /\ y.path \in {Proofs, Scripts, Fixtures}
    BY DEF FirstOps, Do
  <2>3. \A y \in Dops : y.op \in {"absent", "mkdirs"} /\ y.path = Fixtures
    BY DEF Do
  <2>4. \A a : \A y \in ProofOps(a) :
          /\ y.op \in {"absent", "read", "mkdir", "open", "make"}
          /\ \/ y.path = Deployment \/ y.path = Input(a)
             \/ y.path = <<"proofs", a>> \/ y.path = Proof(a)
             \/ y.path = Verified(a) \/ y.path = ScriptOf(a)
    BY DEF ProofOps, Do
  <2>5. \A a : \A y \in FixtureOps(a) :
          \/ y.op = "mkdir" /\ y.path = <<"fixtures", a>>
          \/ \E name \in FixtureNames :
               y.op \in {"open", "copy"} /\ y.path = Fixture(a, name)
    BY DEF FixtureOps, Do, CopyOf
  <2>6. \A y \in X : \E a \in Act : \/ y.path = <<"fixtures", a>>
                                    \/ \E name : y.path = Fixture(a, name)
    BY <2>5
  <2>7. \A y \in X : y.op \in {"mkdir", "open", "copy"}
    BY <2>5
  <2>8. \A y \in P : \E a \in Act : \/ y.path = Deployment \/ y.path = Input(a)
             \/ y.path = <<"proofs", a>> \/ y.path = Proof(a)
             \/ y.path = Verified(a) \/ y.path = ScriptOf(a)
    BY <2>4
  <2>9. \A y \in P : y.op \in {"absent", "read", "mkdir", "open", "make"}
    BY <2>4
  <2>10. /\ Do("load", StateFile).op = "load" /\ Temporary(StateFile) = <<"state.json.new">>
    BY Temporaries DEF Do
  <2> HIDE DEF P, X, T, Dops
  <2>11. (FirstOps \cup P) \cap X = {}
    BY <2>2, <2>6, <2>8 DEF Proofs, Scripts, Fixtures, Deployment, Input, Proof,
      Verified, ScriptOf, Fixture
  <2>12. ({Do("load", StateFile)} \cup T) \cap X = {}
    <3>1. \A y \in T : y \notin X
      BY <2>1, <2>6, <2>7, <2>10 DEF Fixture
    <3> QED
      BY <2>7, <2>10, <3>1
  <2>13. \A y \in T : y \notin FirstOps /\ y \notin P /\ y \notin Dops
    BY <2>1, <2>2, <2>3, <2>8, <2>9, <2>10 DEF Proofs, Scripts, Fixtures, Deployment,
      Input, Proof, Verified, ScriptOf
  <2>14. Do("load", StateFile) \notin T
    BY <2>1, <2>10 DEF Do, StateFile
  <2> QED
    BY <2>11, <2>12, <2>13, <2>14
<1> HIDE DEF H, F, D, G, L, W, P, X, Dops, T, S
<1> DEFINE s1 == H \o F
           s2 == D \o G
           s3 == s1 \o s2
           s4 == s3 \o L
           s5 == s4 \o W
<1>10. /\ s1 \in Fitting(S) /\ Range(s1) = FirstOps \cup P
       /\ \A k \in 1 .. 5 : s1[k] = H[k]
       /\ Len(s1) \in Nat /\ Len(s1) >= 5
  <2>1. /\ s1 \in Fitting(S) /\ Range(s1) = Range(H) \cup Range(F)
        /\ \A k \in 1 .. Len(H) : s1[k] = H[k]
        /\ Len(s1) = Len(H) + Len(F) /\ Len(F) \in Nat
    BY <1>3, <1>4, PartsFit, Zenon
  <2>2. Range(s1) = FirstOps \cup P
    BY <1>3, <1>4, <2>1, Zenon
  <2> HIDE DEF s1
  <2> QED
    BY <1>3, <2>1, <2>2
<1>11. s2 \in Fitting(S) /\ Range(s2) = Dops \cup X
  <2>1. s2 \in Fitting(S) /\ Range(s2) = Range(D) \cup Range(G)
    BY <1>5, <1>6, PartsFit, Zenon
  <2> QED
    BY <1>5, <1>6, <2>1, Zenon
<1> HIDE DEF s1, s2
<1>12. /\ s3 \in Fitting(S) /\ Range(s3) = (FirstOps \cup P) \cup (Dops \cup X)
       /\ \A y \in P : Precedes(s3, y, X)
       /\ \A k \in 1 .. 5 : s3[k] = H[k]
       /\ Len(s3) \in Nat /\ Len(s3) >= 5
  <2>1. /\ s3 \in Fitting(S) /\ Range(s3) = Range(s1) \cup Range(s2)
        /\ \A y : y \in Range(s1) /\ Range(s1) \cap X = {} => Precedes(s3, y, X)
        /\ \A k \in 1 .. Len(s1) : s3[k] = s1[k]
        /\ Len(s3) = Len(s1) + Len(s2) /\ Len(s2) \in Nat
    BY <1>10, <1>11, PartsFit, Zenon
  <2>2. Range(s3) = (FirstOps \cup P) \cup (Dops \cup X)
    BY <1>10, <1>11, <2>1, Zenon
  <2>3. Range(s1) = FirstOps \cup P
    BY <1>10
  <2>4. \A y \in P : Precedes(s3, y, X)
    BY <1>9, <2>1, <2>3, Zenon
  <2> HIDE DEF s3
  <2>5. (\A k \in 1 .. 5 : s3[k] = H[k]) /\ Len(s3) \in Nat /\ Len(s3) >= 5
    BY <1>10, <2>1
  <2> QED
    BY <2>1, <2>2, <2>4, <2>5
<1> HIDE DEF s3
<1>13. /\ s4 \in Fitting(S)
       /\ Range(s4) = (FirstOps \cup P) \cup (Dops \cup X) \cup {Do("load", StateFile)}
       /\ \A y \in P : Precedes(s4, y, X)
       /\ \A k \in 1 .. 5 : s4[k] = H[k]
       /\ Len(s4) \in Nat /\ Len(s4) >= 5
  <2>1. /\ s4 \in Fitting(S) /\ Range(s4) = Range(s3) \cup Range(L)
        /\ \A y : Precedes(s3, y, X) /\ Range(L) \cap X = {} => Precedes(s4, y, X)
        /\ \A k \in 1 .. Len(s3) : s4[k] = s3[k]
        /\ Len(s4) = Len(s3) + Len(L) /\ Len(L) \in Nat
    <3>1. s3 \in Fitting(S) /\ L \in Fitting(S)
      BY <1>7, <1>12
    <3> QED
      BY <3>1, PartsFit, Zenon
  <2>2. Range(s4) = (FirstOps \cup P) \cup (Dops \cup X) \cup {Do("load", StateFile)}
    BY <1>7, <1>12, <2>1, Zenon
  <2>3. Range(L) \cap X = {}
    BY <1>7, <1>9
  <2>4. \A y \in P : Precedes(s4, y, X)
    BY <1>12, <2>1, <2>3, Zenon
  <2> HIDE DEF s4
  <2>5. (\A k \in 1 .. 5 : s4[k] = H[k]) /\ Len(s4) \in Nat /\ Len(s4) >= 5
    BY <1>12, <2>1
  <2> QED
    BY <2>1, <2>2, <2>4, <2>5
<1> HIDE DEF s4
<1>14. /\ s5 \in Fitting(S)
       /\ Range(s5) = Range(s4) \cup T
       /\ \A y \in P : Precedes(s5, y, X)
       /\ \A y \in Range(s4) : Precedes(s5, y, T)
       /\ \A k \in 1 .. 5 : s5[k] = H[k]
       /\ Len(s5) >= 4
  <2>1. /\ s5 \in Fitting(S) /\ Range(s5) = Range(s4) \cup Range(W)
        /\ \A y : Precedes(s4, y, X) /\ Range(W) \cap X = {} => Precedes(s5, y, X)
        /\ \A y : y \in Range(s4) /\ Range(s4) \cap T = {} => Precedes(s5, y, T)
        /\ \A k \in 1 .. Len(s4) : s5[k] = s4[k]
        /\ Len(s5) = Len(s4) + Len(W) /\ Len(W) \in Nat
    BY <1>8, <1>13, PartsFit, Zenon
  <2>2. Range(s5) = Range(s4) \cup T
    BY <1>8, <2>1, Zenon
  <2>3. Range(W) \cap X = {} /\ Range(s4) \cap T = {}
    BY <1>8, <1>9, <1>13
  <2>4. \A y \in P : Precedes(s5, y, X)
    BY <1>13, <2>1, <2>3, Zenon
  <2>5. \A y \in Range(s4) : Precedes(s5, y, T)
    BY <2>1, <2>3, Zenon
  <2> HIDE DEF s5
  <2>6. (\A k \in 1 .. 5 : s5[k] = H[k]) /\ Len(s5) >= 4
    BY <1>13, <2>1
  <2> QED
    BY <2>1, <2>2, <2>4, <2>5, <2>6
<1>15. ProveSteps = s5
  BY <1>1, Zenon DEF s1, s2, s3, s4
<1> HIDE DEF s5
<1>16. Range(s5) = S
  BY <1>2, <1>13, <1>14
<1>17. \A y \in X \cup {Do("load", StateFile)} : y \in Range(s4)
  BY <1>13
<1>18. \A y \in X \cup {Do("load", StateFile)} : Precedes(s5, y, T)
  BY <1>14, <1>17, Zenon
<1>19. /\ s5[1] = Do("absent", Proofs) /\ s5[2] = Do("absent", Scripts)
       /\ s5[3] = Do("absent", Fixtures) /\ s5[4] = Do("mkdir", Proofs)
  BY <1>3, <1>14
<1>20. ReplacesLast(s5)
  <2>1. s4 \in Seq(S) /\ Range(s4) \cap StateOps("proved") = {}
    BY <1>9, <1>13 DEF Fitting, T
  <2> QED
    BY <2>1, StateLast DEF W, s5
<1> QED
  BY <1>14, <1>15, <1>16, <1>18, <1>19, <1>20, Zenon DEF P, X, T, S

\* submit: every fixture is read before the result is made, and the result
\* before the state file.
LEMMA SubmitSteps_Fit ==
  LET s == SubmitSteps
  IN  /\ s \in Fitting(SubmitOps) /\ Range(s) = SubmitOps
      /\ \A y \in UNION {ReadOps(a) : a \in Act} :
           Precedes(s, y, {Do("open", Result), Do("make", Result)})
      /\ \A y \in {Do("make", Result), Do("load", StateFile), Do("read", Result)} :
           Precedes(s, y, StateOps("mined"))
<1> DEFINE A == <<Do("absent", Result)>>
           F == <<Do("read", Fixture(Actions[1], "script.json"))>>
           G == ForAll(ReadSteps)
           Q == A \o Write(Result)
           L == <<Do("load", StateFile), Do("read", Result)>>
           W == WriteState("mined")
           R == UNION {ReadOps(a) : a \in Act}
           Lops == {Do("load", StateFile), Do("read", Result)}
           X == {Do("open", Result), Do("make", Result)}
           T == StateOps("mined")
           S == SubmitOps
<1>1. S = {Do("absent", Result)} \cup R \cup ResultOps \cup Lops \cup T
  BY DEF SubmitOps
<1>2. A \in Fitting(S) /\ Range(A) = {Do("absent", Result)} /\ A \in Seq(S)
  <2>1. A \in Seq(S) /\ Len(A) = 1
    BY <1>1
  <2>2. \A i \in 1 .. Len(A) : A[i].op = "absent"
    BY DEF Do
  <2>3. A \in Fitting(S)
    BY <2>1, <2>2, PlainFits
  <2>4. Range(A) = {A[i] : i \in 1 .. 1}
    BY <2>1, RangeEquality
  <2>5. A[1] = Do("absent", Result)
    OBVIOUS
  <2> HIDE DEF A
  <2> QED
    BY <2>1, <2>3, <2>4, <2>5
<1>3. F \in Fitting(S) /\ Range(F) \subseteq R
  <2>1. Actions[1] \in Act
    <3>1. Len(Actions) \in Nat \ {0} /\ DOMAIN Actions = 1 .. Len(Actions)
      BY LifecycleAssumption, LenProperties, EmptySeq
    <3> QED
      BY <3>1 DEF Act
  <2>2. Do("read", Fixture(Actions[1], "script.json")) \in R
    BY <2>1 DEF ReadOps
  <2>3. F \in Seq(R) /\ R \subseteq S
    BY <1>1, <2>2
  <2>4. Len(F) = 1 /\ \A i \in 1 .. Len(F) : F[i].op = "read"
    BY DEF Do
  <2> HIDE DEF F, R
  <2>5. F \in Seq(S)
    BY <2>3, SeqMonotonic
  <2>6. F \in Fitting(S)
    BY <2>4, <2>5, PlainFits
  <2> QED
    BY <2>3, <2>6, RangeOfSeq
<1>4. G \in Fitting(S) /\ Range(G) = R
  <2>1. R \subseteq S
    BY <1>1
  <2> QED
    BY <2>1, ReadsFit
<1>5. Q \in Fitting(S) /\ Range(Q) = ResultOps
  <2>1. {Do("absent", Result), Do("open", Result), Do("make", Result)} \subseteq S
    BY <1>1 DEF ResultOps
  <2> QED
    BY <2>1, ResultFits DEF ResultOps
<1>6. L \in Fitting(S) /\ Range(L) = Lops
  <2>1. L \in Seq(Lops)
    OBVIOUS
  <2>2. Lops \subseteq S
    BY <1>1
  <2>3. Len(L) = 2 /\ \A i \in 1 .. Len(L) : L[i].op \in {"load", "read"}
    BY DEF Do
  <2>4. L \in Seq(S)
    BY <2>1, <2>2, SeqMonotonic
  <2>5. L \in Fitting(S)
    BY <2>3, <2>4, PlainFits
  <2>6. Range(L) = Lops
    <3>1. Range(L) = {L[i] : i \in 1 .. 2}
      BY <2>1, <2>3, RangeEquality
    <3>2. Lops = {L[1], L[2]}
      OBVIOUS
    <3> HIDE DEF L, Lops
    <3> QED
      BY <3>1, <3>2
  <2> QED
    BY <2>5, <2>6
<1>7. W \in Fitting(S) /\ Range(W) = T
  <2>1. T \subseteq S
    BY <1>1
  <2> QED
    BY <2>1, StateFits
<1>8. /\ ({Do("absent", Result)} \cup R) \cap X = {}
      /\ (Lops \cup T) \cap X = {}
      /\ ({Do("absent", Result)} \cup R \cup ResultOps \cup Lops) \cap T = {}
  <2>1. \A y \in T : \/ y.op = "label"
                     \/ y.op = "open" /\ y.path = Temporary(StateFile)
                     \/ y.op \in {"save", "replace"}
    BY DEF StateOps, Label, Do
  <2>2. \A y \in R : y.op = "read"
    BY DEF ReadOps, Do
  <2>3. \A y \in {Do("absent", Result)} \cup ResultOps \cup Lops :
          \/ y.op \in {"absent", "load", "read", "make"}
          \/ y.op = "open" /\ y.path = Result
    BY DEF ResultOps, Do
  <2>4. \A y \in X : y.op \in {"open", "make"} /\ y.path = Result
    BY DEF Do
  <2>5. \A y \in {Do("absent", Result)} \cup Lops : y.op \in {"absent", "load", "read"}
    BY DEF Do
  <2>6. Temporary(StateFile) # Result
    BY Temporaries DEF Result
  <2> HIDE DEF R, X, T, Lops
  <2> QED
    BY <2>1, <2>2, <2>3, <2>4, <2>5, <2>6
<1> DEFINE P == F \o G
           s1 == A \o P
           s2 == s1 \o Q
           s3 == s2 \o L
           s4 == s3 \o W
<1>9. SubmitSteps = ((((A \o P) \o A) \o Write(Result)) \o L) \o W
  BY DEF SubmitSteps, LoadProofs, ReadSteps, ForAll
<1>10. P \in Fitting(S) /\ Range(P) = R
  <2> HIDE DEF F, G, R, S
  <2>1. P \in Fitting(S) /\ Range(P) = Range(F) \cup Range(G)
    BY <1>3, <1>4, PartsFit, Zenon
  <2> HIDE DEF P
  <2> QED
    BY <1>3, <1>4, <2>1
<1>11. Write(Result) \in Seq(S)
  <2>1. /\ Do("open", Result) \in S /\ Do("make", Result) \in S
    BY <1>1 DEF ResultOps
  <2> HIDE DEF S
  <2> QED
    BY <2>1 DEF Write
<1> HIDE DEF F, G, L, W, R, X, Lops, T, S, P
<1>12. s1 \in Fitting(S) /\ Range(s1) = {Do("absent", Result)} \cup R
  <2>1. A \in Fitting(S) /\ P \in Fitting(S)
    BY <1>2, <1>10
  <2> HIDE DEF A
  <2>2. s1 \in Fitting(S) /\ Range(s1) = Range(A) \cup Range(P)
    BY <2>1, PartsFit, Zenon
  <2> QED
    BY <1>2, <1>10, <2>2
<1> HIDE DEF s1
<1>13. SubmitSteps = s4
  <2>1. (s1 \o A) \o Write(Result) = s1 \o Q
    <3>1. s1 \in Seq(S) /\ A \in Seq(S) /\ Write(Result) \in Seq(S)
      BY <1>2, <1>11, <1>12 DEF Fitting
    <3> HIDE DEF A
    <3> QED
      BY <3>1, ConcatAssociative
  <2> HIDE DEF A, Q
  <2> QED
    BY <1>9, <2>1, Zenon DEF s1, s2, s3, s4
<1> HIDE DEF A, Q
<1>14. /\ s2 \in Fitting(S)
       /\ Range(s2) = {Do("absent", Result)} \cup R \cup ResultOps
       /\ \A y \in R : Precedes(s2, y, X)
  <2>1. s1 \in Fitting(S) /\ Q \in Fitting(S)
    BY <1>5, <1>12
  <2>2. /\ s2 \in Fitting(S) /\ Range(s2) = Range(s1) \cup Range(Q)
        /\ \A y : y \in Range(s1) /\ Range(s1) \cap X = {} => Precedes(s2, y, X)
    BY <2>1, PartsFit, Zenon
  <2>3. Range(s2) = {Do("absent", Result)} \cup R \cup ResultOps
    BY <1>5, <1>12, <2>2, Zenon
  <2>4. \A y \in R : y \in Range(s1)
    BY <1>12
  <2>5. Range(s1) \cap X = {}
    BY <1>8, <1>12
  <2> QED
    BY <2>2, <2>3, <2>4, <2>5, Zenon
<1> HIDE DEF s2
<1>15. /\ s3 \in Fitting(S)
       /\ Range(s3) = {Do("absent", Result)} \cup R \cup ResultOps \cup Lops
       /\ \A y \in R : Precedes(s3, y, X)
  <2>1. s2 \in Fitting(S) /\ L \in Fitting(S)
    BY <1>6, <1>14
  <2>2. /\ s3 \in Fitting(S) /\ Range(s3) = Range(s2) \cup Range(L)
        /\ \A y : Precedes(s2, y, X) /\ Range(L) \cap X = {} => Precedes(s3, y, X)
    BY <2>1, PartsFit, Zenon
  <2>3. Range(s3) = {Do("absent", Result)} \cup R \cup ResultOps \cup Lops
    BY <1>6, <1>14, <2>2, Zenon
  <2>4. Range(L) \cap X = {}
    BY <1>6, <1>8
  <2> QED
    BY <1>14, <2>2, <2>3, <2>4, Zenon
<1> HIDE DEF s3
<1>16. /\ s4 \in Fitting(S)
       /\ Range(s4) = Range(s3) \cup T
       /\ \A y \in R : Precedes(s4, y, X)
       /\ \A y \in Range(s3) : Precedes(s4, y, T)
  <2>1. s3 \in Fitting(S) /\ W \in Fitting(S)
    BY <1>7, <1>15
  <2>2. /\ s4 \in Fitting(S) /\ Range(s4) = Range(s3) \cup Range(W)
        /\ \A y : Precedes(s3, y, X) /\ Range(W) \cap X = {} => Precedes(s4, y, X)
        /\ \A y : y \in Range(s3) /\ Range(s3) \cap T = {} => Precedes(s4, y, T)
    BY <2>1, PartsFit, Zenon
  <2>3. Range(s4) = Range(s3) \cup T
    BY <1>7, <2>2, Zenon
  <2>4. Range(W) \cap X = {}
    BY <1>7, <1>8
  <2>5. Range(s3) \cap T = {}
    BY <1>8, <1>15
  <2> QED
    BY <1>15, <2>2, <2>3, <2>4, <2>5, Zenon
<1> HIDE DEF s4
<1>17. Range(s4) = S
  BY <1>1, <1>15, <1>16
<1>18. \A y \in {Do("make", Result), Do("load", StateFile), Do("read", Result)} :
         y \in Range(s3)
  BY <1>15 DEF ResultOps, Lops
<1>19. \A y \in {Do("make", Result), Do("load", StateFile), Do("read", Result)} :
         Precedes(s4, y, T)
  BY <1>16, <1>18, Zenon
<1> QED
  BY <1>13, <1>16, <1>17, <1>19, Zenon DEF R, X, T, S

-----------------------------------------------------------------------------
(* What every step of a command is                                         *)

\* What genesis does in a directory it made, and prove in one it made.
WorkOps ==
  (HeadOps \ {Do("absent", Work)}) \cup (UNION {RequestOps(a) : a \in Act})

ProvingOps ==
  {Do("mkdir", Proofs), Do("mkdir", Scripts)}
  \cup (UNION {ProofOps(a) : a \in Act}) \cup (UNION {FixtureOps(a) : a \in Act})

Temps == {Temporary(path) : path \in Requests \cup {StateFile}}

StatusOf(command) ==
  CASE command = "genesis" -> "prepared"
    [] command = "prove" -> "proved"
    [] command = "submit" -> "mined"

\* A step's path, by its kind.
LEMMA StepForms ==
  ASSUME NEW c \in Commands, NEW x \in OpsOf(c)
  PROVE  /\ x.op \in {"absent", "read", "load", "mkdir", "mkdirs", "open", "make",
                      "copy", "save", "replace", "label"}
         /\ x.op \in {"absent", "read", "mkdir", "mkdirs", "open", "make", "replace"} =>
              x = Do(x.op, x.path)
         /\ x.op \in {"mkdir", "mkdirs"} => x.path \in Directories
         /\ x.op = "open" =>
              x.path \in Once \cup {Result} \cup {Verified(a) : a \in Act} \cup Temps
         /\ x.op = "make" =>
              x.path \in Once \cup {Result} \cup {Verified(a) : a \in Act} \cup Requests
         /\ x.op = "copy" => \E a \in Act, name \in FixtureNames : x = CopyOf(a, name)
         /\ x.op \in {"save", "load"} => x = Do(x.op, StateFile)
         /\ x.op = "replace" => x.path \in Requests \cup {StateFile}
         /\ x.op = "label" => x = Label(StatusOf(c))
<1> DEFINE Form ==
         /\ x.op \in {"absent", "read", "load", "mkdir", "mkdirs", "open", "make",
                      "copy", "save", "replace", "label"}
         /\ x.op \in {"absent", "read", "mkdir", "mkdirs", "open", "make", "replace"} =>
              x = Do(x.op, x.path)
         /\ x.op \in {"mkdir", "mkdirs"} => x.path \in Directories
         /\ x.op = "open" =>
              x.path \in Once \cup {Result} \cup {Verified(a) : a \in Act} \cup Temps
         /\ x.op = "make" =>
              x.path \in Once \cup {Result} \cup {Verified(a) : a \in Act} \cup Requests
         /\ x.op = "copy" => \E a \in Act, name \in FixtureNames : x = CopyOf(a, name)
         /\ x.op \in {"save", "load"} => x = Do(x.op, StateFile)
         /\ x.op = "replace" => x.path \in Requests \cup {StateFile}
         /\ x.op = "label" => x = Label(StatusOf(c))
<1> SUFFICES Form
  OBVIOUS
<1>1. /\ Deployment \in Once /\ Scenario \in Once
      /\ \A a \in Act : /\ Input(a) \in Once /\ Proof(a) \in Once /\ ScriptOf(a) \in Once
                        /\ \A name \in FixtureNames : Fixture(a, name) \in Once
                        /\ Temporary(Request(a)) \in Temps /\ Request(a) \in Requests
      /\ Temporary(StateFile) \in Temps
  BY DEF Once, GenesisFiles, ProveFiles, Temps, Requests
<1>2. CASE x \in HeadOps \cup FirstOps \cup {Do("absent", Fixtures), Do("mkdirs", Fixtures)}
  BY <1>1, <1>2 DEF HeadOps, FirstOps, Do, Directories
<1>3. CASE x \in UNION {RequestOps(a) : a \in Act}
  <2>1. PICK a \in Act : x \in RequestOps(a)
    BY <1>3
  <2> QED
    BY <1>1, <2>1 DEF RequestOps, Do, Directories
<1>4. CASE x \in UNION {ProofOps(a) : a \in Act}
  <2>1. PICK a \in Act : x \in ProofOps(a)
    BY <1>4
  <2> QED
    BY <1>1, <2>1 DEF ProofOps, Do, Directories
<1>5. CASE x \in UNION {FixtureOps(a) : a \in Act}
  <2>1. PICK a \in Act : x \in FixtureOps(a)
    BY <1>5
  <2>2. CASE x = Do("mkdir", <<"fixtures", a>>)
    BY <2>2 DEF Do, Directories
  <2>3. CASE \E name \in FixtureNames : x = Do("open", Fixture(a, name))
    BY <1>1, <2>3 DEF Do
  <2>4. CASE \E name \in FixtureNames : x = CopyOf(a, name)
    <3>1. x.op = "copy"
      BY <2>4 DEF CopyOf
    <3> QED
      BY <2>4, <3>1
  <2> QED
    BY <2>1, <2>2, <2>3, <2>4 DEF FixtureOps
<1>6. CASE x \in UNION {ReadOps(a) : a \in Act}
  BY <1>6 DEF ReadOps, Do
<1>7. CASE x \in ResultOps \cup {Do("load", StateFile), Do("read", Result)}
  BY <1>7 DEF ResultOps, Do
<1>8. CASE x \in StateOps(StatusOf(c))
  <2>1. CASE x = Label(StatusOf(c))
    <3>1. x.op = "label"
      BY <2>1 DEF Label
    <3> QED
      BY <2>1, <3>1
  <2>2. CASE x # Label(StatusOf(c))
    BY <1>1, <1>8, <2>2 DEF StateOps, Do
  <2> QED
    BY <2>1, <2>2
<1>9. \/ x \in HeadOps \cup FirstOps \cup {Do("absent", Fixtures), Do("mkdirs", Fixtures)}
      \/ x \in UNION {RequestOps(a) : a \in Act}
      \/ x \in UNION {ProofOps(a) : a \in Act}
      \/ x \in UNION {FixtureOps(a) : a \in Act}
      \/ x \in UNION {ReadOps(a) : a \in Act}
      \/ x \in ResultOps \cup {Do("load", StateFile), Do("read", Result)}
      \/ x \in StateOps(StatusOf(c))
  <2>1. CASE c = "genesis"
    <3>1. OpsOf(c) = GenesisOps /\ StatusOf(c) = "prepared"
      BY <2>1 DEF OpsOf, StatusOf
    <3> QED
      BY <3>1 DEF GenesisOps
  <2>2. CASE c = "prove"
    <3>1. OpsOf(c) = ProveOps /\ StatusOf(c) = "proved"
      BY <2>2 DEF OpsOf, StatusOf
    <3> QED
      BY <3>1 DEF ProveOps
  <2>3. CASE c = "submit"
    <3>1. OpsOf(c) = SubmitOps /\ StatusOf(c) = "mined"
      BY <2>3 DEF OpsOf, StatusOf
    <3> QED
      BY <3>1 DEF SubmitOps, ResultOps
  <2> QED
    BY <2>1, <2>2, <2>3 DEF Commands
<1> HIDE DEF Form
<1> QED
  BY <1>2, <1>3, <1>4, <1>5, <1>6, <1>7, <1>8, <1>9, Zenon

\* A command's steps fit together.
LEMMA CommandFits ==
  ASSUME NEW c \in Commands
  PROVE  /\ Steps(c) \in Fitting(OpsOf(c)) /\ Range(Steps(c)) = OpsOf(c)
         /\ Len(Steps(c)) \in Nat
         /\ \A k \in 1 .. Len(Steps(c)) : Steps(c)[k] \in OpsOf(c)
<1>1. Steps(c) \in Fitting(OpsOf(c)) /\ Range(Steps(c)) = OpsOf(c)
  <2>1. c = "genesis" => Steps(c) = GenesisSteps /\ OpsOf(c) = GenesisOps
    BY DEF Steps, OpsOf
  <2>2. c = "prove" => Steps(c) = ProveSteps /\ OpsOf(c) = ProveOps
    BY DEF Steps, OpsOf
  <2>3. c = "submit" => Steps(c) = SubmitSteps /\ OpsOf(c) = SubmitOps
    BY DEF Steps, OpsOf
  <2>4. c \in {"genesis", "prove", "submit"}
    BY DEF Commands
  <2>5. /\ GenesisSteps \in Fitting(GenesisOps) /\ Range(GenesisSteps) = GenesisOps
        /\ ProveSteps \in Fitting(ProveOps) /\ Range(ProveSteps) = ProveOps
        /\ SubmitSteps \in Fitting(SubmitOps) /\ Range(SubmitSteps) = SubmitOps
    BY GenesisSteps_Fit, ProveSteps_Fit, SubmitSteps_Fit, Zenon
  <2> QED
    BY <2>1, <2>2, <2>3, <2>4, <2>5
<1>2. Steps(c) \in Seq(OpsOf(c))
  BY <1>1 DEF Fitting
<1> QED
  BY <1>1, <1>2, LenProperties, ElementOfSeq

\* The steps that only genesis has, and only after it made the work directory,
\* and those of prove.
LEMMA Owned ==
  ASSUME NEW c \in Commands, NEW k \in 1 .. Len(Steps(c))
  PROVE  LET s == Steps(c)
         IN  /\ s[k] \in WorkOps =>
                  c = "genesis" /\ Since(s, k + 1, {Do("mkdir", Work)}, {})
             /\ s[k] \in ProvingOps =>
                  c = "prove" /\ Since(s, k + 1, {Do("mkdir", Proofs)}, {})
<1> DEFINE s == Steps(c)
<1>1. s[k] \in OpsOf(c) /\ Len(s) \in Nat
  BY CommandFits
<1>2. /\ WorkOps \cap ProveOps = {} /\ WorkOps \cap SubmitOps = {}
      /\ ProvingOps \cap GenesisOps = {} /\ ProvingOps \cap SubmitOps = {}
  <2> DEFINE Founding(x) ==
               \/ x.op = "read" /\ (x.path = Scenario \/ \E a : x.path = Request(a))
               \/ /\ x.op \in {"mkdir", "absent", "open", "make", "replace"}
                  /\ \/ x.path = Work
                     \/ x.path[1] \in {"inputs", "deployment", "scenario.json"}
             Proving(x) ==
               \/ x.op = "read" /\ \E a : \/ x.path = Input(a) \/ x.path = Proof(a)
                                          \/ x.path = Verified(a) \/ x.path = Deployment
               \/ /\ x.op \in {"mkdir", "absent", "open", "make", "copy"}
                  /\ x.path # Work
                  /\ x.path[1] \in {"proofs", "scripts", "fixtures"}
             Stating(x) ==
               \/ x.op \in {"label", "save"}
               \/ x.op \in {"open", "replace"} /\ x.path # Work
                  /\ x.path[1] \in {"state.json", "state.json.new"}
             Submitting(x) ==
               \/ x.op = "load"
               \/ x.path # Work /\ x.path[1] = "result.json"
               \/ x.op = "read" /\ \E a, name : x.path = Fixture(a, name)
             Starting(x) ==
               \/ x.op = "load"
               \/ x.op \in {"absent", "mkdir", "mkdirs"}
                  /\ x.path \in {Proofs, Scripts, Fixtures}
  <2>1. \A x \in WorkOps : Founding(x)
    <3>1. ASSUME NEW x \in HeadOps, x # Do("absent", Work)
          PROVE  Founding(x)
      BY <3>1 DEF HeadOps, Do, Inputs, DeploymentDir, Deployment, Scenario
    <3>2. ASSUME NEW a \in Act, NEW x \in RequestOps(a)
          PROVE  Founding(x)
      BY <3>2, Temporaries DEF RequestOps, Do, Input, Request
    <3> HIDE DEF Founding
    <3> QED
      BY <3>1, <3>2 DEF WorkOps
  <2>2. \A x \in ProvingOps : Proving(x)
    <3>1. ASSUME NEW x \in {Do("mkdir", Proofs), Do("mkdir", Scripts)}
          PROVE  Proving(x)
      BY <3>1 DEF Do, Proofs, Scripts, Work
    <3>2. ASSUME NEW a \in Act, NEW x \in ProofOps(a)
          PROVE  Proving(x)
      BY <3>2 DEF ProofOps, Do, Work, Proof, Verified, ScriptOf
    <3>3. ASSUME NEW a \in Act, NEW x \in FixtureOps(a)
          PROVE  Proving(x)
      BY <3>3 DEF FixtureOps, Do, CopyOf, Work, Fixture
    <3> HIDE DEF Proving
    <3> QED
      BY <3>1, <3>2, <3>3 DEF ProvingOps
  <2>3. \A status : \A x \in StateOps(status) : Stating(x)
    BY Temporaries DEF StateOps, Label, Do, StateFile, Work
  <2>4. \A x \in SubmitOps : Stating(x) \/ Submitting(x)
    <3>1. ASSUME NEW x \in {Do("absent", Result)} \cup ResultOps
                           \cup {Do("load", StateFile), Do("read", Result)}
          PROVE  Submitting(x)
      BY <3>1 DEF ResultOps, Do, Result, Work
    <3>2. ASSUME NEW a \in Act, NEW x \in ReadOps(a)
          PROVE  Submitting(x)
      BY <3>2 DEF ReadOps, Do
    <3> HIDE DEF Stating, Submitting
    <3> QED
      BY <2>3, <3>1, <3>2 DEF SubmitOps
  <2>5. \A x \in ProveOps : x \in ProvingOps \/ Stating(x) \/ Starting(x)
    <3>1. ASSUME NEW x \in FirstOps \cup {Do("absent", Fixtures), Do("mkdirs", Fixtures)}
                           \cup {Do("load", StateFile)}
          PROVE  Starting(x)
      BY <3>1 DEF FirstOps, Do
    <3> HIDE DEF Stating, Starting
    <3> QED
      BY <2>3, <3>1 DEF ProveOps, ProvingOps
  <2>6. \A x \in GenesisOps : x \in WorkOps \/ Stating(x) \/ x = Do("absent", Work)
    <3> HIDE DEF Stating
    <3> QED
      BY <2>3 DEF GenesisOps, WorkOps
  <2>7. \A x : /\ ~ (Founding(x) /\ Stating(x))
               /\ ~ (Proving(x) /\ Stating(x))
    BY DEF Work
  <2>8. \A x : ~ (Founding(x) /\ Starting(x))
    <3>1. \A path \in {Proofs, Scripts, Fixtures} :
            path # Work /\ path[1] \in {"proofs", "scripts", "fixtures"}
      BY DEF Work, Proofs, Scripts, Fixtures
    <3> QED
      BY <3>1
  <2>9. \A x : ~ (Founding(x) /\ Proving(x))
    BY DEF Scenario, Request, Input, Proof, Verified, Deployment
  <2>10. \A x : /\ ~ (Founding(x) /\ Submitting(x))
                /\ ~ (Proving(x) /\ Submitting(x))
    BY DEF Scenario, Request, Input, Proof, Verified, Deployment, Fixture, Work
  <2>11. ~ Proving(Do("absent", Work))
    BY DEF Do
  <2> HIDE DEF Founding, Proving, Stating, Submitting, Starting
  <2>12. \A x \in WorkOps : x \notin ProveOps /\ x \notin SubmitOps
    BY <2>1, <2>2, <2>4, <2>5, <2>7, <2>8, <2>9, <2>10
  <2>13. \A x \in ProvingOps : x \notin GenesisOps /\ x \notin SubmitOps
    BY <2>1, <2>2, <2>4, <2>6, <2>7, <2>9, <2>10, <2>11
  <2> QED
    BY <2>12, <2>13
<1>3. ASSUME s[k] \in WorkOps
      PROVE  c = "genesis" /\ Since(s, k + 1, {Do("mkdir", Work)}, {})
  <2>1. c = "genesis"
    BY <1>1, <1>2, <1>3 DEF Commands, OpsOf
  <2>2. s[1] = Do("absent", Work) /\ s[2] = Do("mkdir", Work)
    BY <2>1, GenesisSteps_Fit DEF Steps
  <2>3. Do("absent", Work) \notin WorkOps
    <3>1. \A a : \A x \in RequestOps(a) : x.path # Work
      BY Temporaries DEF RequestOps, Do, Work, Input, Request
    <3>2. Do("absent", Work).path = Work
      BY DEF Do
    <3> QED
      BY <3>1, <3>2 DEF WorkOps
  <2>4. 2 \in 1 .. (k + 1) - 1
    BY <1>1, <1>3, <2>2, <2>3
  <2> QED
    BY <2>1, <2>2, <2>4 DEF Since
<1>4. ASSUME s[k] \in ProvingOps
      PROVE  c = "prove" /\ Since(s, k + 1, {Do("mkdir", Proofs)}, {})
  <2>1. c = "prove"
    BY <1>1, <1>2, <1>4 DEF Commands, OpsOf
  <2>2. /\ s[1] = Do("absent", Proofs) /\ s[2] = Do("absent", Scripts)
        /\ s[3] = Do("absent", Fixtures) /\ s[4] = Do("mkdir", Proofs)
    BY <2>1, ProveSteps_Fit DEF Steps
  <2>3. /\ Do("absent", Proofs) \notin ProvingOps
        /\ Do("absent", Scripts) \notin ProvingOps
        /\ Do("absent", Fixtures) \notin ProvingOps
    <3>1. \A a : \A x \in ProofOps(a) :
            x.op = "absent" => x.path \in {<<"proofs", a>>, ScriptOf(a)}
      BY DEF ProofOps, Do
    <3>2. \A a : \A x \in FixtureOps(a) : x.op \in {"mkdir", "open", "copy"}
      BY DEF FixtureOps, Do, CopyOf
    <3>3. \A path : /\ Do("mkdir", path).op = "mkdir"
                   /\ Do("absent", path).op = "absent"
                   /\ Do("absent", path).path = path
      BY DEF Do
    <3>4. \A x \in ProvingOps : x.op = "absent" =>
            \E a : x.path \in {<<"proofs", a>>, ScriptOf(a)}
      BY <3>1, <3>2, <3>3 DEF ProvingOps
    <3>5. \A a : {Proofs, Scripts, Fixtures} \cap {<<"proofs", a>>, ScriptOf(a)} = {}
      BY DEF Proofs, Scripts, Fixtures, ScriptOf
    <3> QED
      BY <3>3, <3>4, <3>5
  <2>4. 4 \in 1 .. (k + 1) - 1
    BY <1>1, <1>4, <2>2, <2>3
  <2> QED
    BY <2>1, <2>2, <2>4 DEF Since
<1> QED
  BY <1>3, <1>4

-----------------------------------------------------------------------------
(* What a step of the system does                                          *)

StepsOf(r) == Steps(job[r].command)

Fields == {"command", "pc", "fd", "state"}

\* The jobs are the runs of commands, each somewhere in its steps.
Jobs ==
  /\ runs \in 0 .. MaxRuns
  /\ Running \subseteq 1 .. runs
  /\ job = [r \in Running |-> job[r]]
  /\ \A r \in Running :
       /\ DOMAIN job[r] = Fields
       /\ job[r].command \in Commands
       /\ job[r].pc \in 1 .. Len(StepsOf(r)) + 1

\* Where a descriptor is after another job's step.
Moved(step, fd) ==
  IF step.op # "replace" THEN fd
  ELSE IF fd = Temporary(step.path) THEN step.path
  ELSE IF fd = step.path THEN Closed ELSE fd

\* What a step writes, and the state that label makes.
Contents(r) ==
  CASE Current(r).op = "make" -> Made(r)
    [] Current(r).op = "copy" -> files[Current(r).source]
    [] Current(r).op = "save" -> job[r].state

Labelled(r) ==
  LET status == Current(r).status
      none == [k \in DOMAIN Actions |-> Missing]
      taken == [k \in DOMAIN Actions |-> files[Fixture(Actions[k], "proof.bin")]]
      loaded == job[r].state
  IN  CASE status = "prepared" -> State(status, none, Missing)
        [] status = "proved" -> State(status, taken, loaded.result)
        [] status = "mined" -> State(status, loaded.proofs, files[Result])

\* A job takes its next step.
Advances(r) ==
  LET step == Current(r)
  IN  /\ r \in Running /\ job[r].pc \in 1 .. Len(StepsOf(r)) /\ Possible(step)
      /\ runs' = runs /\ Running' = Running
      /\ \A q \in Running :
           /\ job'[q].command = job[q].command
           /\ job'[q].pc = IF q = r THEN job[q].pc + 1 ELSE job[q].pc
           /\ q # r => /\ job'[q].fd = Moved(step, job[q].fd)
                       /\ job'[q].state = job[q].state
      /\ job'[r].fd = IF step.op = "open" THEN step.path
                      ELSE IF step.op \in FillOps THEN Closed
                      ELSE Moved(step, job[r].fd)
      /\ job'[r].state = IF step.op = "load" THEN files[StateFile]
                         ELSE IF step.op = "label" THEN Labelled(r)
                         ELSE job[r].state
      /\ step.op \in {"absent", "read", "load", "label"} => files' = files
      /\ step.op \in {"mkdir", "mkdirs"} => files' = With(step.path, Directory)
      /\ step.op = "open" => files' = With(step.path, Torn)
      /\ step.op \in FillOps =>
           files' = IF job[r].fd = Closed THEN files ELSE With(job[r].fd, Contents(r))
      /\ step.op = "replace" =>
           LET target == step.path
               source == Temporary(target)
           IN  files' = Restrict(With(target, files[source]),
                                 (DOMAIN files \cup {target}) \ {source})

\* Jobs start and end, and nothing else changes.
Idles ==
  /\ files' = files
  /\ Running' \subseteq Running \cup {runs + 1}
  /\ \A q \in Running' :
       /\ q \in Running => job'[q] = job[q]
       /\ q \notin Running =>
            job'[q].pc = 1 /\ job'[q].fd = Closed /\ job'[q].state = Missing

\* The step of a job that renames nothing, on the jobs.
LEMMA AdvanceEffect ==
  ASSUME Jobs, NEW r \in Running, job[r].pc \in 1 .. Len(StepsOf(r)),
         NEW fd, NEW state, Advance(r, fd, state), runs' = runs
  PROVE  /\ Jobs' /\ Running' = Running
         /\ \A q \in Running :
              /\ job'[q].command = job[q].command
              /\ job'[q].pc = IF q = r THEN job[q].pc + 1 ELSE job[q].pc
              /\ q # r => job'[q].fd = job[q].fd /\ job'[q].state = job[q].state
         /\ job'[r].fd = fd /\ job'[r].state = state
<1>1. job = [q \in Running |-> job[q]] /\ \A q \in Running : DOMAIN job[q] = Fields
  BY DEF Jobs
<1>2. /\ job' = [q \in Running |-> job'[q]]
      /\ \A q \in Running : q # r => job'[q] = job[q]
      /\ job'[r] = [job[r] EXCEPT !.pc = @ + 1, !.fd = fd, !.state = state]
  BY <1>1 DEF Advance, Running
<1>3. Running' = Running
  BY <1>2 DEF Running
<1>4. /\ \A q \in Running :
           /\ job'[q].command = job[q].command
           /\ job'[q].pc = IF q = r THEN job[q].pc + 1 ELSE job[q].pc
           /\ q # r => job'[q].fd = job[q].fd /\ job'[q].state = job[q].state
      /\ job'[r].fd = fd /\ job'[r].state = state
      /\ DOMAIN job'[r] = Fields
  <2>1. /\ job'[r].command = job[r].command /\ job'[r].pc = job[r].pc + 1
        /\ job'[r].fd = fd /\ job'[r].state = state /\ DOMAIN job'[r] = Fields
    <3>1. DOMAIN job[r] = {"command", "pc", "fd", "state"}
      BY <1>1 DEF Fields
    <3> QED
      BY <1>2, <3>1 DEF Fields
  <2> QED
    BY <1>2, <2>1
<1>5. /\ job' = [q \in Running' |-> job'[q]]
      /\ \A q \in Running' : DOMAIN job'[q] = Fields
  BY <1>1, <1>2, <1>3, <1>4
<1>6. \A q \in Running' :
        /\ job'[q].command \in Commands
        /\ job'[q].pc \in 1 .. Len(StepsOf(q)') + 1
  <2>1. \A q \in Running : StepsOf(q)' = StepsOf(q)
    BY <1>4 DEF StepsOf
  <2>2. \A q \in Running : Len(StepsOf(q)) \in Nat
    BY CommandFits DEF StepsOf, Jobs
  <2>3. \A q \in Running : job[q].command \in Commands
                           /\ job[q].pc \in 1 .. Len(StepsOf(q)) + 1
    BY DEF Jobs
  <2> QED
    BY <1>3, <1>4, <2>1, <2>2, <2>3
<1>7. runs' \in 0 .. MaxRuns /\ Running' \subseteq 1 .. runs'
  BY <1>3 DEF Jobs
<1>8. Jobs'
  BY <1>5, <1>6, <1>7 DEF Jobs
<1> QED
  BY <1>3, <1>4, <1>8

\* Every step of the system is a job's next step, or changes no file.
LEMMA NextEffect ==
  ASSUME Jobs, Next
  PROVE  Jobs' /\ (Idles \/ \E r \in Running : Advances(r))
<1>1. /\ job = [q \in Running |-> job[q]]
      /\ \A q \in Running : DOMAIN job[q] = Fields
      /\ runs \in 0 .. MaxRuns /\ Running \subseteq 1 .. runs
      /\ \A q \in Running : /\ job[q].command \in Commands
                            /\ job[q].pc \in 1 .. Len(StepsOf(q)) + 1
      /\ MaxRuns \in Nat
  BY LifecycleAssumption DEF Jobs
<1>2. \A c \in Commands : Len(Steps(c)) \in Nat
  BY CommandFits
<1>3. ASSUME NEW command \in {"genesis", "prove", "submit"}, Invoke(command)
      PROVE  Jobs' /\ Idles
  <2> DEFINE one == [command |-> command, pc |-> 1, fd |-> Closed, state |-> Missing]
             new == [q \in Running \cup {runs + 1} |->
                       IF q \in Running THEN job[q] ELSE one]
  <2>1. /\ job' = new /\ files' = files /\ runs' = runs + 1 /\ runs < MaxRuns
    BY <1>3 DEF Invoke
  <2>2. Running' = Running \cup {runs + 1}
    BY <2>1 DEF Running
  <2>3. \A q \in Running' :
          /\ q \in Running => job'[q] = job[q]
          /\ q \notin Running => job'[q] = one
    BY <2>1, <2>2
  <2>4. DOMAIN one = Fields
    BY DEF Fields
  <2>5. /\ job' = [q \in Running' |-> job'[q]]
        /\ \A q \in Running' : DOMAIN job'[q] = Fields
    <3>1. job' = [q \in Running' |-> job'[q]]
      BY <2>1, <2>2
    <3>2. \A q \in Running' : DOMAIN job'[q] = Fields
      <4> HIDE DEF new, one
      <4> QED
        BY <1>1, <2>3, <2>4
    <3> QED
      BY <3>1, <3>2
  <2>6. \A q \in Running' :
          /\ job'[q].command \in Commands
          /\ job'[q].pc \in 1 .. Len(StepsOf(q)') + 1
    <3>1. ASSUME NEW q \in Running
          PROVE  /\ job'[q].command \in Commands
                 /\ job'[q].pc \in 1 .. Len(StepsOf(q)') + 1
      <4>1. job'[q] = job[q]
        BY <2>2, <2>3
      <4>2. StepsOf(q)' = StepsOf(q)
        BY <4>1 DEF StepsOf
      <4> HIDE DEF new
      <4> QED
        BY <1>1, <4>1, <4>2
    <3>2. ASSUME NEW q \in Running', q \notin Running
          PROVE  /\ job'[q].command \in Commands
                 /\ job'[q].pc \in 1 .. Len(StepsOf(q)') + 1
      <4>1. job'[q].command = command /\ job'[q].pc = 1
        BY <2>3, <3>2
      <4>2. StepsOf(q)' = Steps(command) /\ command \in Commands
        BY <4>1 DEF StepsOf, Commands
      <4>3. Len(Steps(command)) \in Nat
        BY <1>2, <4>2
      <4> HIDE DEF new
      <4> QED
        BY <4>1, <4>2, <4>3
    <3> QED
      BY <3>1, <3>2
  <2>7. runs' \in 0 .. MaxRuns /\ Running' \subseteq 1 .. runs'
    BY <1>1, <2>1, <2>2
  <2>8. Jobs'
    BY <2>5, <2>6, <2>7 DEF Jobs
  <2>9. Idles
    <3>1. \A q \in Running' : q \notin Running =>
            job'[q].pc = 1 /\ job'[q].fd = Closed /\ job'[q].state = Missing
      BY <2>3
    <3> HIDE DEF new, one
    <3> QED
      BY <2>1, <2>2, <2>3, <3>1 DEF Idles
  <2> QED
    BY <2>8, <2>9
<1>4. ASSUME NEW r \in Running, Leave(r)
      PROVE  Jobs' /\ Idles
  <2>1. /\ job' = [q \in Running \ {r} |-> job[q]] /\ files' = files /\ runs' = runs
    BY <1>4 DEF Leave, Restrict
  <2>2. Running' = Running \ {r}
    BY <2>1 DEF Running
  <2>3. \A q \in Running' : job'[q] = job[q] /\ q \in Running
    BY <2>1, <2>2
  <2>4. /\ job' = [q \in Running' |-> job'[q]]
        /\ \A q \in Running' : DOMAIN job'[q] = Fields
    BY <1>1, <2>1, <2>2, <2>3
  <2>5. \A q \in Running' : StepsOf(q)' = StepsOf(q)
    BY <2>3 DEF StepsOf
  <2>6. \A q \in Running' :
          /\ job'[q].command \in Commands
          /\ job'[q].pc \in 1 .. Len(StepsOf(q)') + 1
    BY <1>1, <2>3, <2>5
  <2>7. runs' \in 0 .. MaxRuns /\ Running' \subseteq 1 .. runs'
    BY <1>1, <2>1, <2>2
  <2>8. Jobs'
    BY <2>4, <2>6, <2>7 DEF Jobs
  <2> QED
    BY <2>1, <2>2, <2>3, <2>8 DEF Idles
<1>5. ASSUME NEW r \in Running, NEW ops, At(r, ops)
      PROVE  /\ job[r].pc \in 1 .. Len(StepsOf(r)) /\ Possible(Current(r))
             /\ Current(r).op \in ops
  <2>1. /\ ~ (job[r].pc > Len(Steps(job[r].command)))
        /\ Possible(Current(r)) /\ Current(r).op \in ops
    BY <1>5 DEF At, Finished
  <2>2. job[r].pc \in 1 .. Len(StepsOf(r)) + 1 /\ Len(StepsOf(r)) \in Nat
    BY <1>1, <1>2 DEF StepsOf
  <2>3. ~ (job[r].pc > Len(StepsOf(r)))
    BY <2>1 DEF StepsOf
  <2> HIDE DEF StepsOf
  <2> QED
    BY <2>1, <2>2, <2>3
<1>6. ASSUME NEW r \in Running, Look(r)
      PROVE  Jobs' /\ Advances(r)
  <2>1. /\ job[r].pc \in 1 .. Len(StepsOf(r)) /\ Possible(Current(r))
        /\ Current(r).op \in {"absent", "read"}
    BY <1>5, <1>6 DEF Look
  <2>2. /\ Advance(r, job[r].fd, job[r].state) /\ files' = files /\ runs' = runs
    BY <1>6 DEF Look
  <2> QED
    BY <2>1, <2>2, AdvanceEffect DEF Advances, FillOps, Moved
<1>7. ASSUME NEW r \in Running, MakeDirectory(r)
      PROVE  Jobs' /\ Advances(r)
  <2>1. /\ job[r].pc \in 1 .. Len(StepsOf(r)) /\ Possible(Current(r))
        /\ Current(r).op \in {"mkdir", "mkdirs"}
    BY <1>5, <1>7 DEF MakeDirectory
  <2>2. /\ Advance(r, job[r].fd, job[r].state) /\ runs' = runs
        /\ files' = With(Current(r).path, Directory)
    BY <1>7 DEF MakeDirectory
  <2> QED
    BY <2>1, <2>2, AdvanceEffect DEF Advances, FillOps, Moved
<1>8. ASSUME NEW r \in Running, OpenFile(r)
      PROVE  Jobs' /\ Advances(r)
  <2>1. /\ job[r].pc \in 1 .. Len(StepsOf(r)) /\ Possible(Current(r))
        /\ Current(r).op \in {"open"}
    BY <1>5, <1>8 DEF OpenFile
  <2>2. /\ Advance(r, Current(r).path, job[r].state) /\ runs' = runs
        /\ files' = With(Current(r).path, Torn)
    BY <1>8 DEF OpenFile
  <2> QED
    BY <2>1, <2>2, AdvanceEffect DEF Advances, FillOps, Moved
<1>9. ASSUME NEW r \in Running, FillFile(r)
      PROVE  Jobs' /\ Advances(r)
  <2>1. /\ job[r].pc \in 1 .. Len(StepsOf(r)) /\ Possible(Current(r))
        /\ Current(r).op \in FillOps
    BY <1>5, <1>9 DEF FillFile, FillOps
  <2>2. /\ Advance(r, Closed, job[r].state) /\ runs' = runs
        /\ files' = IF job[r].fd = Closed THEN files ELSE With(job[r].fd, Contents(r))
    BY <1>9 DEF FillFile, Contents
  <2> QED
    BY <2>1, <2>2, AdvanceEffect DEF Advances, FillOps, Moved
<1>10. ASSUME NEW r \in Running, LoadState(r)
      PROVE  Jobs' /\ Advances(r)
  <2>1. /\ job[r].pc \in 1 .. Len(StepsOf(r)) /\ Possible(Current(r))
        /\ Current(r).op \in {"load"}
    BY <1>5, <1>10 DEF LoadState
  <2>2. /\ Advance(r, job[r].fd, files[StateFile]) /\ files' = files /\ runs' = runs
    BY <1>10 DEF LoadState
  <2> QED
    BY <2>1, <2>2, AdvanceEffect DEF Advances, FillOps, Moved
<1>11. ASSUME NEW r \in Running, LabelState(r)
      PROVE  Jobs' /\ Advances(r)
  <2>1. /\ job[r].pc \in 1 .. Len(StepsOf(r)) /\ Possible(Current(r))
        /\ Current(r).op \in {"label"}
    BY <1>5, <1>11 DEF LabelState
  <2>2. /\ Advance(r, job[r].fd, Labelled(r)) /\ files' = files /\ runs' = runs
    BY <1>11 DEF LabelState, Labelled
  <2> QED
    BY <2>1, <2>2, AdvanceEffect DEF Advances, FillOps, Moved
<1>12. ASSUME NEW r \in Running, ReplaceFile(r)
      PROVE  Jobs' /\ Advances(r)
  <2> DEFINE step == Current(r)
             target == step.path
             source == Temporary(target)
             Renamed(fd) == IF fd = source THEN target
                            ELSE IF fd = target THEN Closed ELSE fd
  <2>1. /\ job[r].pc \in 1 .. Len(StepsOf(r)) /\ Possible(step)
        /\ step.op \in {"replace"}
    BY <1>5, <1>12 DEF ReplaceFile
  <2>2. /\ runs' = runs
        /\ files' = Restrict(With(target, files[source]),
                             (DOMAIN files \cup {target}) \ {source})
    BY <1>12 DEF ReplaceFile
  <2>3. job' = [q \in Running |->
                  [job[q] EXCEPT !.fd = Renamed(@), !.pc = IF q = r THEN @ + 1 ELSE @]]
    BY <1>12 DEF ReplaceFile
  <2>4. \A q \in Running : DOMAIN job[q] = {"command", "pc", "fd", "state"}
    BY <1>1 DEF Fields
  <2>6. \A fd : Renamed(fd) = Moved(step, fd)
    BY <2>1 DEF Moved
  <2> HIDE DEF step, Renamed
  <2>5. \A q \in Running :
          job'[q] = [job[q] EXCEPT !.fd = Renamed(@), !.pc = IF q = r THEN @ + 1 ELSE @]
    BY <2>3
  <2>7. Running' = Running
    BY <2>3 DEF Running
  <2>8. \A q \in Running :
          /\ job'[q].command = job[q].command
          /\ job'[q].pc = IF q = r THEN job[q].pc + 1 ELSE job[q].pc
          /\ job'[q].fd = Moved(step, job[q].fd)
          /\ job'[q].state = job[q].state
          /\ DOMAIN job'[q] = Fields
    <3> SUFFICES ASSUME NEW q \in Running
                 PROVE  /\ job'[q].command = job[q].command
                        /\ job'[q].pc = IF q = r THEN job[q].pc + 1 ELSE job[q].pc
                        /\ job'[q].fd = Moved(step, job[q].fd)
                        /\ job'[q].state = job[q].state
                        /\ DOMAIN job'[q] = Fields
      OBVIOUS
    <3> DEFINE f == Renamed(job[q].fd)
               p == IF q = r THEN job[q].pc + 1 ELSE job[q].pc
    <3>1. job'[q] = [job[q] EXCEPT !.fd = f, !.pc = p]
      BY <2>4, <2>5
    <3>2. f = Moved(step, job[q].fd)
      BY <2>6
    <3>3. DOMAIN job[q] = {"command", "pc", "fd", "state"}
      BY <2>4
    <3> HIDE DEF f
    <3>4. /\ job'[q].command = job[q].command /\ job'[q].pc = p
          /\ job'[q].fd = f /\ job'[q].state = job[q].state
          /\ DOMAIN job'[q] = Fields
      <4> HIDE DEF p
      <4> QED
        BY <3>1, <3>3 DEF Fields
    <3> QED
      BY <3>2, <3>4, Zenon
  <2>9. job' = [q \in Running' |-> job'[q]]
    BY <2>3, <2>7
  <2>10. \A q \in Running : StepsOf(q)' = StepsOf(q) /\ Len(StepsOf(q)) \in Nat
    BY <1>1, <1>2, <2>8 DEF StepsOf
  <2>11. \A q \in Running' :
          /\ job'[q].command \in Commands
          /\ job'[q].pc \in 1 .. Len(StepsOf(q)') + 1
    BY <1>1, <2>1, <2>7, <2>8, <2>10
  <2>12. Jobs'
    BY <1>1, <2>2, <2>7, <2>8, <2>9, <2>11 DEF Jobs
  <2> QED
    BY <2>1, <2>2, <2>7, <2>8, <2>12 DEF Advances, FillOps, step
<1> QED
  BY <1>3, <1>4, <1>6, <1>7, <1>8, <1>9, <1>10, <1>11, <1>12 DEF Next, Finish, Refuse, Kill

-----------------------------------------------------------------------------
(* What a job has done, and its descriptor                                 *)

Targets == Requests \cup {StateFile}

\* Since the last of some steps, none of others was done.
Window(r, C, A) == Since(StepsOf(r), job[r].pc, C, A)

Did(r, C) == Window(r, C, {})

\* The step a job did last.
Prev(r) == StepsOf(r)[job[r].pc - 1]

\* A job's step, on its windows and on those of the others.
LEMMA WindowNext ==
  ASSUME Jobs, NEW r \in Running, Advances(r), NEW C, NEW A
  PROVE  /\ Window(r, C, A)' <=>
              Current(r) \in C \/ (Window(r, C, A) /\ Current(r) \notin A)
         /\ \A q \in Running : q # r => (Window(q, C, A)' <=> Window(q, C, A))
         /\ Prev(r)' = Current(r) /\ job'[r].pc > 1
         /\ \A q \in Running : q # r => Prev(q)' = Prev(q) /\ job'[q].pc = job[q].pc
         /\ \A q \in Running : StepsOf(q)' = StepsOf(q)
<1>1. \A q \in Running : StepsOf(q)' = StepsOf(q)
  BY DEF Advances, StepsOf
<1>2. /\ job'[r].pc = job[r].pc + 1 /\ job[r].pc \in Nat \ {0}
      /\ \A q \in Running : q # r => job'[q].pc = job[q].pc
  BY DEF Advances
<1>3. Since(StepsOf(r), job[r].pc + 1, C, A) <=>
        \/ StepsOf(r)[job[r].pc] \in C
        \/ Since(StepsOf(r), job[r].pc, C, A) /\ StepsOf(r)[job[r].pc] \notin A
  <2> DEFINE s == StepsOf(r)
             k == job[r].pc
  <2>1. k \in Nat \ {0}
    BY <1>2
  <2> HIDE DEF s, k
  <2>2. Since(s, k + 1, C, A) <=> s[k] \in C \/ (Since(s, k, C, A) /\ s[k] \notin A)
    BY <2>1, SinceNext
  <2> QED
    BY <2>2 DEF s, k
<1>4. Current(r) = StepsOf(r)[job[r].pc]
  BY DEF Current, StepsOf
<1>5. Window(r, C, A)' <=> Since(StepsOf(r), job[r].pc + 1, C, A)
  BY <1>1, <1>2 DEF Window
<1>6. Window(r, C, A)' <=>
              Current(r) \in C \/ (Window(r, C, A) /\ Current(r) \notin A)
  BY <1>3, <1>4, <1>5 DEF Window
<1>7. \A q \in Running : q # r => (Window(q, C, A)' <=> Window(q, C, A))
  BY <1>1, <1>2 DEF Window
<1>8. Prev(r)' = Current(r) /\ job'[r].pc > 1
  <2>1. (job[r].pc + 1) - 1 = job[r].pc /\ job'[r].pc > 1
    BY <1>2
  <2> QED
    BY <1>1, <1>2, <1>4, <2>1 DEF Prev
<1>9. \A q \in Running : q # r => Prev(q)' = Prev(q) /\ job'[q].pc = job[q].pc
  BY <1>1, <1>2 DEF Prev
<1> QED
  BY <1>1, <1>6, <1>7, <1>8, <1>9

\* A job that starts has done nothing.
LEMMA WindowIdle ==
  ASSUME Jobs, Idles, NEW q \in Running'
  PROVE  /\ \A C, A : Window(q, C, A)' => q \in Running /\ Window(q, C, A)
         /\ job'[q].pc > 1 => q \in Running
         /\ job'[q].fd # Closed => q \in Running
         /\ q \in Running => job'[q] = job[q] /\ Prev(q)' = Prev(q) /\ StepsOf(q)' = StepsOf(q)
<1>1. q \in Running => job'[q] = job[q] /\ Prev(q)' = Prev(q) /\ StepsOf(q)' = StepsOf(q)
  BY DEF Idles, Prev, StepsOf
<1>2. q \notin Running => job'[q].pc = 1 /\ job'[q].fd = Closed
  BY DEF Idles
<1>3. \A C, A : q \notin Running => ~ Window(q, C, A)'
  BY <1>2 DEF Window, Since
<1>4. \A C, A : q \in Running => (Window(q, C, A)' <=> Window(q, C, A))
  BY <1>1 DEF Window
<1> QED
  BY <1>1, <1>2, <1>3, <1>4

\* A job's next step is one of its command's, in its place.
LEMMA CurrentFits ==
  ASSUME Jobs, NEW r \in Running, job[r].pc \in 1 .. Len(StepsOf(r))
  PROVE  /\ job[r].command \in Commands /\ Current(r) \in OpsOf(job[r].command)
         /\ FillsNext(StepsOf(r), job[r].pc) /\ ChecksFirst(StepsOf(r), job[r].pc)
         /\ Current(r) = StepsOf(r)[job[r].pc]
<1>1. job[r].command \in Commands
  BY DEF Jobs
<1>2. Current(r) = StepsOf(r)[job[r].pc]
  BY DEF Current, StepsOf
<1>3. /\ StepsOf(r) \in Fitting(OpsOf(job[r].command))
      /\ StepsOf(r)[job[r].pc] \in OpsOf(job[r].command)
  BY <1>1, CommandFits DEF StepsOf
<1> QED
  BY <1>1, <1>2, <1>3 DEF Fitting

\* So is the step it did last, and the next one follows it.
LEMMA PrevFits ==
  ASSUME Jobs, NEW r \in Running, job[r].pc > 1
  PROVE  /\ job[r].pc - 1 \in 1 .. Len(StepsOf(r))
         /\ Prev(r) \in OpsOf(job[r].command)
         /\ FillsNext(StepsOf(r), job[r].pc - 1)
         /\ Prev(r).op = "open" =>
              /\ job[r].pc \in 1 .. Len(StepsOf(r))
              /\ Current(r).op \in FillOps /\ Opened(Current(r)) = Prev(r).path
<1>1. job[r].command \in Commands /\ job[r].pc \in 1 .. Len(StepsOf(r)) + 1
  BY DEF Jobs
<1>2. /\ StepsOf(r) \in Fitting(OpsOf(job[r].command)) /\ Len(StepsOf(r)) \in Nat
      /\ \A k \in 1 .. Len(StepsOf(r)) : StepsOf(r)[k] \in OpsOf(job[r].command)
  BY <1>1, CommandFits DEF StepsOf
<1>3. /\ job[r].pc - 1 \in 1 .. Len(StepsOf(r)) /\ (job[r].pc - 1) + 1 = job[r].pc
      /\ (job[r].pc - 1 < Len(StepsOf(r)) => job[r].pc \in 1 .. Len(StepsOf(r)))
  BY <1>1, <1>2
<1>4. Prev(r) \in OpsOf(job[r].command) /\ FillsNext(StepsOf(r), job[r].pc - 1)
  BY <1>2, <1>3 DEF Prev, Fitting
<1>5. ASSUME Prev(r).op = "open"
      PROVE  /\ job[r].pc \in 1 .. Len(StepsOf(r))
             /\ Current(r).op \in FillOps /\ Opened(Current(r)) = Prev(r).path
  <2>1. /\ job[r].pc - 1 < Len(StepsOf(r))
        /\ StepsOf(r)[(job[r].pc - 1) + 1].op \in FillOps
        /\ Opened(StepsOf(r)[(job[r].pc - 1) + 1]) = Prev(r).path
    BY <1>4, <1>5 DEF FillsNext, Prev
  <2>2. StepsOf(r)[(job[r].pc - 1) + 1] = Current(r)
    BY <1>3 DEF Current, StepsOf
  <2> QED
    BY <1>3, <2>1, <2>2
<1> QED
  BY <1>3, <1>4, <1>5

\* Paths of a kind are not paths of another.
LEMMA KindsDiffer ==
  /\ Directories \cap (Temps \cup Targets \cup Once \cup {Result}) = {}
  /\ Temps \cap (Targets \cup Once \cup {Result}) = {}
  /\ Targets \cap (Once \cup {Result}) = {} /\ Result \notin Once
  /\ \A a : Verified(a) \notin Temps \cup Targets \cup Once \cup {Result} \cup Directories
  /\ \A x, y \in Targets : Temporary(x) = Temporary(y) => x = y
  /\ \A x \in Targets : Temporary(x) \in Temps
  /\ Closed \in Directories
<1>1. /\ \A x \in Temps : \/ x = <<"state.json.new">>
                          \/ \E a : x = <<"inputs", a, "request.json.new">>
      /\ \A x \in Targets : \/ x = <<"state.json">> /\ Temporary(x) = <<"state.json.new">>
                            \/ \E a : /\ x = <<"inputs", a, "request.json">>
                                      /\ Temporary(x) = <<"inputs", a, "request.json.new">>
  <2>1. \A x \in Targets :
          \/ x = <<"state.json">> /\ Temporary(x) = <<"state.json.new">>
          \/ \E a : /\ x = <<"inputs", a, "request.json">>
                    /\ Temporary(x) = <<"inputs", a, "request.json.new">>
    BY Temporaries DEF Targets, Requests, Request, StateFile
  <2>2. \A x \in Temps : \E y \in Targets : x = Temporary(y)
    BY DEF Temps, Targets
  <2> QED
    BY <2>1, <2>2
<1>2. \A x \in Directories :
        \/ x \in {<<>>, <<"inputs">>, <<"proofs">>, <<"scripts">>, <<"fixtures">>, <<"deployment">>}
        \/ \E a : x \in {<<"inputs", a>>, <<"proofs", a>>, <<"fixtures", a>>}
  BY DEF Directories, Work, Inputs, Proofs, Scripts, Fixtures, DeploymentDir
<1>3. \A x \in Once :
        \/ x \in {<<"deployment", "deployment.json">>, <<"scenario.json">>}
        \/ \E a : x \in {<<"inputs", a, "input.json">>, <<"proofs", a, "proof.bin">>,
                         <<"scripts", a>>}
        \/ \E a, name : x = <<"fixtures", a, name>>
  BY DEF Once, GenesisFiles, ProveFiles, Deployment, Scenario, Input, Proof, ScriptOf, Fixture
<1>4. Directories \cap (Temps \cup Targets \cup Once \cup {Result}) = {}
  <2>1. ASSUME NEW x \in Directories PROVE x \notin Temps
    BY <1>1, <1>2
  <2>2. ASSUME NEW x \in Directories PROVE x \notin Targets
    BY <1>1, <1>2
  <2>3. ASSUME NEW x \in Directories PROVE x \notin Once
    BY <1>2, <1>3
  <2>4. Result \notin Directories
    BY <1>2 DEF Result
  <2> QED
    BY <2>1, <2>2, <2>3, <2>4
<1>5. Temps \cap (Targets \cup Once \cup {Result}) = {}
  <2>1. ASSUME NEW x \in Temps PROVE x \notin Targets
    BY <1>1
  <2>2. ASSUME NEW x \in Temps PROVE x \notin Once
    BY <1>1, <1>3
  <2>3. Result \notin Temps
    BY <1>1 DEF Result
  <2> QED
    BY <2>1, <2>2, <2>3
<1>6. Targets \cap (Once \cup {Result}) = {} /\ Result \notin Once
  <2>1. ASSUME NEW x \in Targets PROVE x \notin Once
    BY <1>1, <1>3
  <2>2. Result \notin Targets /\ Result \notin Once
    BY <1>1, <1>3 DEF Result
  <2> QED
    BY <2>1, <2>2
<1>7. ASSUME NEW a
      PROVE  Verified(a) \notin Temps \cup Targets \cup Once \cup {Result} \cup Directories
  <2>1. Verified(a) \notin Temps
    BY <1>1 DEF Verified
  <2>2. Verified(a) \notin Targets
    BY <1>1 DEF Verified
  <2>3. Verified(a) \notin Once
    BY <1>3 DEF Verified
  <2>4. Verified(a) \notin Directories
    BY <1>2 DEF Verified
  <2>5. Verified(a) # Result
    BY DEF Verified, Result
  <2> QED
    BY <2>1, <2>2, <2>3, <2>4, <2>5
<1>8. \A x, y \in Targets : Temporary(x) = Temporary(y) => x = y
  BY <1>1
<1>9. \A x \in Targets : Temporary(x) \in Temps
  BY DEF Temps, Targets
<1>10. Closed \in Directories
  BY DEF Closed, Directories
<1> QED
  BY <1>4, <1>5, <1>6, <1>7, <1>8, <1>9, <1>10

\* Every path is in a directory of its own kind.
LEMMA ParentsAre ==
  /\ \A x \in Once \cup {Result} \cup Temps \cup Targets : Front(x) \in Directories /\ x # Work
  /\ \A a \in Act : Front(Verified(a)) \in Directories /\ Verified(a) # Work
  /\ \A x \in Directories : x = Work \/ Front(x) \in Directories
<1>1. /\ \A x, y, z : /\ Front(<<x>>) = <<>> /\ Front(<<x, y>>) = <<x>>
                      /\ Front(<<x, y, z>>) = <<x, y>>
  BY FrontOf
<1>2. /\ {<<>>, <<"inputs">>, <<"proofs">>, <<"scripts">>, <<"fixtures">>, <<"deployment">>}
         \subseteq Directories
      /\ \A a \in Act : {<<"inputs", a>>, <<"proofs", a>>, <<"fixtures", a>>} \subseteq Directories
  BY DEF Directories, Work, Inputs, Proofs, Scripts, Fixtures, DeploymentDir
<1>3. ASSUME NEW x \in Targets
      PROVE  /\ Front(x) \in Directories /\ x # Work
             /\ Front(Temporary(x)) \in Directories /\ Temporary(x) # Work
  <2>1. CASE x = StateFile
    <3>1. Front(StateFile) = <<>> /\ Front(<<"state.json.new">>) = <<>>
      BY <1>1 DEF StateFile
    <3> QED
      BY <1>2, <2>1, <3>1, Temporaries DEF StateFile, Work
  <2>2. ASSUME NEW a \in Act, x = Request(a)
        PROVE  /\ Front(x) \in Directories /\ x # Work
               /\ Front(Temporary(x)) \in Directories /\ Temporary(x) # Work
    <3>1. Front(Request(a)) = <<"inputs", a>>
          /\ Front(<<"inputs", a, "request.json.new">>) = <<"inputs", a>>
      BY <1>1 DEF Request
    <3> QED
      <4>1. <<"inputs", a>> \in Directories
        BY <1>2
      <4>2. Temporary(Request(a)) = <<"inputs", a, "request.json.new">>
        BY Temporaries
      <4>3. Request(a) # Work /\ <<"inputs", a, "request.json.new">> # Work
        BY DEF Request, Work
      <4> QED
        BY <2>2, <3>1, <4>1, <4>2, <4>3
  <2> QED
    BY <2>1, <2>2 DEF Targets, Requests
<1>4. ASSUME NEW x \in Once \cup {Result}
      PROVE  Front(x) \in Directories /\ x # Work
  <2>1. CASE x \in {Deployment, Scenario, Result}
    <3>1. /\ Front(Deployment) = <<"deployment">> /\ Front(Scenario) = <<>>
          /\ Front(Result) = <<>>
      BY <1>1 DEF Deployment, Scenario, Result
    <3> QED
      BY <1>2, <2>1, <3>1 DEF Deployment, Scenario, Result, Work
  <2>2. ASSUME NEW a \in Act, x \in {Input(a), Proof(a), ScriptOf(a)}
        PROVE  Front(x) \in Directories /\ x # Work
    <3>1. /\ Front(Input(a)) = <<"inputs", a>> /\ Front(Proof(a)) = <<"proofs", a>>
          /\ Front(ScriptOf(a)) = <<"scripts">>
      BY <1>1 DEF Input, Proof, ScriptOf
    <3> QED
      <4>1. {<<"inputs", a>>, <<"proofs", a>>, <<"scripts">>} \subseteq Directories
        BY <1>2
      <4>2. Input(a) # Work /\ Proof(a) # Work /\ ScriptOf(a) # Work
        BY DEF Input, Proof, ScriptOf, Work
      <4> QED
        BY <2>2, <3>1, <4>1, <4>2
  <2>3. ASSUME NEW a \in Act, NEW name, x = Fixture(a, name)
        PROVE  Front(x) \in Directories /\ x # Work
    <3>1. Front(Fixture(a, name)) = <<"fixtures", a>>
      BY <1>1 DEF Fixture
    <3> QED
      BY <1>2, <2>3, <3>1 DEF Fixture, Work
  <2> QED
    BY <2>1, <2>2, <2>3 DEF Once, GenesisFiles, ProveFiles
<1>5. ASSUME NEW a \in Act
      PROVE  Front(Verified(a)) \in Directories /\ Verified(a) # Work
  <2>1. Front(Verified(a)) = <<"proofs", a>>
    BY <1>1 DEF Verified
  <2> QED
    BY <1>2, <2>1 DEF Verified, Work
<1>6. ASSUME NEW x \in Directories
      PROVE  x = Work \/ Front(x) \in Directories
  <2>1. CASE x \in {Work, Inputs, Proofs, Scripts, Fixtures, DeploymentDir}
    <3>1. /\ Front(<<"inputs">>) = <<>> /\ Front(<<"proofs">>) = <<>>
          /\ Front(<<"scripts">>) = <<>> /\ Front(<<"fixtures">>) = <<>>
          /\ Front(<<"deployment">>) = <<>>
      BY <1>1
    <3> QED
      BY <1>2, <2>1, <3>1 DEF Inputs, Proofs, Scripts, Fixtures, DeploymentDir
  <2>2. ASSUME NEW a \in Act, x \in {<<"inputs", a>>, <<"proofs", a>>, <<"fixtures", a>>}
        PROVE  Front(x) \in Directories
    <3>1. /\ Front(<<"inputs", a>>) = <<"inputs">> /\ Front(<<"proofs", a>>) = <<"proofs">>
          /\ Front(<<"fixtures", a>>) = <<"fixtures">>
      BY <1>1
    <3> QED
      BY <1>2, <2>2, <3>1
  <2> QED
    BY <2>1, <2>2 DEF Directories
<1>7. \A x \in Temps : \E y \in Targets : x = Temporary(y)
  BY DEF Temps, Targets
<1> QED
  BY <1>3, <1>4, <1>5, <1>6, <1>7

-----------------------------------------------------------------------------
(* Paths, descriptors and directories                                      *)

\* The paths a step changes.
Touches(r, path) ==
  LET step == Current(r)
  IN  \/ step.op \in {"mkdir", "mkdirs", "open", "replace"} /\ step.path = path
      \/ step.op \in FillOps /\ path # Closed /\ job[r].fd = path
      \/ step.op = "replace" /\ path = Temporary(step.path)

\* A step leaves the files it does not touch.
LEMMA Untouched ==
  ASSUME Jobs, NEW r \in Running, Advances(r), NEW path, ~ Touches(r, path)
  PROVE  /\ path \in DOMAIN files' <=> path \in DOMAIN files
         /\ path \in DOMAIN files => files'[path] = files[path]
<1> DEFINE step == Current(r)
<1>1. step.op \in {"absent", "read", "load", "mkdir", "mkdirs", "open", "make",
                   "copy", "save", "replace", "label"}
  <2>1. job[r].command \in Commands /\ step \in OpsOf(job[r].command)
    BY CurrentFits DEF Advances
  <2> QED
    BY <2>1, StepForms
<1>2. CASE step.op \in {"absent", "read", "load", "label"}
  BY <1>2 DEF Advances
<1>3. CASE step.op \in {"mkdir", "mkdirs"}
  BY <1>3 DEF Advances, Touches, With
<1>4. CASE step.op = "open"
  BY <1>4 DEF Advances, Touches, With
<1>5. CASE step.op \in FillOps
  BY <1>5 DEF Advances, Touches, With
<1>6. CASE step.op = "replace"
  BY <1>6 DEF Advances, Touches, With, Restrict
<1> QED
  BY <1>1, <1>2, <1>3, <1>4, <1>5, <1>6 DEF FillOps

\* What it leaves there.
LEMMA Touched ==
  ASSUME Jobs, NEW r \in Running, Advances(r)
  PROVE  LET step == Current(r)
         IN  /\ step.op \in {"mkdir", "mkdirs"} =>
                  step.path \in DOMAIN files' /\ files'[step.path] = Directory
             /\ step.op = "open" =>
                  step.path \in DOMAIN files' /\ files'[step.path] = Torn
             /\ step.op \in FillOps /\ job[r].fd # Closed =>
                  job[r].fd \in DOMAIN files' /\ files'[job[r].fd] = Contents(r)
             /\ step.op = "replace" =>
                  /\ step.path \in DOMAIN files'
                  /\ files'[step.path] = files[Temporary(step.path)]
                  /\ Temporary(step.path) \notin DOMAIN files'
                  /\ Temporary(step.path) \in DOMAIN files
<1> DEFINE step == Current(r)
<1>1. step.op \in {"mkdir", "mkdirs"} =>
        step.path \in DOMAIN files' /\ files'[step.path] = Directory
  BY DEF Advances, With
<1>2. step.op = "open" => step.path \in DOMAIN files' /\ files'[step.path] = Torn
  BY DEF Advances, With
<1>3. step.op \in FillOps /\ job[r].fd # Closed =>
        job[r].fd \in DOMAIN files' /\ files'[job[r].fd] = Contents(r)
  BY DEF Advances, With
<1>4. ASSUME step.op = "replace"
      PROVE  /\ step.path \in DOMAIN files'
             /\ files'[step.path] = files[Temporary(step.path)]
             /\ Temporary(step.path) \notin DOMAIN files'
             /\ Temporary(step.path) \in DOMAIN files
  <2>1. job[r].command \in Commands /\ step \in OpsOf(job[r].command)
    BY CurrentFits DEF Advances
  <2>2. step.path \in Targets
    BY <1>4, <2>1, StepForms DEF Targets
  <2>3. Temporary(step.path) # step.path
    BY <2>2, KindsDiffer
  <2>4. Temporary(step.path) \in DOMAIN files
    BY <1>4 DEF Advances, Possible, Exists
  <2> QED
    BY <1>4, <2>3, <2>4 DEF Advances, With, Restrict
<1> QED
  BY <1>1, <1>2, <1>3, <1>4

\* A directory with what is in it, and a file for every descriptor.
Tree ==
  /\ \A path \in DOMAIN files :
       path = Work \/ (Front(path) \in DOMAIN files /\ Front(path) \in Directories)
  /\ \A r \in Running : job[r].fd # Closed => Exists(job[r].fd)

\* A descriptor is of what the job opened last, which a rename may have moved.
Fds ==
  \A r \in Running :
    /\ job[r].fd # Closed =>
         /\ job[r].pc > 1 /\ Prev(r) = Do("open", Prev(r).path)
         /\ \/ job[r].fd = Prev(r).path
            \/ job[r].fd \in Targets /\ Prev(r).path = Temporary(job[r].fd)
    /\ job[r].pc > 1 /\ Prev(r).op = "open" /\ Prev(r).path \notin Temps =>
         job[r].fd = Prev(r).path

\* Every step keeps the descriptors where they belong.
LEMMA FdsKept ==
  ASSUME Jobs, Fds, NEW r \in Running, Advances(r)
  PROVE  Fds'
<1> DEFINE step == Current(r)
<1>1. /\ job[r].command \in Commands /\ step \in OpsOf(job[r].command)
      /\ job[r].pc \in 1 .. Len(StepsOf(r)) /\ Running' = Running
  BY CurrentFits DEF Advances
<1>2. /\ Prev(r)' = step /\ job'[r].pc > 1
      /\ \A q \in Running : q # r => Prev(q)' = Prev(q) /\ job'[q].pc = job[q].pc
  BY WindowNext
<1>3. /\ step.op = "replace" => step.path \in Targets
      /\ step.op = "open" => step = Do("open", step.path)
  BY <1>1, StepForms DEF Targets
<1>4. /\ job'[r].fd # Closed =>
           /\ job'[r].pc > 1 /\ Prev(r)' = Do("open", Prev(r)'.path)
           /\ job'[r].fd = Prev(r)'.path
      /\ Prev(r)'.op = "open" => job'[r].fd = Prev(r)'.path
  <2>1. CASE step.op = "open"
    BY <1>2, <1>3, <2>1 DEF Advances
  <2>2. CASE step.op \in FillOps
    BY <1>2, <2>2 DEF Advances, FillOps
  <2>3. CASE step.op \notin FillOps \cup {"open"}
    <3>1. job[r].fd = Closed
      <4>1. ASSUME job[r].fd # Closed PROVE FALSE
        <5>1. job[r].pc > 1 /\ Prev(r).op = "open"
          BY <4>1, OpensDiffer DEF Fds
        <5>2. Current(r).op \in FillOps
          BY <5>1, PrevFits
        <5> QED
          BY <2>3, <5>2
      <4> QED
        BY <4>1
    <3>2. Moved(step, Closed) = Closed
      BY <1>3, KindsDiffer DEF Moved
    <3>3. job'[r].fd = Closed
      BY <2>3, <3>1, <3>2 DEF Advances
    <3> QED
      BY <1>2, <2>3, <3>3
  <2> QED
    BY <2>1, <2>2, <2>3
<1>5. ASSUME NEW q \in Running, q # r
      PROVE  /\ job'[q].fd # Closed =>
                  /\ job'[q].pc > 1 /\ Prev(q)' = Do("open", Prev(q)'.path)
                  /\ \/ job'[q].fd = Prev(q)'.path
                     \/ job'[q].fd \in Targets /\ Prev(q)'.path = Temporary(job'[q].fd)
             /\ job'[q].pc > 1 /\ Prev(q)'.op = "open" /\ Prev(q)'.path \notin Temps =>
                  job'[q].fd = Prev(q)'.path
  <2>1. Prev(q)' = Prev(q) /\ job'[q].pc = job[q].pc /\ job'[q].fd = Moved(step, job[q].fd)
    BY <1>2, <1>5 DEF Advances
  <2>2. /\ job[q].fd # Closed =>
           /\ job[q].pc > 1 /\ Prev(q) = Do("open", Prev(q).path)
           /\ \/ job[q].fd = Prev(q).path
              \/ job[q].fd \in Targets /\ Prev(q).path = Temporary(job[q].fd)
        /\ job[q].pc > 1 /\ Prev(q).op = "open" /\ Prev(q).path \notin Temps =>
             job[q].fd = Prev(q).path
    BY DEF Fds
  <2>3. CASE Moved(step, job[q].fd) = job[q].fd
    BY <2>1, <2>2, <2>3
  <2>4. CASE step.op = "replace" /\ job[q].fd = Temporary(step.path)
    <3>1. Temporary(step.path) \in Temps /\ Temporary(step.path) \notin Targets
          /\ Temporary(step.path) # Closed
      BY <1>3, <2>4, KindsDiffer
    <3>2. Prev(q).path = Temporary(step.path)
      BY <2>2, <2>4, <3>1
    <3>3. Moved(step, job[q].fd) = step.path /\ step.path \in Targets
      BY <1>3, <2>4 DEF Moved
    <3> QED
      BY <2>1, <2>2, <2>4, <3>1, <3>2, <3>3
  <2>5. CASE step.op = "replace" /\ job[q].fd # Temporary(step.path) /\ job[q].fd = step.path
    <3>1. Moved(step, job[q].fd) = Closed
      BY <2>5 DEF Moved
    <3>2. step.path \in Targets
      BY <1>3, <2>5
    <3>3. job[q].pc > 1 /\ Prev(q).op = "open" => Prev(q).path \in Temps
      <4>1. ASSUME job[q].pc > 1, Prev(q).op = "open"
            PROVE  Prev(q).path \notin Targets
        <5>1. Prev(q) \in OpsOf(job[q].command) /\ job[q].command \in Commands
          BY <4>1, PrevFits DEF Jobs
        <5>2. Prev(q).path \in Once \cup {Result} \cup {Verified(a) : a \in Act} \cup Temps
          BY <4>1, <5>1, StepForms
        <5> QED
          BY <5>2, KindsDiffer
      <4> QED
        BY <2>2, <2>5, <3>2, <4>1
    <3> QED
      BY <2>1, <3>1, <3>3
  <2>6. \/ Moved(step, job[q].fd) = job[q].fd
        \/ step.op = "replace" /\ job[q].fd = Temporary(step.path)
        \/ step.op = "replace" /\ job[q].fd # Temporary(step.path) /\ job[q].fd = step.path
    BY DEF Moved
  <2> QED
    BY <2>3, <2>4, <2>5, <2>6
<1>6. Fds' <=>
        \A q \in Running' :
          /\ job'[q].fd # Closed =>
               /\ job'[q].pc > 1 /\ Prev(q)' = Do("open", Prev(q)'.path)
               /\ \/ job'[q].fd = Prev(q)'.path
                  \/ job'[q].fd \in Targets /\ Prev(q)'.path = Temporary(job'[q].fd)
          /\ job'[q].pc > 1 /\ Prev(q)'.op = "open" /\ Prev(q)'.path \notin Temps =>
               job'[q].fd = Prev(q)'.path
  BY DEF Fds
<1> QED
  BY <1>1, <1>4, <1>5, <1>6

\* Filling goes to what was opened, unless that is a temporary file.
LEMMA FillsOpened ==
  ASSUME Jobs, Fds, NEW r \in Running, Advances(r), Current(r).op \in FillOps
  PROVE  /\ job[r].pc > 1 /\ Prev(r) = Do("open", Opened(Current(r)))
         /\ Opened(Current(r)) \notin Temps => job[r].fd = Opened(Current(r))
         /\ job[r].fd # Closed =>
              \/ job[r].fd = Opened(Current(r))
              \/ job[r].fd \in Targets /\ Opened(Current(r)) = Temporary(job[r].fd)
<1>1. FillsNext(StepsOf(r), job[r].pc) /\ Current(r) = StepsOf(r)[job[r].pc]
  BY CurrentFits DEF Advances
<1>2. job[r].pc > 1 /\ Prev(r) = Do("open", Opened(Current(r)))
  BY <1>1 DEF FillsNext, Prev
<1>3. Prev(r).op = "open" /\ Prev(r).path = Opened(Current(r))
  BY <1>2, OpensDiffer
<1> QED
  BY <1>2, <1>3 DEF Fds

\* What changes a path that no rename concerns.
LEMMA PlainTouch ==
  ASSUME Jobs, Fds, Tree, NEW r \in Running, Advances(r),
         NEW path, path \notin Targets \cup Temps, Touches(r, path)
  PROVE  \/ /\ Current(r).op \in {"mkdir", "mkdirs"} /\ path \in Directories
            /\ Current(r).path = path /\ path \in DOMAIN files' /\ files'[path] = Directory
         \/ /\ Current(r) = Do("open", path) /\ path \notin Directories
            /\ path \in DOMAIN files' /\ files'[path] = Torn
         \/ /\ Current(r).op \in FillOps /\ job[r].pc > 1 /\ Prev(r) = Do("open", path)
            /\ Opened(Current(r)) = path /\ job[r].fd = path /\ path \notin Directories
            /\ path \in DOMAIN files /\ path \in DOMAIN files' /\ files'[path] = Contents(r)
<1> DEFINE step == Current(r)
<1>1. job[r].command \in Commands /\ step \in OpsOf(job[r].command)
  BY CurrentFits DEF Advances
<1>2. /\ step.op = "replace" => step.path \in Targets
      /\ step.op = "open" => step = Do("open", step.path)
      /\ step.op \in {"mkdir", "mkdirs"} => step.path \in Directories
      /\ step.op = "open" =>
           step.path \in Once \cup {Result} \cup {Verified(a) : a \in Act} \cup Temps
  BY <1>1, StepForms DEF Targets
<1>3. step.op = "replace" => Temporary(step.path) \in Temps
  BY <1>2, KindsDiffer
<1>4. \/ step.op \in {"mkdir", "mkdirs"} /\ step.path = path
      \/ step.op = "open" /\ step.path = path
      \/ step.op \in FillOps /\ path # Closed /\ job[r].fd = path
  BY <1>2, <1>3 DEF Touches
<1>5. CASE step.op \in {"mkdir", "mkdirs"} /\ step.path = path
  BY <1>2, <1>5, Touched
<1>6. CASE step.op = "open" /\ step.path = path
  <2>1. path \notin Directories
    BY <1>2, <1>6, KindsDiffer
  <2> QED
    BY <1>2, <1>6, <2>1, Touched
<1>7. CASE step.op \in FillOps /\ path # Closed /\ job[r].fd = path
  <2>1. /\ job[r].pc > 1 /\ Prev(r) = Do("open", Opened(step)) /\ Opened(step) = path
    BY <1>7, FillsOpened
  <2>2. path \in DOMAIN files
    BY <1>7 DEF Tree, Exists
  <2>3. path \in DOMAIN files' /\ files'[path] = Contents(r)
    BY <1>7, Touched
  <2>4. path \notin Directories
    <3>1. Prev(r) \in OpsOf(job[r].command)
      BY <2>1, PrevFits
    <3>2. Prev(r).op = "open" /\ Prev(r).path = path
      BY <2>1, OpensDiffer
    <3>3. path \in Once \cup {Result} \cup {Verified(a) : a \in Act} \cup Temps
      BY <1>1, <3>1, <3>2, StepForms
    <3> QED
      BY <3>3, KindsDiffer
  <2> QED
    BY <1>7, <2>1, <2>2, <2>3, <2>4
<1> QED
  BY <1>4, <1>5, <1>6, <1>7

\* Only a rename removes a file, its temporary one.
LEMMA Persists ==
  ASSUME Jobs, NEW r \in Running, Advances(r), NEW path \in DOMAIN files
  PROVE  /\ path \notin Temps => path \in DOMAIN files'
         /\ path \notin DOMAIN files' =>
              Current(r).op = "replace" /\ path = Temporary(Current(r).path)
<1> DEFINE step == Current(r)
<1>1. job[r].command \in Commands /\ step \in OpsOf(job[r].command)
  BY CurrentFits DEF Advances
<1>2. path \notin DOMAIN files' => step.op = "replace" /\ path = Temporary(step.path)
  BY Untouched, Touched DEF Touches
<1>3. step.op = "replace" => Temporary(step.path) \in Temps
  BY <1>1, StepForms, KindsDiffer DEF Targets
<1> QED
  BY <1>2, <1>3

\* Every step keeps the directory a tree.
LEMMA TreeKept ==
  ASSUME Jobs, Fds, Tree, NEW r \in Running, Advances(r)
  PROVE  Tree'
<1> DEFINE step == Current(r)
<1>1. /\ job[r].command \in Commands /\ step \in OpsOf(job[r].command)
      /\ Running' = Running
  BY CurrentFits DEF Advances
<1>2. /\ step.op \in {"mkdir", "mkdirs"} => step.path \in Directories
      /\ step.op = "open" =>
           step.path \in Once \cup {Result} \cup {Verified(a) : a \in Act} \cup Temps
      /\ step.op = "replace" => step.path \in Targets
  BY <1>1, StepForms DEF Targets
<1>3. \A path \in Directories : path \in DOMAIN files => path \in DOMAIN files'
  BY KindsDiffer, Persists
<1>4. ASSUME NEW path \in DOMAIN files'
      PROVE  path = Work \/ (Front(path) \in DOMAIN files' /\ Front(path) \in Directories)
  <2>1. CASE path \in DOMAIN files
    <3>1. path = Work \/ (Front(path) \in DOMAIN files /\ Front(path) \in Directories)
      BY <2>1 DEF Tree
    <3> QED
      BY <1>3, <3>1
  <2>2. CASE path \notin DOMAIN files
    <3>1. Touches(r, path)
      BY <2>2, Untouched
    <3>2. ~ (step.op \in FillOps /\ path # Closed /\ job[r].fd = path)
      BY <2>2 DEF Tree, Exists
    <3>3. ~ (step.op = "replace" /\ path = Temporary(step.path))
      BY Touched
    <3>4. step.op \in {"mkdir", "mkdirs", "open", "replace"} /\ step.path = path
      BY <3>1, <3>2, <3>3 DEF Touches
    <3>5. CASE step.op \in {"mkdir", "mkdirs", "open"}
      <4>1. path = Work \/ Front(path) \in Directories
        BY <1>2, <3>4, <3>5, ParentsAre
      <4>2. HasParent(path)
        BY <3>4, <3>5 DEF Advances, Possible
      <4> QED
        BY <1>3, <4>1, <4>2 DEF HasParent, Exists
    <3>6. CASE step.op = "replace"
      <4>1. path \in Targets /\ Temporary(path) \in DOMAIN files
        BY <1>2, <3>4, <3>6, Touched
      <4>2. /\ Temporary(path) # Work
            /\ Front(Temporary(path)) \in DOMAIN files
        BY <4>1, KindsDiffer, ParentsAre DEF Tree
      <4>3. Front(Temporary(path)) = Front(path)
        <5>1. /\ Front(StateFile) = <<>> /\ Front(<<"state.json.new">>) = <<>>
              /\ \A a : /\ Front(Request(a)) = <<"inputs", a>>
                        /\ Front(<<"inputs", a, "request.json.new">>) = <<"inputs", a>>
          BY FrontOf DEF StateFile, Request
        <5> QED
          BY <4>1, <5>1, Temporaries DEF Targets, Requests
      <4>4. Front(path) \in Directories
        BY <4>1, ParentsAre
      <4> QED
        BY <1>3, <4>2, <4>3, <4>4
    <3> QED
      BY <3>4, <3>5, <3>6
  <2> QED
    BY <2>1, <2>2
<1>5. ASSUME NEW q \in Running, job'[q].fd # Closed
      PROVE  job'[q].fd \in DOMAIN files'
  <2>1. CASE q = r /\ step.op = "open"
    BY <1>5, <2>1, Touched DEF Advances
  <2>2. CASE q = r /\ step.op \in FillOps
    BY <1>5, <2>2 DEF Advances, FillOps
  <2>3. CASE q # r \/ step.op \notin FillOps \cup {"open"}
    <3>1. job'[q].fd = Moved(step, job[q].fd)
      BY <2>3 DEF Advances
    <3>2. CASE step.op # "replace"
      <4>1. job'[q].fd = job[q].fd /\ job[q].fd \in DOMAIN files
        BY <1>5, <3>1, <3>2 DEF Moved, Tree, Exists
      <4> QED
        BY <3>2, <4>1, Persists
    <3>3. CASE step.op = "replace"
      <4>1. CASE job[q].fd = Temporary(step.path)
        BY <3>1, <3>3, <4>1, Touched DEF Moved
      <4>2. CASE job[q].fd # Temporary(step.path) /\ job[q].fd # step.path
        <5>1. job'[q].fd = job[q].fd /\ job[q].fd \in DOMAIN files
          BY <1>5, <3>1, <3>3, <4>2 DEF Moved, Tree, Exists
        <5> QED
          BY <4>2, <5>1, Persists
      <4>3. CASE job[q].fd # Temporary(step.path) /\ job[q].fd = step.path
        BY <1>5, <3>1, <3>3, <4>3 DEF Moved
      <4> QED
        BY <4>1, <4>2, <4>3
    <3> QED
      BY <3>2, <3>3
  <2> QED
    BY <2>1, <2>2, <2>3
<1>6. Tree' <=>
        /\ \A path \in DOMAIN files' :
             path = Work \/ (Front(path) \in DOMAIN files' /\ Front(path) \in Directories)
        /\ \A q \in Running' : job'[q].fd # Closed => job'[q].fd \in DOMAIN files'
  BY DEF Tree, Exists
<1> QED
  BY <1>1, <1>4, <1>5, <1>6

-----------------------------------------------------------------------------
(* One founder, one prover, and the files they write once                  *)

\* Who made a directory is the only one who did.
Built ==
  \A d \in Directories : \A r \in Running :
    Did(r, {Do("mkdir", d)}) =>
      /\ Exists(d)
      /\ \A q \in Running : Did(q, {Do("mkdir", d)}) => q = r

\* Making a directory that is there is refused, and none goes away.
LEMMA BuiltKept ==
  ASSUME Jobs, Built, NEW r \in Running, Advances(r)
  PROVE  Built'
<1> SUFFICES ASSUME NEW d \in Directories, NEW q \in Running', Did(q, {Do("mkdir", d)})'
             PROVE  /\ d \in DOMAIN files'
                    /\ \A p \in Running' : Did(p, {Do("mkdir", d)})' => p = q
  BY DEF Built, Exists
<1> DEFINE C == {Do("mkdir", d)}
<1>1. Running' = Running
  BY DEF Advances
<1>2. /\ Did(r, C)' <=> Current(r) \in C \/ Did(r, C)
      /\ \A p \in Running : p # r => (Did(p, C)' <=> Did(p, C))
  BY WindowNext DEF Did
<1>3. CASE Current(r) \in C
  <2>1. Current(r).op = "mkdir" /\ Current(r).path = d
    BY <1>3, OpensDiffer
  <2>2. d \notin DOMAIN files /\ d \in DOMAIN files'
    BY <2>1, Touched DEF Advances, Possible, Exists
  <2>3. \A p \in Running : ~ Did(p, C)
    BY <2>2 DEF Built, Exists
  <2> HIDE DEF C
  <2> QED
    BY <1>1, <1>2, <2>2, <2>3 DEF C
<1>4. CASE Current(r) \notin C
  <2>1. \A p \in Running : Did(p, C)' <=> Did(p, C)
    BY <1>2, <1>4
  <2>2. d \in DOMAIN files /\ \A p \in Running : Did(p, C) => p = q
    BY <1>1, <2>1 DEF Built, Exists
  <2>3. d \in DOMAIN files'
    BY <2>2, KindsDiffer, Persists
  <2> HIDE DEF C
  <2> QED
    BY <1>1, <2>1, <2>2, <2>3 DEF C
<1> QED
  BY <1>3, <1>4

\* A window onto steps of one kind is a window onto steps of that kind.
LEMMA WindowDid ==
  ASSUME Jobs, NEW r \in Running, NEW C, NEW A, NEW D,
         \A x \in OpsOf(job[r].command) : x \in C => x \in D,
         Window(r, C, A)
  PROVE  Did(r, D)
<1>1. /\ job[r].command \in Commands /\ job[r].pc \in 1 .. Len(StepsOf(r)) + 1
      /\ Len(StepsOf(r)) \in Nat
      /\ \A k \in 1 .. Len(StepsOf(r)) : StepsOf(r)[k] \in OpsOf(job[r].command)
  BY CommandFits DEF Jobs, StepsOf
<1>2. PICK j \in 1 .. job[r].pc - 1 : StepsOf(r)[j] \in C
  BY DEF Window, Since
<1>3. StepsOf(r)[j] \in D
  BY <1>1, <1>2
<1> QED
  BY <1>2, <1>3 DEF Did, Window, Since

\* The step a job did last is one it did.
LEMMA DidPrev ==
  ASSUME Jobs, NEW r \in Running, job[r].pc > 1, NEW C, Prev(r) \in C
  PROVE  Did(r, C)
<1>1. job[r].pc - 1 \in 1 .. job[r].pc - 1
  BY DEF Jobs
<1> QED
  BY <1>1 DEF Did, Window, Since, Prev

\* Two jobs that did what only genesis does, or what only prove does, are one.
LEMMA SameOwner ==
  ASSUME Jobs, Built, NEW r \in Running, NEW q \in Running
  PROVE  /\ Did(r, WorkOps) /\ Did(q, WorkOps) => r = q
         /\ Did(r, ProvingOps) /\ Did(q, ProvingOps) => r = q
<1>1. ASSUME NEW p \in Running
      PROVE  /\ Did(p, WorkOps) => Did(p, {Do("mkdir", Work)})
             /\ Did(p, ProvingOps) => Did(p, {Do("mkdir", Proofs)})
  <2>1. /\ job[p].command \in Commands /\ job[p].pc \in 1 .. Len(StepsOf(p)) + 1
        /\ Len(StepsOf(p)) \in Nat
    BY CommandFits DEF Jobs, StepsOf
  <2>2. ASSUME NEW j \in 1 .. job[p].pc - 1, NEW y, Since(StepsOf(p), j + 1, {y}, {})
        PROVE  Did(p, {y})
    <3>1. PICK i \in 1 .. (j + 1) - 1 : StepsOf(p)[i] \in {y}
      BY <2>2 DEF Since
    <3>2. i \in 1 .. job[p].pc - 1
      BY <2>1, <3>1
    <3> QED
      BY <3>1, <3>2 DEF Did, Window, Since
  <2>3. ASSUME Did(p, WorkOps)
        PROVE  Did(p, {Do("mkdir", Work)})
    <3>1. PICK j \in 1 .. job[p].pc - 1 : StepsOf(p)[j] \in WorkOps
      BY <2>3 DEF Did, Window, Since
    <3>2. j \in 1 .. Len(StepsOf(p))
      BY <2>1, <3>1
    <3>3. Since(StepsOf(p), j + 1, {Do("mkdir", Work)}, {})
      BY <2>1, <3>1, <3>2, Owned DEF StepsOf
    <3> QED
      BY <2>2, <3>3
  <2>4. ASSUME Did(p, ProvingOps)
        PROVE  Did(p, {Do("mkdir", Proofs)})
    <3>1. PICK j \in 1 .. job[p].pc - 1 : StepsOf(p)[j] \in ProvingOps
      BY <2>4 DEF Did, Window, Since
    <3>2. j \in 1 .. Len(StepsOf(p))
      BY <2>1, <3>1
    <3>3. Since(StepsOf(p), j + 1, {Do("mkdir", Proofs)}, {})
      BY <2>1, <3>1, <3>2, Owned DEF StepsOf
    <3> QED
      BY <2>2, <3>3
  <2> QED
    BY <2>3, <2>4
<1>2. Work \in Directories /\ Proofs \in Directories
  BY DEF Directories
<1> QED
  BY <1>1, <1>2 DEF Built

Owning(path) == IF path \in GenesisFiles THEN WorkOps ELSE ProvingOps

\* The steps that check, open or end a file written once are its owner's.
LEMMA OnceOwned ==
  ASSUME NEW c \in Commands, NEW x \in OpsOf(c), NEW path \in Once,
         x \in Checks(path) \cup {Do("open", path)}
  PROVE  x \in Owning(path)
<1>1. \A op, p : Do(op, p).op = op /\ Do(op, p).path = p
  BY OpensDiffer
<1>2. /\ x.op \in {"absent", "mkdir", "open"}
      /\ x.op = "absent" => x.path = path
      /\ x.op = "open" => x.path = path
      /\ x.op = "mkdir" => x.path = Front(path)
  BY <1>1 DEF Checks
<1>3. \/ path \in GenesisFiles /\ (path = Work \/ path[1] \in {"deployment", "scenario.json", "inputs"})
      \/ path \notin GenesisFiles /\ path \in ProveFiles /\ path[1] \in {"proofs", "scripts", "fixtures"}
  <2>1. \A p \in GenesisFiles : p[1] \in {"deployment", "scenario.json", "inputs"}
    BY DEF GenesisFiles, Deployment, Scenario, Input
  <2>2. \A p \in ProveFiles : p[1] \in {"proofs", "scripts", "fixtures"}
    BY DEF ProveFiles, Proof, ScriptOf, Fixture
  <2> QED
    BY <2>1, <2>2 DEF Once
<1>4. /\ path \notin Directories \cup {Result} \cup Temps
      /\ Front(path) \in Directories
  BY KindsDiffer, ParentsAre
<1>5. CASE x.op = "open"
  <2> DEFINE Opens(y) == y.op = "open" /\ y.path \in Once
  <2>1. Opens(x)
    BY <1>2, <1>5
  <2>2. \A y : Opens(y) =>
          /\ y \notin FirstOps /\ y \notin ResultOps
          /\ y \notin {Do("absent", Fixtures), Do("mkdirs", Fixtures)}
          /\ y \notin {Do("load", StateFile), Do("absent", Result), Do("read", Result)}
          /\ \A status : y \notin StateOps(status)
          /\ \A a : y \notin ReadOps(a)
    BY KindsDiffer DEF FirstOps, ResultOps, StateOps, ReadOps, Do, Label, Temps
  <2>3. \/ x \in HeadOps
        \/ \E a \in Act : x \in RequestOps(a)
        \/ \E a \in Act : x \in ProofOps(a)
        \/ \E a \in Act : x \in FixtureOps(a)
    <3> HIDE DEF Opens
    <3>1. \/ x \in GenesisOps \/ x \in ProveOps \/ x \in SubmitOps
      BY DEF OpsOf, Commands
    <3> QED
      BY <2>1, <2>2, <3>1 DEF GenesisOps, ProveOps, SubmitOps
  <2>4. ASSUME x \in HeadOps \/ \E a \in Act : x \in RequestOps(a)
        PROVE  x \in WorkOps /\ path[1] \in {"deployment", "scenario.json", "inputs"}
    <3>1. x # Do("absent", Work)
      BY <1>1, <1>5
    <3>2. x \in WorkOps
      BY <2>4, <3>1 DEF WorkOps
    <3>3. \A a : \A y \in RequestOps(a) : y.op = "open" =>
            \/ y.path = Input(a) \/ y.path = Temporary(Request(a))
      BY DEF RequestOps, Do
    <3>4. \A y \in HeadOps : y.op = "open" => y.path \in {Deployment, Scenario}
      BY DEF HeadOps, Do
    <3>5. x.path = path /\ path \in {Deployment, Scenario} \cup {Input(a) : a \in Act}
      <4>1. \A a \in Act : Temporary(Request(a)) \in Temps
        BY DEF Temps, Requests
      <4> QED
        BY <1>2, <1>4, <1>5, <2>4, <3>3, <3>4, <4>1
    <3> QED
      BY <3>2, <3>5 DEF Deployment, Scenario, Input
  <2>5. ASSUME \/ \E a \in Act : x \in ProofOps(a)
               \/ \E a \in Act : x \in FixtureOps(a)
        PROVE  x \in ProvingOps /\ path[1] \in {"proofs", "scripts", "fixtures"}
    <3>1. x \in ProvingOps
      BY <2>5 DEF ProvingOps
    <3>2. \A a : \A y \in ProofOps(a) : y.op = "open" =>
            y.path[1] \in {"proofs", "scripts"}
      BY DEF ProofOps, Do, Proof, Verified, ScriptOf
    <3>3. \A a : \A y \in FixtureOps(a) : y.op = "open" => y.path[1] = "fixtures"
      BY DEF FixtureOps, Do, Fixture, CopyOf
    <3> QED
      BY <1>2, <1>5, <2>5, <3>1, <3>2, <3>3
  <2> HIDE DEF Opens
  <2>6. \/ x \in WorkOps /\ path[1] \in {"deployment", "scenario.json", "inputs"}
        \/ x \in ProvingOps /\ path[1] \in {"proofs", "scripts", "fixtures"}
    BY <2>3, <2>4, <2>5
  <2>7. path # Work
    BY <1>4 DEF Directories
  <2> QED
    BY <1>3, <2>6, <2>7 DEF Owning
<1>6. CASE x.op = "absent"
  <2>1. \A y : y.op = "absent" /\ y.path = path =>
          /\ y \notin FirstOps /\ y \notin ResultOps
          /\ y \notin {Do("absent", Fixtures), Do("mkdirs", Fixtures)}
          /\ y \notin {Do("load", StateFile), Do("absent", Result), Do("read", Result)}
          /\ \A status : y \notin StateOps(status)
          /\ \A a : y \notin ReadOps(a)
          /\ \A a : y \notin FixtureOps(a)
          /\ y # Do("absent", Work)
    BY <1>4 DEF FirstOps, ResultOps, StateOps, ReadOps, FixtureOps, CopyOf, Do, Label,
      Directories
  <2>2. \/ x \in HeadOps
        \/ \E a \in Act : x \in RequestOps(a)
        \/ \E a \in Act : x \in ProofOps(a)
    <3>1. \/ x \in GenesisOps \/ x \in ProveOps \/ x \in SubmitOps
      BY DEF OpsOf, Commands
    <3> QED
      BY <1>2, <1>6, <2>1, <3>1 DEF GenesisOps, ProveOps, SubmitOps
  <2>3. ASSUME x \in HeadOps \/ \E a \in Act : x \in RequestOps(a)
        PROVE  x \in WorkOps /\ path[1] \in {"deployment", "scenario.json", "inputs"}
    <3>1. x \in WorkOps
      BY <1>2, <1>6, <2>1, <2>3 DEF WorkOps
    <3>2. \A a : \A y \in RequestOps(a) : y.op = "absent" => y.path[1] = "inputs"
      BY DEF RequestOps, Do, Input
    <3>3. \A y \in HeadOps : y.op = "absent" =>
            y = Do("absent", Work) \/ y.path[1] \in {"deployment", "scenario.json"}
      BY DEF HeadOps, Do, DeploymentDir, Scenario
    <3> QED
      BY <1>2, <1>6, <2>1, <2>3, <3>1, <3>2, <3>3
  <2>4. ASSUME \E a \in Act : x \in ProofOps(a)
        PROVE  x \in ProvingOps /\ path[1] \in {"proofs", "scripts"}
    <3>1. x \in ProvingOps
      BY <2>4 DEF ProvingOps
    <3>2. \A a : \A y \in ProofOps(a) : y.op = "absent" =>
            y.path[1] \in {"proofs", "scripts"}
      BY DEF ProofOps, Do, ScriptOf
    <3> QED
      BY <1>2, <1>6, <2>4, <3>1, <3>2
  <2>5. path # Work
    BY <1>4 DEF Directories
  <2> QED
    BY <1>3, <2>2, <2>3, <2>4, <2>5 DEF Owning
<1>7. CASE x.op = "mkdir"
  <2>1. x = Do("mkdir", Front(path))
    BY <1>1, <1>7 DEF Checks
  <2>2. ASSUME NEW p \in {Work, DeploymentDir}
        PROVE  Do("mkdir", p) \in WorkOps
    BY <1>1 DEF WorkOps, HeadOps
  <2>3. ASSUME NEW a \in Act
        PROVE  /\ Do("mkdir", <<"inputs", a>>) \in WorkOps
               /\ Do("mkdir", <<"proofs", a>>) \in ProvingOps
               /\ Do("mkdir", <<"fixtures", a>>) \in ProvingOps
               /\ Do("mkdir", Scripts) \in ProvingOps
    BY DEF WorkOps, ProvingOps, RequestOps, ProofOps, FixtureOps
  <2>4. CASE path \in GenesisFiles
    <3>1. /\ Front(Deployment) = DeploymentDir /\ Front(Scenario) = Work
          /\ \A a : Front(Input(a)) = <<"inputs", a>>
      BY FrontOf DEF Deployment, DeploymentDir, Scenario, Work, Input
    <3> QED
      BY <2>1, <2>2, <2>3, <2>4, <3>1 DEF Owning, GenesisFiles
  <2>5. CASE path \notin GenesisFiles
    <3>1. \A a, name : /\ Front(Proof(a)) = <<"proofs", a>> /\ Front(ScriptOf(a)) = Scripts
                       /\ Front(Fixture(a, name)) = <<"fixtures", a>>
      BY FrontOf DEF Proof, ScriptOf, Scripts, Fixture
    <3>2. path \in ProveFiles
      BY <1>3, <2>5
    <3>3. \E a \in Act : \/ path = Proof(a) \/ path = ScriptOf(a)
                          \/ \E name : path = Fixture(a, name)
      BY <3>2 DEF ProveFiles
    <3>4. Do("mkdir", Front(path)) \in ProvingOps
      BY <2>3, <3>1, <3>3
    <3> QED
      BY <2>1, <2>5, <3>4 DEF Owning
  <2> QED
    BY <2>4, <2>5
<1> QED
  BY <1>2, <1>5, <1>6, <1>7

\* Where its owner checked, a file is not there yet; where its owner opened it,
\* it is empty.
Fresh ==
  \A path \in Once : \A r \in Running :
    Window(r, Checks(path), {Do("open", path)}) => ~ Exists(path)

Filling ==
  \A path \in Once : \A r \in Running :
    job[r].pc > 1 /\ Prev(r) = Do("open", path) => Exists(path) /\ files[path] = Torn

\* An owner's steps show who it is.
LEMMA OwnerDid ==
  ASSUME Jobs, NEW path \in Once, NEW r \in Running
  PROVE  /\ \A A : Window(r, Checks(path), A) => Did(r, Owning(path))
         /\ job[r].pc > 1 /\ Prev(r) = Do("open", path) => Did(r, Owning(path))
         /\ job[r].pc \in 1 .. Len(StepsOf(r)) /\ Current(r) = Do("open", path) =>
              Window(r, Checks(path), {Do("open", path)})
<1>1. job[r].command \in Commands
  BY DEF Jobs
<1>2. \A x \in OpsOf(job[r].command) :
        x \in Checks(path) \cup {Do("open", path)} => x \in Owning(path)
  BY <1>1, OnceOwned
<1>3. ASSUME NEW A, Window(r, Checks(path), A)
      PROVE  Did(r, Owning(path))
  BY <1>2, <1>3, WindowDid
<1>4. ASSUME job[r].pc > 1, Prev(r) = Do("open", path)
      PROVE  Did(r, Owning(path))
  <2>1. Prev(r) \in OpsOf(job[r].command)
    BY <1>4, PrevFits
  <2>2. Prev(r) \in Owning(path)
    BY <1>2, <1>4, <2>1
  <2> QED
    BY <1>4, <2>2, DidPrev
<1>5. ASSUME job[r].pc \in 1 .. Len(StepsOf(r)), Current(r) = Do("open", path)
      PROVE  Window(r, Checks(path), {Do("open", path)})
  <2>1. ChecksFirst(StepsOf(r), job[r].pc) /\ Current(r) = StepsOf(r)[job[r].pc]
    BY <1>5, CurrentFits
  <2> QED
    BY <1>5, <2>1 DEF ChecksFirst, Window
<1> QED
  BY <1>3, <1>4, <1>5

\* A file that is written once has one owner.
LEMMA OneOwner ==
  ASSUME Jobs, Built, NEW path, NEW r \in Running, NEW q \in Running,
         Did(r, Owning(path)), Did(q, Owning(path))
  PROVE  r = q
BY SameOwner DEF Owning

\* A file its owner found missing stays so until its owner opens it.
LEMMA FreshKept ==
  ASSUME Jobs, Fds, Tree, Built, Fresh, NEW r \in Running, Advances(r)
  PROVE  Fresh'
<1> SUFFICES ASSUME NEW path \in Once, NEW q \in Running',
                    Window(q, Checks(path), {Do("open", path)})'
             PROVE  path \notin DOMAIN files'
  BY DEF Fresh, Exists
<1> DEFINE C == Checks(path)
           A == {Do("open", path)}
<1>1. /\ Running' = Running /\ job[r].pc \in 1 .. Len(StepsOf(r))
      /\ Possible(Current(r))
  BY DEF Advances
<1>2. /\ Window(r, C, A)' <=> Current(r) \in C \/ (Window(r, C, A) /\ Current(r) \notin A)
      /\ \A p \in Running : p # r => (Window(p, C, A)' <=> Window(p, C, A))
  BY WindowNext
<1>3. path \notin Targets \cup Temps /\ path \notin Directories /\ path # Work
      /\ Front(path) \in Directories
  BY KindsDiffer, ParentsAre
<1>4. path \notin DOMAIN files
  <2>1. CASE Current(r) \in C /\ q = r
    <3>1. \/ Current(r).op = "absent" /\ Current(r).path = path
          \/ Current(r).op = "mkdir" /\ Current(r).path = Front(path)
      BY <2>1, OpensDiffer DEF Checks
    <3>2. path \notin DOMAIN files \/ Front(path) \notin DOMAIN files
      BY <1>1, <3>1 DEF Possible, Exists
    <3> QED
      BY <1>3, <3>2 DEF Tree
  <2>2. CASE Window(q, C, A)
    BY <1>1, <2>2 DEF Fresh, Exists
  <2> QED
    BY <1>1, <1>2, <2>1, <2>2
<1>5. Current(r) # Do("open", path)
  <2> SUFFICES ASSUME Current(r) = Do("open", path) PROVE FALSE
    OBVIOUS
  <2>1. Window(r, C, A)
    BY <1>1, OwnerDid
  <2>2. Did(r, Owning(path))
    BY <2>1, OwnerDid
  <2>3. q = r
    <3>1. CASE q # r
      <4>1. Window(q, C, A)
        BY <1>1, <1>2, <3>1
      <4>2. Did(q, Owning(path))
        BY <1>1, <4>1, OwnerDid
      <4> QED
        BY <1>1, <2>2, <4>2, OneOwner
    <3> QED
      BY <3>1
  <2>4. Current(r) \notin C
    BY OpensDiffer DEF Checks
  <2> QED
    BY <1>2, <2>3, <2>4
<1>6. ~ Touches(r, path)
  BY <1>3, <1>4, <1>5, PlainTouch
<1> QED
  BY <1>4, <1>6, Untouched

\* A file its owner opened stays empty until its owner fills it.
LEMMA FillingKept ==
  ASSUME Jobs, Fds, Tree, Built, Filling, NEW r \in Running, Advances(r)
  PROVE  Filling'
<1> SUFFICES ASSUME NEW path \in Once, NEW q \in Running',
                    job'[q].pc > 1, Prev(q)' = Do("open", path)
             PROVE  path \in DOMAIN files' /\ files'[path] = Torn
  BY DEF Filling, Exists
<1>1. Running' = Running
  BY DEF Advances
<1>2. /\ Prev(r)' = Current(r)
      /\ q # r => Prev(q)' = Prev(q) /\ job'[q].pc = job[q].pc
  BY <1>1, WindowNext
<1>3. path \notin Targets \cup Temps /\ path \notin Directories
  BY KindsDiffer
<1>4. CASE q = r
  <2>1. Current(r).op = "open" /\ Current(r).path = path
    BY <1>2, <1>4, OpensDiffer
  <2> QED
    BY <2>1, Touched
<1>5. CASE q # r
  <2>1. job[q].pc > 1 /\ Prev(q) = Do("open", path)
    BY <1>2, <1>5
  <2>2. path \in DOMAIN files /\ files[path] = Torn
    BY <1>1, <2>1 DEF Filling, Exists
  <2>3. Did(q, Owning(path))
    BY <1>1, <2>1, OwnerDid
  <2>4. ~ (job[r].pc > 1 /\ Prev(r) = Do("open", path))
    BY <1>1, <1>5, <2>3, OwnerDid, OneOwner
  <2>5. Touches(r, path) => path \in DOMAIN files' /\ files'[path] = Torn
    BY <1>3, <2>4, PlainTouch
  <2> QED
    BY <2>2, <2>5, Untouched
<1> QED
  BY <1>4, <1>5

\* What was written once stays.
LEMMA OnceStands ==
  ASSUME Jobs, Fds, Tree, Fresh, Filling, NEW r \in Running, Advances(r),
         NEW path \in Once, Whole(path)
  PROVE  path \in DOMAIN files' /\ files'[path] = files[path]
<1>1. path \notin Targets \cup Temps /\ path \notin Directories
  BY KindsDiffer
<1>2. path \in DOMAIN files /\ files[path] # Torn
  BY DEF Whole, Exists
<1>3. ~ Touches(r, path)
  <2> SUFFICES ASSUME Touches(r, path) PROVE FALSE
    OBVIOUS
  <2>1. CASE Current(r) = Do("open", path)
    <3>1. Window(r, Checks(path), {Do("open", path)})
      BY <2>1, OwnerDid DEF Advances
    <3> QED
      BY <1>2, <3>1 DEF Fresh, Exists
  <2>2. CASE job[r].pc > 1 /\ Prev(r) = Do("open", path)
    BY <1>2, <2>2 DEF Filling
  <2> QED
    BY <1>1, <2>1, <2>2, PlainTouch
<1> QED
  BY <1>2, <1>3, Untouched

-----------------------------------------------------------------------------
(* What was written, or read, is whole                                     *)

Copies == {CopyOf(a, name) : a \in Act, name \in FixtureNames}

\* The steps after which a file is whole.
Ends(path) ==
  {Do("make", path), Do("read", path)} \cup {x \in Copies : x.path = path}

Kept ==
  \A path \in Once : \A r \in Running : Did(r, Ends(path)) => Whole(path)

\* A proof's record is written twice, by its prover, before anyone reads it.
VerifiedFirst ==
  \A a \in Act : \A r \in Running :
    Window(r, {Do("mkdir", <<"proofs", a>>)}, {Do("read", Verified(a))}) =>
      ~ Did(r, {Do("read", Verified(a))})

VerifiedKept ==
  \A a \in Act : \A r \in Running :
    Did(r, {Do("read", Verified(a))}) => Whole(Verified(a))

\* Steps that precede a command's next step were done.
LEMMA PrecedesDid ==
  ASSUME Jobs, NEW r \in Running, job[r].pc \in 1 .. Len(StepsOf(r)),
         NEW y, NEW X, Precedes(StepsOf(r), y, X), Current(r) \in X
  PROVE  Did(r, {y})
<1>1. Current(r) = StepsOf(r)[job[r].pc]
  BY DEF Current, StepsOf
<1> QED
  BY <1>1 DEF Precedes, Did, Window

\* One who reads or opens the record of a proof is its prover.
LEMMA VerifiedOwned ==
  ASSUME Jobs, Built, NEW a \in Act, NEW r \in Running, NEW q \in Running,
         NEW x \in {Do("mkdir", <<"proofs", a>>), Do("open", Verified(a)),
                    Do("read", Verified(a))},
         NEW y \in {Do("mkdir", <<"proofs", a>>), Do("open", Verified(a)),
                    Do("read", Verified(a))},
         NEW A, NEW B, Window(r, {x}, A), Window(q, {y}, B)
  PROVE  r = q
<1>1. x \in ProvingOps /\ y \in ProvingOps
  BY DEF ProvingOps, ProofOps
<1>2. Did(r, ProvingOps)
  <2>1. \A z \in OpsOf(job[r].command) : z \in {x} => z \in ProvingOps
    BY <1>1
  <2> QED
    BY <2>1, WindowDid
<1>3. Did(q, ProvingOps)
  <2>1. \A z \in OpsOf(job[q].command) : z \in {y} => z \in ProvingOps
    BY <1>1
  <2> QED
    BY <2>1, WindowDid
<1> QED
  BY <1>2, <1>3, SameOwner

\* Until the record was read, its prover may write it; after, nobody does.
LEMMA VerifiedStands ==
  ASSUME Jobs, Fds, Tree, Built, VerifiedFirst, VerifiedKept,
         NEW r \in Running, Advances(r), NEW a \in Act, NEW q \in Running,
         Did(q, {Do("read", Verified(a))})
  PROVE  Verified(a) \in DOMAIN files' /\ files'[Verified(a)] # Torn
<1> DEFINE path == Verified(a)
           C == {Do("mkdir", <<"proofs", a>>)}
           A == {Do("read", path)}
<1>1. path \in DOMAIN files /\ files[path] # Torn
  BY DEF VerifiedKept, Whole, Exists
<1>2. path \notin Targets \cup Temps \cup Directories
  BY KindsDiffer
<1>3. ~ Window(r, C, A)
  <2> SUFFICES ASSUME Window(r, C, A) PROVE FALSE
    OBVIOUS
  <2>1. r = q
    <3>1. Window(q, A, {})
      BY DEF Did
    <3> QED
      BY <3>1, VerifiedOwned
  <2> QED
    BY <2>1 DEF VerifiedFirst
<1>4. Current(r) # Do("open", path)
  <2> SUFFICES ASSUME Current(r) = Do("open", path) PROVE FALSE
    OBVIOUS
  <2>1. ChecksFirst(StepsOf(r), job[r].pc) /\ Current(r) = StepsOf(r)[job[r].pc]
    BY CurrentFits DEF Advances
  <2>2. Window(r, C, A)
    BY <2>1 DEF ChecksFirst, Window
  <2> QED
    BY <1>3, <2>2
<1>5. ~ (job[r].pc > 1 /\ Prev(r) = Do("open", path))
  <2> SUFFICES ASSUME job[r].pc > 1, Prev(r) = Do("open", path) PROVE FALSE
    OBVIOUS
  <2> DEFINE k == job[r].pc - 1
             s == StepsOf(r)
  <2>1. /\ k \in 1 .. Len(s) /\ s[k] = Do("open", path) /\ k \in Nat \ {0}
        /\ k + 1 = job[r].pc
    BY PrevFits DEF Prev, Jobs
  <2>2. ChecksFirst(s, k)
    <3>1. s \in Fitting(OpsOf(job[r].command))
      BY CommandFits DEF Jobs, StepsOf
    <3> QED
      BY <2>1, <3>1 DEF Fitting
  <2>3. Since(s, k, C, A)
    BY <2>1, <2>2 DEF ChecksFirst
  <2>4. s[k] \notin A
    BY <2>1, OpensDiffer
  <2>5. Since(s, k + 1, C, A)
    <3> HIDE DEF k, s, C, A
    <3> QED
      BY <2>1, <2>3, <2>4, SinceNext
  <2>6. Window(r, C, A)
    BY <2>1, <2>5 DEF Window
  <2> QED
    BY <1>3, <2>6
<1>6. ~ Touches(r, path)
  <2> HIDE DEF path
  <2> QED
    BY <1>2, <1>4, <1>5, PlainTouch
<1> QED
  BY <1>1, <1>6, Untouched

\* A directory of a proof is made where its record was not read.
LEMMA VerifiedFirstKept ==
  ASSUME Jobs, Tree, VerifiedFirst, VerifiedKept, NEW r \in Running, Advances(r)
  PROVE  VerifiedFirst'
<1> SUFFICES ASSUME NEW a \in Act, NEW q \in Running',
                    Window(q, {Do("mkdir", <<"proofs", a>>)}, {Do("read", Verified(a))})'
             PROVE  ~ Did(q, {Do("read", Verified(a))})'
  BY DEF VerifiedFirst
<1> DEFINE C == {Do("mkdir", <<"proofs", a>>)}
           A == {Do("read", Verified(a))}
<1>1. Running' = Running /\ Possible(Current(r))
  BY DEF Advances
<1>2. /\ Window(r, C, A)' <=> Current(r) \in C \/ (Window(r, C, A) /\ Current(r) \notin A)
      /\ \A p \in Running : p # r => (Window(p, C, A)' <=> Window(p, C, A))
  BY WindowNext
<1>3. /\ Did(r, A)' <=> Current(r) \in A \/ Did(r, A)
      /\ \A p \in Running : p # r => (Did(p, A)' <=> Did(p, A))
  BY WindowNext DEF Did
<1>4. C \cap A = {}
  BY OpensDiffer
<1>5. ASSUME Current(r) \in C
      PROVE  ~ Did(r, A)
  <2>1. Current(r).op = "mkdir" /\ Current(r).path = <<"proofs", a>>
    BY <1>5, OpensDiffer
  <2>2. <<"proofs", a>> \notin DOMAIN files
    BY <1>1, <2>1 DEF Possible, Exists
  <2>3. Front(Verified(a)) = <<"proofs", a>> /\ Verified(a) # Work
    BY FrontOf, ParentsAre DEF Verified
  <2>4. Verified(a) \notin DOMAIN files
    BY <2>2, <2>3 DEF Tree
  <2> QED
    BY <2>4 DEF VerifiedKept, Whole, Exists
<1>6. \A p \in Running : Window(p, C, A) => ~ Did(p, A)
  BY DEF VerifiedFirst
<1> HIDE DEF C, A
<1>7. ~ Did(q, A)'
  BY <1>1, <1>2, <1>3, <1>4, <1>5, <1>6 DEF C, A
<1> QED
  BY <1>7 DEF A

\* A read step finds a whole file and changes none.
LEMMA ReadsWhole ==
  ASSUME Jobs, NEW r \in Running, Advances(r), NEW path,
         Current(r) \in {Do("read", path), Do("load", path)}
  PROVE  Whole(path) /\ files' = files /\ path \in DOMAIN files
<1>1. Current(r).op \in {"read", "load"} /\ Current(r).path = path
  BY OpensDiffer
<1> QED
  BY <1>1 DEF Advances, Possible, Whole, Exists

\* A record that its prover read is whole ever after.
LEMMA VerifiedKeptKept ==
  ASSUME Jobs, Fds, Tree, Built, VerifiedFirst, VerifiedKept,
         NEW r \in Running, Advances(r)
  PROVE  VerifiedKept'
<1> SUFFICES ASSUME NEW a \in Act, NEW q \in Running', Did(q, {Do("read", Verified(a))})'
             PROVE  Verified(a) \in DOMAIN files' /\ files'[Verified(a)] # Torn
  BY DEF VerifiedKept, Whole, Exists, Torn
<1> DEFINE A == {Do("read", Verified(a))}
<1>1. Running' = Running
  BY DEF Advances
<1>2. /\ Did(r, A)' <=> Current(r) \in A \/ Did(r, A)
      /\ \A p \in Running : p # r => (Did(p, A)' <=> Did(p, A))
  BY WindowNext DEF Did
<1>3. CASE Current(r) \in A /\ q = r
  BY <1>3, ReadsWhole DEF Whole, Exists
<1>4. CASE Did(q, A)
  BY <1>1, <1>4, VerifiedStands
<1> QED
  BY <1>1, <1>2, <1>3, <1>4

\* What is written to a file that no rename concerns.
LEMMA MakesFile ==
  ASSUME Jobs, Fds, NEW r \in Running, Advances(r), Current(r).op \in FillOps,
         Current(r).path \notin Targets \cup Temps \cup Directories
  PROVE  /\ Current(r).path \in DOMAIN files'
         /\ files'[Current(r).path] = Contents(r)
<1>1. Opened(Current(r)) = Current(r).path
  BY OpensDiffer DEF Targets
<1>2. job[r].fd = Current(r).path
  BY <1>1, FillsOpened
<1>3. job[r].fd # Closed
  BY <1>2, KindsDiffer
<1> QED
  BY <1>2, <1>3, Touched

\* Made is not torn.
LEMMA MadeIsWhole ==
  /\ \A r : Made(r) # Torn
  /\ Directory # Torn
  /\ \A status, proofs, result : State(status, proofs, result) # Torn
<1>1. Torn.kind = "torn"
  BY DEF Torn
<1>2. /\ \A r : Made(r).kind = "made"
      /\ Directory.kind = "directory"
      /\ \A status, proofs, result : State(status, proofs, result).kind = "state"
  BY DEF Made, Directory, State
<1> QED
  BY <1>1, <1>2

\* What is packaged was read or made by the same run.
LEMMA SourceWhole ==
  ASSUME Jobs, Kept, VerifiedKept, NEW r \in Running,
         job[r].pc \in 1 .. Len(StepsOf(r)),
         NEW a \in Act, NEW name \in FixtureNames, Current(r) = CopyOf(a, name)
  PROVE  Whole(Current(r).source)
<1> DEFINE X == UNION {FixtureOps(b) : b \in Act}
           P == UNION {ProofOps(b) : b \in Act}
<1>1. Current(r) \in X /\ Current(r) \in ProvingOps
  <2>1. Current(r) \in FixtureOps(a)
    BY DEF FixtureOps
  <2> QED
    BY <2>1 DEF ProvingOps
<1>2. job[r].command = "prove"
  BY <1>1, CurrentFits, Owned DEF StepsOf
<1>3. StepsOf(r) = ProveSteps
  BY <1>2 DEF StepsOf, Steps
<1>4. \A y \in P : Precedes(StepsOf(r), y, X)
  BY <1>3, ProveSteps_Fit
<1>5. {Do("read", Input(a)), Do("make", Proof(a)), Do("read", Verified(a)),
       Do("make", ScriptOf(a))} \subseteq P
  BY DEF ProofOps
<1> HIDE DEF X, P
<1>6. \A y \in {Do("read", Input(a)), Do("make", Proof(a)), Do("read", Verified(a)),
                Do("make", ScriptOf(a))} : Did(r, {y})
  BY <1>1, <1>4, <1>5, PrecedesDid
<1>7. ASSUME NEW path \in Once, NEW y \in Ends(path), Did(r, {y})
      PROVE  Whole(path)
  <2>1. \A x \in OpsOf(job[r].command) : x \in {y} => x \in Ends(path)
    BY <1>7
  <2>2. Did(r, Ends(path))
    BY <1>7, <2>1, WindowDid DEF Did
  <2> QED
    BY <2>2 DEF Kept
<1>8. /\ Input(a) \in Once /\ Proof(a) \in Once /\ ScriptOf(a) \in Once
      /\ Do("read", Input(a)) \in Ends(Input(a))
      /\ Do("make", Proof(a)) \in Ends(Proof(a))
      /\ Do("make", ScriptOf(a)) \in Ends(ScriptOf(a))
  BY DEF Once, GenesisFiles, ProveFiles, Ends
<1>9. Whole(Input(a)) /\ Whole(Proof(a)) /\ Whole(ScriptOf(a))
  BY <1>6, <1>7, <1>8
<1>10. Whole(Verified(a))
  BY <1>6 DEF VerifiedKept
<1>11. Current(r).source \in {Input(a), Proof(a), Verified(a), ScriptOf(a)}
  BY DEF CopyOf, FixtureNames
<1> QED
  BY <1>9, <1>10, <1>11

\* A file that its owner made or read is whole ever after.
LEMMA KeptKept ==
  ASSUME Jobs, Fds, Tree, Fresh, Filling, Kept, VerifiedKept,
         NEW r \in Running, Advances(r)
  PROVE  Kept'
<1> SUFFICES ASSUME NEW path \in Once, NEW q \in Running', Did(q, Ends(path))'
             PROVE  path \in DOMAIN files' /\ files'[path] # Torn
  BY DEF Kept, Whole, Exists, Torn
<1> DEFINE A == Ends(path)
<1>1. Running' = Running /\ job[r].pc \in 1 .. Len(StepsOf(r))
  BY DEF Advances
<1>2. /\ Did(r, A)' <=> Current(r) \in A \/ Did(r, A)
      /\ \A p \in Running : p # r => (Did(p, A)' <=> Did(p, A))
  BY WindowNext DEF Did
<1>3. path \notin Targets \cup Temps \cup Directories
  BY KindsDiffer
<1>4. CASE Did(q, A)
  <2>1. Whole(path)
    BY <1>1, <1>4 DEF Kept
  <2>2. path \in DOMAIN files' /\ files'[path] = files[path]
    BY <2>1, OnceStands
  <2> QED
    BY <2>1, <2>2 DEF Whole
<1>5. CASE Current(r) = Do("read", path)
  BY <1>5, ReadsWhole DEF Whole, Exists
<1>6. CASE Current(r) = Do("make", path)
  <2>1. Current(r).op = "make" /\ Current(r).path = path
    BY <1>6, OpensDiffer
  <2>2. path \in DOMAIN files' /\ files'[path] = Made(r)
    BY <1>3, <2>1, MakesFile DEF FillOps, Contents
  <2> QED
    BY <2>2, MadeIsWhole
<1>7. CASE Current(r) \in Copies /\ Current(r).path = path
  <2>1. PICK a \in Act, name \in FixtureNames : Current(r) = CopyOf(a, name)
    BY <1>7 DEF Copies
  <2>2. Current(r).op = "copy"
    BY <2>1, OpensDiffer
  <2>3. Whole(Current(r).source)
    BY <1>1, <2>1, SourceWhole
  <2>4. path \in DOMAIN files' /\ files'[path] = files[Current(r).source]
    BY <1>3, <1>7, <2>2, MakesFile DEF FillOps, Contents
  <2> QED
    BY <2>3, <2>4 DEF Whole
<1> QED
  BY <1>1, <1>2, <1>4, <1>5, <1>6, <1>7 DEF Ends

-----------------------------------------------------------------------------
(* Requests, and the files that stand for others                           *)

\* What only genesis does, but the first, it does in the directory it made.
LEMMA CurrentOwned ==
  ASSUME Jobs, NEW r \in Running, job[r].pc \in 1 .. Len(StepsOf(r)),
         Current(r) \in WorkOps, Current(r) # Do("mkdir", Work)
  PROVE  Did(r, WorkOps)
<1>1. /\ job[r].command \in Commands /\ Current(r) = StepsOf(r)[job[r].pc]
  BY CurrentFits
<1>2. Since(StepsOf(r), job[r].pc + 1, {Do("mkdir", Work)}, {})
  BY <1>1, Owned DEF StepsOf
<1>3. PICK j \in 1 .. (job[r].pc + 1) - 1 : StepsOf(r)[j] = Do("mkdir", Work)
  BY <1>2 DEF Since
<1>4. j \in 1 .. job[r].pc - 1
  BY <1>1, <1>3 DEF Jobs
<1>5. Do("mkdir", Work) \in WorkOps
  BY OpensDiffer DEF WorkOps, HeadOps
<1> QED
  BY <1>3, <1>4, <1>5 DEF Did, Window, Since

\* A request is written to a temporary file, which then replaces it.
Requesting ==
  \A a \in Act : \A r \in Running :
    /\ job[r].pc > 1 /\ Prev(r) = Do("open", Temporary(Request(a))) =>
         job[r].fd = Temporary(Request(a))
    /\ job[r].pc > 1 /\ Prev(r) = Do("make", Request(a)) =>
         Whole(Temporary(Request(a)))
    /\ Did(r, {Do("replace", Request(a)), Do("read", Request(a))}) => Whole(Request(a))

\* The steps at a request, and its paths.
LEMMA RequestStep ==
  ASSUME NEW a \in Act
  PROVE  /\ {Do("mkdir", <<"inputs", a>>), Do("open", Temporary(Request(a))),
             Do("make", Request(a)), Do("replace", Request(a)), Do("read", Request(a))}
              \subseteq WorkOps
         /\ Do("open", Temporary(Request(a))) # Do("mkdir", Work)
         /\ Do("replace", Request(a)) # Do("mkdir", Work)
         /\ Request(a) \in Targets /\ Temporary(Request(a)) \in Temps
         /\ Temporary(Request(a)) \notin Targets \cup Directories /\ Request(a) # StateFile
<1>1. {Do("mkdir", <<"inputs", a>>), Do("open", Temporary(Request(a))),
       Do("make", Request(a)), Do("replace", Request(a)), Do("read", Request(a))}
        \subseteq RequestOps(a)
  BY DEF RequestOps
<1>2. RequestOps(a) \subseteq WorkOps
  BY DEF WorkOps
<1>3. Do("open", Temporary(Request(a))) # Do("mkdir", Work)
      /\ Do("replace", Request(a)) # Do("mkdir", Work)
  BY OpensDiffer
<1>4. Request(a) \in Requests /\ Request(a) # StateFile
  BY DEF Requests, Request, StateFile
<1>5. Request(a) \in Targets /\ Temporary(Request(a)) \in Temps
  BY <1>4 DEF Targets, Temps
<1>6. Temporary(Request(a)) \notin Targets \cup Directories
  BY <1>5, KindsDiffer
<1> QED
  BY <1>1, <1>2, <1>3, <1>4, <1>5, <1>6

\* A replaced request comes from a whole file.
LEMMA RequestReplaced ==
  ASSUME Jobs, Requesting, NEW r \in Running, Advances(r), NEW a \in Act,
         Current(r).op = "replace", Current(r).path = Request(a)
  PROVE  /\ Request(a) \in DOMAIN files' /\ files'[Request(a)] # Torn
         /\ Did(r, WorkOps)
<1>1. FillsNext(StepsOf(r), job[r].pc) /\ Current(r) = StepsOf(r)[job[r].pc]
  BY CurrentFits DEF Advances
<1>2. job[r].pc > 1 /\ Prev(r) = Do("make", Request(a))
  BY <1>1, RequestStep DEF FillsNext, Prev
<1>3. Whole(Temporary(Request(a)))
  BY <1>2 DEF Requesting
<1>4. Request(a) \in DOMAIN files' /\ files'[Request(a)] = files[Temporary(Request(a))]
  BY Touched
<1>5. Did(r, WorkOps)
  BY <1>2, DidPrev, RequestStep
<1> QED
  BY <1>3, <1>4, <1>5 DEF Whole

\* A request that is whole stays whole.
LEMMA RequestStands ==
  ASSUME Jobs, Fds, Requesting, NEW r \in Running, Advances(r), NEW a \in Act,
         Whole(Request(a))
  PROVE  Request(a) \in DOMAIN files' /\ files'[Request(a)] # Torn
<1> DEFINE path == Request(a)
           step == Current(r)
<1>1. path \in DOMAIN files /\ files[path] # Torn
  BY DEF Whole, Exists
<1>2. CASE step.op = "replace" /\ step.path = path
  BY <1>2, RequestReplaced
<1>3. CASE ~ (step.op = "replace" /\ step.path = path)
  <2>1. job[r].command \in Commands /\ step \in OpsOf(job[r].command)
    BY CurrentFits DEF Advances
  <2>2. /\ step.op \in {"mkdir", "mkdirs"} => step.path \in Directories
        /\ step.op = "open" =>
             step.path \in Once \cup {Result} \cup {Verified(b) : b \in Act} \cup Temps
        /\ step.op = "replace" => Temporary(step.path) \in Temps
    BY <2>1, StepForms, KindsDiffer DEF Targets
  <2>3. /\ path \notin Directories /\ path \notin Temps /\ path \notin Once \cup {Result}
        /\ \A b : path # Verified(b)
    BY RequestStep, KindsDiffer
  <2>4. ~ (step.op \in FillOps /\ job[r].fd = path /\ path # Closed)
    <3> SUFFICES ASSUME step.op \in FillOps, job[r].fd = path, path # Closed PROVE FALSE
      OBVIOUS
    <3>1. /\ job[r].pc > 1 /\ Prev(r) = Do("open", Opened(step))
          /\ \/ path = Opened(step)
             \/ Opened(step) = Temporary(path)
      BY FillsOpened
    <3>2. CASE path = Opened(step)
      <4>1. Prev(r) \in OpsOf(job[r].command) /\ Prev(r).op = "open" /\ Prev(r).path = path
        BY <3>1, <3>2, PrevFits, OpensDiffer
      <4> QED
        BY <2>1, <2>3, <4>1, StepForms
    <3>3. CASE Opened(step) = Temporary(path)
      <4>1. job[r].fd = Temporary(path)
        BY <3>1, <3>3 DEF Requesting
      <4> QED
        BY <2>3, <4>1, RequestStep
    <3> QED
      BY <3>1, <3>2, <3>3
  <2>5. ~ Touches(r, path)
    BY <1>3, <2>2, <2>3, <2>4 DEF Touches
  <2> QED
    BY <1>1, <2>5, Untouched
<1> QED
  BY <1>2, <1>3

\* A request is whole before it replaces anything, and after.
LEMMA RequestingKept ==
  ASSUME Jobs, Fds, Tree, Built, Requesting, NEW r \in Running, Advances(r)
  PROVE  Requesting'
<1> SUFFICES ASSUME NEW a \in Act, NEW q \in Running'
             PROVE  /\ job'[q].pc > 1 /\ Prev(q)' = Do("open", Temporary(Request(a))) =>
                         job'[q].fd = Temporary(Request(a))
                    /\ job'[q].pc > 1 /\ Prev(q)' = Do("make", Request(a)) =>
                         /\ Temporary(Request(a)) \in DOMAIN files'
                         /\ files'[Temporary(Request(a))] # Torn
                    /\ Did(q, {Do("replace", Request(a)), Do("read", Request(a))})' =>
                         Request(a) \in DOMAIN files' /\ files'[Request(a)] # Torn
  BY DEF Requesting, Whole, Exists, Torn
<1> DEFINE path == Request(a)
           temp == Temporary(path)
           step == Current(r)
           A == {Do("replace", path), Do("read", path)}
<1>1. /\ Running' = Running /\ job[r].pc \in 1 .. Len(StepsOf(r))
      /\ job[r].command \in Commands /\ step \in OpsOf(job[r].command)
  BY CurrentFits DEF Advances
<1>2. /\ Prev(r)' = step
      /\ q # r => Prev(q)' = Prev(q) /\ job'[q].pc = job[q].pc
  BY <1>1, WindowNext
<1>3. /\ Did(r, A)' <=> step \in A \/ Did(r, A)
      /\ \A p \in Running : p # r => (Did(p, A)' <=> Did(p, A))
  BY WindowNext DEF Did
<1>4. /\ step.op \in {"mkdir", "mkdirs"} => step.path \in Directories
      /\ step.op = "open" => step = Do("open", step.path)
      /\ step.op = "replace" => step.path \in Targets /\ step = Do("replace", step.path)
  BY <1>1, StepForms DEF Targets
<1>5. step.op = "replace" /\ temp = Temporary(step.path) => step.path = path
  BY <1>4, RequestStep, KindsDiffer
<1>6. ASSUME job'[q].pc > 1, Prev(q)' = Do("open", temp)
      PROVE  job'[q].fd = temp
  <2>1. CASE q = r
    <3>1. step.op = "open" /\ step.path = temp
      BY <1>2, <1>6, <2>1, OpensDiffer
    <3> QED
      BY <2>1, <3>1 DEF Advances
  <2>2. CASE q # r
    <3>1. job[q].pc > 1 /\ Prev(q) = Do("open", temp)
      BY <1>2, <1>6, <2>2
    <3>2. job[q].fd = temp /\ job'[q].fd = Moved(step, job[q].fd)
      BY <1>1, <2>2, <3>1 DEF Requesting, Advances
    <3>3. Did(q, WorkOps)
      BY <1>1, <3>1, DidPrev, RequestStep
    <3>4. ~ (step.op = "replace" /\ step.path = path)
      BY <1>1, <2>2, <3>3, RequestReplaced, SameOwner
    <3>5. step.op = "replace" => temp # step.path
      BY <1>4, RequestStep
    <3> QED
      BY <1>5, <3>2, <3>4, <3>5 DEF Moved
  <2> QED
    BY <2>1, <2>2
<1>7. ASSUME job'[q].pc > 1, Prev(q)' = Do("make", path)
      PROVE  temp \in DOMAIN files' /\ files'[temp] # Torn
  <2>1. CASE q = r
    <3>1. step.op = "make" /\ step = Do("make", path)
      BY <1>2, <1>7, <2>1, OpensDiffer
    <3>2. Opened(step) = temp
      BY <3>1, OpensDiffer
    <3>3. job[r].pc > 1 /\ Prev(r) = Do("open", temp)
      BY <3>1, <3>2, FillsOpened DEF FillOps
    <3>4. job[r].fd = temp /\ temp # Closed
      <4>1. temp \in Temps
        BY RequestStep
      <4>2. temp # Closed
        BY <4>1, KindsDiffer
      <4>3. job[r].fd = temp
        BY <3>3 DEF Requesting
      <4> QED
        BY <4>2, <4>3
    <3>5. temp \in DOMAIN files' /\ files'[temp] = Made(r)
      BY <3>1, <3>4, Touched DEF FillOps, Contents
    <3> QED
      BY <3>5, MadeIsWhole
  <2>2. CASE q # r
    <3>1. job[q].pc > 1 /\ Prev(q) = Do("make", path)
      BY <1>2, <1>7, <2>2
    <3>2. Whole(temp)
      BY <1>1, <3>1 DEF Requesting
    <3>3. Did(q, WorkOps)
      BY <1>1, <3>1, DidPrev, RequestStep
    <3>4. ~ Did(r, WorkOps)
      BY <1>1, <2>2, <3>3, SameOwner
    <3>5. step # Do("open", temp)
      BY <1>1, <3>4, CurrentOwned, RequestStep
    <3>6. ~ (step.op = "replace" /\ step.path = path)
      BY <3>4, RequestReplaced
    <3>7. ~ (step.op \in FillOps /\ job[r].fd = temp /\ temp # Closed)
      <4> SUFFICES ASSUME step.op \in FillOps, job[r].fd = temp, temp # Closed PROVE FALSE
        OBVIOUS
      <4>1. job[r].pc > 1 /\ Prev(r) = Do("open", temp)
        BY FillsOpened, RequestStep
      <4> QED
        BY <3>4, <4>1, DidPrev, RequestStep
    <3>8. ~ Touches(r, temp)
      BY <1>4, <1>5, <3>5, <3>6, <3>7, RequestStep DEF Touches
    <3> QED
      BY <3>2, <3>8, Untouched DEF Whole, Exists
  <2> QED
    BY <2>1, <2>2
<1>8. ASSUME Did(q, A)'
      PROVE  path \in DOMAIN files' /\ files'[path] # Torn
  <2>1. CASE Did(q, A)
    BY <1>1, <2>1, RequestStands DEF Requesting
  <2>2. CASE step = Do("replace", path)
    BY <2>2, RequestReplaced, OpensDiffer
  <2>3. CASE step = Do("read", path)
    BY <2>3, ReadsWhole DEF Whole, Exists
  <2> QED
    BY <1>1, <1>3, <1>8, <2>1, <2>2, <2>3
<1> QED
  BY <1>6, <1>7, <1>8

-----------------------------------------------------------------------------
(* PreparedComplete                                                        *)

\* A state that was loaded is there.
Loaded ==
  \A r \in Running : Did(r, {Do("load", StateFile)}) => Exists(StateFile)

\* Nothing removes a state file.
LEMMA LoadedKept ==
  ASSUME Jobs, Loaded, NEW r \in Running, Advances(r)
  PROVE  Loaded'
<1> DEFINE A == {Do("load", StateFile)}
<1> SUFFICES ASSUME NEW q \in Running', Did(q, A)'
             PROVE  StateFile \in DOMAIN files'
  BY DEF Loaded, Exists
<1>1. Running' = Running
  BY DEF Advances
<1>2. /\ Did(r, A)' <=> Current(r) \in A \/ Did(r, A)
      /\ \A p \in Running : p # r => (Did(p, A)' <=> Did(p, A))
  BY WindowNext DEF Did
<1>3. CASE Current(r) \in A
  BY <1>3, ReadsWhole DEF Whole, Exists
<1>4. CASE Did(q, A)
  <2>1. StateFile \in DOMAIN files
    BY <1>1, <1>4 DEF Loaded, Exists
  <2>2. StateFile \notin Temps
    BY KindsDiffer DEF Targets
  <2> QED
    BY <2>1, <2>2, Persists
<1> QED
  BY <1>1, <1>2, <1>3, <1>4

\* A state file comes to be only by a replacement.
LEMMA StateFileReplaced ==
  ASSUME Jobs, Tree, NEW r \in Running, Advances(r),
         ~ Exists(StateFile), StateFile \in DOMAIN files'
  PROVE  Current(r) = Do("replace", StateFile)
<1> DEFINE step == Current(r)
<1>1. job[r].command \in Commands /\ step \in OpsOf(job[r].command)
  BY CurrentFits DEF Advances
<1>2. /\ step.op \in {"mkdir", "mkdirs"} => step.path \in Directories
      /\ step.op = "open" =>
           step.path \in Once \cup {Result} \cup {Verified(b) : b \in Act} \cup Temps
      /\ step.op = "replace" => step.path \in Targets /\ step = Do("replace", step.path)
  BY <1>1, StepForms DEF Targets
<1>3. StateFile \in Targets
  BY DEF Targets
<1>4. /\ StateFile \notin Directories /\ StateFile \notin Temps
      /\ StateFile \notin Once \cup {Result} /\ \A b : StateFile # Verified(b)
  BY <1>3, KindsDiffer
<1>5. StateFile # job[r].fd \/ job[r].fd = Closed
  BY DEF Tree, Exists
<1>6. Touches(r, StateFile)
  BY Untouched DEF Exists
<1>7. step.op = "replace" => StateFile # Temporary(step.path)
  BY <1>2, <1>4, KindsDiffer
<1>8. step.op = "replace" /\ step.path = StateFile
  BY <1>2, <1>4, <1>5, <1>6, <1>7 DEF Touches
<1> QED
  BY <1>2, <1>8

\* Who writes the first state is genesis.
LEMMA FoundedFirst ==
  ASSUME Jobs, Loaded, NEW r \in Running, job[r].pc \in 1 .. Len(StepsOf(r)),
         ~ Exists(StateFile), Current(r) \in StateOps(StatusOf(job[r].command))
  PROVE  job[r].command = "genesis"
<1>1. job[r].command \in {"genesis", "prove", "submit"}
  BY DEF Jobs, Commands
<1> DEFINE y == Do("load", StateFile)
           X == StateOps(StatusOf(job[r].command))
<1>2. ASSUME job[r].command # "genesis"
      PROVE  Precedes(StepsOf(r), y, X)
  <2>1. CASE job[r].command = "prove"
    <3>1. StepsOf(r) = ProveSteps /\ X = StateOps("proved")
      BY <2>1 DEF StepsOf, Steps, StatusOf
    <3>2. Precedes(ProveSteps, y, StateOps("proved"))
      BY ProveSteps_Fit
    <3> QED
      BY <3>1, <3>2
  <2>2. CASE job[r].command = "submit"
    <3>1. StepsOf(r) = SubmitSteps /\ X = StateOps("mined")
      BY <2>2 DEF StepsOf, Steps, StatusOf
    <3>2. Precedes(SubmitSteps, y, StateOps("mined"))
      BY SubmitSteps_Fit
    <3> QED
      BY <3>1, <3>2
  <2> QED
    BY <1>1, <1>2, <2>1, <2>2
<1>3. ASSUME job[r].command # "genesis"
      PROVE  FALSE
  <2> HIDE DEF y, X
  <2>1. Did(r, {y})
    BY <1>2, <1>3, PrecedesDid DEF X
  <2> QED
    BY <2>1 DEF Loaded, y
<1> QED
  BY <1>3

\* What genesis did when it writes the state.
LEMMA FounderWrote ==
  ASSUME Jobs, Kept, Requesting, NEW r \in Running,
         job[r].pc \in 1 .. Len(StepsOf(r)), job[r].command = "genesis",
         Current(r) \in StateOps("prepared")
  PROVE  /\ Whole(Deployment) /\ Whole(Scenario)
         /\ \A a \in Act : Whole(Request(a)) /\ Whole(Input(a))
<1> DEFINE Y == HeadOps \cup (UNION {RequestOps(a) : a \in Act})
           X == StateOps("prepared")
<1>1. \A y \in Y : Precedes(StepsOf(r), y, X)
  BY GenesisSteps_Fit DEF StepsOf, Steps
<1>2. /\ Do("make", Deployment) \in Y /\ Do("make", Scenario) \in Y
      /\ \A a \in Act : {Do("make", Input(a)), Do("read", Request(a))} \subseteq Y
  BY DEF HeadOps, RequestOps
<1> HIDE DEF X, Y
<1>3. \A y \in Y : Did(r, {y})
  BY <1>1, PrecedesDid DEF X
<1>4. ASSUME NEW path \in Once, Do("make", path) \in Y
      PROVE  Whole(path)
  <2>1. Did(r, {Do("make", path)})
    BY <1>3, <1>4
  <2>2. \A x \in OpsOf(job[r].command) : x \in {Do("make", path)} => x \in Ends(path)
    BY DEF Ends
  <2>3. Did(r, Ends(path))
    BY <2>1, <2>2, WindowDid DEF Did
  <2> QED
    BY <2>3 DEF Kept
<1>5. Deployment \in Once /\ Scenario \in Once /\ \A a \in Act : Input(a) \in Once
  BY DEF Once, GenesisFiles
<1>6. ASSUME NEW a \in Act
      PROVE  Whole(Request(a))
  <2> DEFINE D == {Do("replace", Request(a)), Do("read", Request(a))}
  <2>1. Did(r, {Do("read", Request(a))})
    BY <1>2, <1>3
  <2>2. \A x \in OpsOf(job[r].command) : x \in {Do("read", Request(a))} => x \in D
    OBVIOUS
  <2>3. Did(r, D)
    <3> HIDE DEF D
    <3> QED
      BY <2>1, <2>2, WindowDid DEF Did
  <2> QED
    BY <2>3 DEF Requesting
<1> QED
  BY <1>2, <1>4, <1>5, <1>6

\* What a state file stands for stays.
LEMMA PreparedCompleteKept ==
  ASSUME Jobs, Fds, Tree, Fresh, Filling, Kept, Requesting, Loaded,
         PreparedComplete, NEW r \in Running, Advances(r)
  PROVE  PreparedComplete'
<1> SUFFICES ASSUME StateFile \in DOMAIN files'
             PROVE  \A path \in {Deployment, Scenario} \cup Requests \cup {Input(a) : a \in Act} :
                      path \in DOMAIN files' /\ files'[path] # Torn
  <2>1. \A k \in DOMAIN Actions : Actions[k] \in Act
    BY DEF Act
  <2> QED
    BY <2>1 DEF PreparedComplete, Whole, Exists, Torn, Requests
<1>1. /\ Whole(Deployment) /\ Whole(Scenario)
      /\ \A a \in Act : Whole(Request(a)) /\ Whole(Input(a))
  <2>1. CASE Exists(StateFile)
    BY <2>1 DEF PreparedComplete, Act
  <2>2. CASE ~ Exists(StateFile)
    <3>1. Current(r) = Do("replace", StateFile) /\ job[r].pc \in 1 .. Len(StepsOf(r))
      BY <2>2, StateFileReplaced DEF Advances
    <3>2. \A status : Current(r) \in StateOps(status)
      BY <3>1 DEF StateOps
    <3>3. job[r].command = "genesis"
      BY <2>2, <3>1, <3>2, FoundedFirst
    <3> QED
      BY <3>1, <3>2, <3>3, FounderWrote
  <2> QED
    BY <2>1, <2>2
<1>2. /\ Deployment \in Once /\ Scenario \in Once /\ \A a \in Act : Input(a) \in Once
  BY DEF Once, GenesisFiles
<1>3. ASSUME NEW path \in Once, Whole(path)
      PROVE  path \in DOMAIN files' /\ files'[path] # Torn
  BY <1>3, OnceStands DEF Whole
<1>4. \A a \in Act : Request(a) \in DOMAIN files' /\ files'[Request(a)] # Torn
  BY <1>1, RequestStands
<1> QED
  BY <1>1, <1>2, <1>3, <1>4 DEF Requests

-----------------------------------------------------------------------------
(* ResultHasFixtures                                                       *)

\* Where a packaged script is, its proof was packaged before.
ScriptsHaveProofs ==
  \A a \in Act : Exists(Fixture(a, "script.json")) => Whole(Fixture(a, "proof.bin"))

\* A fixture of an action is written once.
LEMMA FixtureOnce ==
  /\ \A a \in Act, name \in FixtureNames :
       /\ Fixture(a, name) \in Once
       /\ Fixture(a, name) \notin Targets \cup Temps \cup Directories
  /\ FixtureNames = {"input.json", "proof.bin", "verified.json", "script.json"}
<1>1. \A a \in Act, name \in FixtureNames : Fixture(a, name) \in Once
  BY DEF Once, ProveFiles
<1> QED
  BY <1>1, KindsDiffer DEF FixtureNames

\* A script is packaged when its proof was.
LEMMA ScriptsHaveProofsKept ==
  ASSUME Jobs, Fds, Tree, Fresh, Filling, Kept, ScriptsHaveProofs,
         NEW r \in Running, Advances(r)
  PROVE  ScriptsHaveProofs'
<1> SUFFICES ASSUME NEW a \in Act, Fixture(a, "script.json") \in DOMAIN files'
             PROVE  /\ Fixture(a, "proof.bin") \in DOMAIN files'
                    /\ files'[Fixture(a, "proof.bin")] # Torn
  BY DEF ScriptsHaveProofs, Whole, Exists, Torn
<1> DEFINE script == Fixture(a, "script.json")
           proof == Fixture(a, "proof.bin")
<1>1. /\ script \notin Targets \cup Temps \cup Directories /\ proof \in Once
  BY FixtureOnce
<1>2. Whole(proof)
  <2>1. CASE Exists(script)
    BY <2>1 DEF ScriptsHaveProofs
  <2>2. CASE ~ Exists(script)
    <3>1. Touches(r, script)
      BY <2>2, Untouched DEF Exists
    <3>2. Current(r) = Do("open", script)
      <4> HIDE DEF script
      <4>1. script \notin DOMAIN files
        BY <2>2 DEF Exists
      <4> QED
        BY <1>1, <3>1, <4>1, PlainTouch
    <3>3. ChecksFirst(StepsOf(r), job[r].pc) /\ Current(r) = StepsOf(r)[job[r].pc]
      BY CurrentFits DEF Advances
    <3>4. Did(r, {CopyOf(a, "proof.bin")})
      BY <3>2, <3>3 DEF ChecksFirst, Did, Window
    <3>5. CopyOf(a, "proof.bin") \in Ends(proof)
      BY OpensDiffer, FixtureOnce DEF Ends, Copies
    <3>6. Did(r, Ends(proof))
      <4>1. \A x \in OpsOf(job[r].command) : x \in {CopyOf(a, "proof.bin")} => x \in Ends(proof)
        BY <3>5
      <4> HIDE DEF proof
      <4> QED
        BY <3>4, <4>1, WindowDid DEF Did
    <3> QED
      BY <1>1, <3>6 DEF Kept
  <2> QED
    BY <2>1, <2>2
<1> QED
  BY <1>1, <1>2, OnceStands DEF Whole

\* Only submit writes a result.
LEMMA ResultOwned ==
  ASSUME NEW c \in Commands, NEW x \in OpsOf(c), x.path = Result
  PROVE  c = "submit"
<1>1. Result = <<"result.json">> /\ Result # Work /\ Result[1] = "result.json"
  BY DEF Result, Work
<1>2. \A a : \A z \in RequestOps(a) \cup ProofOps(a) \cup FixtureOps(a) : z.path # Result
  <2>1. \A a : \A z \in RequestOps(a) : z.path # Result
    BY <1>1, Temporaries DEF RequestOps, Do, Input, Request
  <2>2. \A a : \A z \in ProofOps(a) : z.path # Result
    BY <1>1 DEF ProofOps, Do, Input, Proof, Verified, ScriptOf, Deployment
  <2>3. \A a : \A z \in FixtureOps(a) : z.path # Result
    BY <1>1 DEF FixtureOps, Do, CopyOf, Fixture
  <2> QED
    BY <2>1, <2>2, <2>3
<1>3. \A z \in HeadOps \cup FirstOps \cup {Do("absent", Fixtures), Do("mkdirs", Fixtures),
                                           Do("load", StateFile)} :
        z.path # Result
  BY <1>1 DEF HeadOps, FirstOps, Do, Work, Inputs, Proofs, Scripts, Fixtures,
              DeploymentDir, Deployment, Scenario, StateFile
<1>4. \A status : \A z \in StateOps(status) : z.path # Result
  BY <1>1, Temporaries DEF StateOps, Label, Do, StateFile
<1>5. x \notin GenesisOps
  BY <1>2, <1>3, <1>4 DEF GenesisOps
<1>6. x \notin ProveOps
  BY <1>2, <1>3, <1>4 DEF ProveOps
<1> QED
  BY <1>5, <1>6 DEF OpsOf, Commands

\* Who writes a result has read the fixtures.
LEMMA FixturesRead ==
  ASSUME Jobs, Kept, ScriptsHaveProofs, NEW r \in Running,
         job[r].pc \in 1 .. Len(StepsOf(r)),
         Current(r) \in {Do("open", Result), Do("make", Result)},
         NEW a \in Act, NEW name \in FixtureNames
  PROVE  Whole(Fixture(a, name))
<1> DEFINE X == {Do("open", Result), Do("make", Result)}
<1>1. Current(r).path = Result
  BY OpensDiffer
<1>2. job[r].command = "submit"
  BY <1>1, CurrentFits, ResultOwned
<1>3. \A y \in ReadOps(a) : Precedes(StepsOf(r), y, X)
  <2>1. StepsOf(r) = SubmitSteps
    BY <1>2 DEF StepsOf, Steps
  <2>2. \A y \in UNION {ReadOps(b) : b \in Act} : Precedes(SubmitSteps, y, X)
    BY SubmitSteps_Fit
  <2> HIDE DEF X
  <2> QED
    BY <2>1, <2>2
<1>4. ASSUME NEW n \in FixtureNames, Do("read", Fixture(a, n)) \in ReadOps(a)
      PROVE  Whole(Fixture(a, n))
  <2> DEFINE y == Do("read", Fixture(a, n))
  <2>1. Did(r, {y})
    <3>1. Precedes(StepsOf(r), y, X)
      BY <1>3, <1>4
    <3> HIDE DEF X, y
    <3>2. Current(r) \in X
      BY DEF X
    <3> QED
      BY <3>1, <3>2, PrecedesDid
  <2>2. y \in Ends(Fixture(a, n))
    BY DEF Ends
  <2>3. Did(r, Ends(Fixture(a, n)))
    <3>1. \A x \in OpsOf(job[r].command) : x \in {y} => x \in Ends(Fixture(a, n))
      BY <2>2
    <3> QED
      BY <2>1, <3>1, WindowDid DEF Did
  <2>4. Fixture(a, n) \in Once
    BY FixtureOnce
  <2> QED
    BY <2>3, <2>4 DEF Kept
<1>5. /\ Do("read", Fixture(a, "input.json")) \in ReadOps(a)
      /\ Do("read", Fixture(a, "verified.json")) \in ReadOps(a)
      /\ Do("read", Fixture(a, "script.json")) \in ReadOps(a)
  BY DEF ReadOps
<1>6. /\ Whole(Fixture(a, "input.json")) /\ Whole(Fixture(a, "verified.json"))
      /\ Whole(Fixture(a, "script.json"))
  BY <1>4, <1>5, FixtureOnce
<1>7. Whole(Fixture(a, "proof.bin"))
  BY <1>6 DEF ScriptsHaveProofs, Whole
<1> QED
  BY <1>6, <1>7, FixtureOnce

\* A result comes to be where every fixture is, and fixtures stay.
LEMMA ResultHasFixturesKept ==
  ASSUME Jobs, Fds, Tree, Fresh, Filling, Kept, ScriptsHaveProofs,
         ResultHasFixtures, NEW r \in Running, Advances(r)
  PROVE  ResultHasFixtures'
<1> SUFFICES ASSUME Result \in DOMAIN files', NEW a \in Act, NEW name \in FixtureNames
             PROVE  /\ Fixture(a, name) \in DOMAIN files'
                    /\ files'[Fixture(a, name)] # Torn
  <2>1. \A k \in DOMAIN Actions : Actions[k] \in Act
    BY DEF Act
  <2> QED
    BY <2>1 DEF ResultHasFixtures, Whole, Exists, Torn
<1>1. Whole(Fixture(a, name))
  <2>1. CASE Exists(Result)
    BY <2>1 DEF ResultHasFixtures, Act
  <2>2. CASE ~ Exists(Result)
    <3>1. Result \notin DOMAIN files /\ Touches(r, Result)
      BY <2>2, Untouched DEF Exists
    <3>2. Result \notin Targets \cup Temps \cup Directories
      BY KindsDiffer
    <3>3. Current(r) = Do("open", Result)
      BY <3>1, <3>2, PlainTouch
    <3> QED
      BY <3>3, FixturesRead DEF Advances
  <2> QED
    BY <2>1, <2>2
<1> QED
  BY <1>1, FixtureOnce, OnceStands DEF Whole

-----------------------------------------------------------------------------
(* The invariant, and the theorems                                         *)

LifecycleInv ==
  /\ Jobs /\ Tree /\ Fds /\ Built /\ Fresh /\ Filling
  /\ VerifiedFirst /\ VerifiedKept /\ Kept
  /\ Requesting /\ Loaded /\ ScriptsHaveProofs
  /\ PreparedComplete /\ ResultHasFixtures

\* With no command there is nothing to go wrong.
LEMMA LifecycleInit == Init => LifecycleInv
<1> SUFFICES ASSUME Init PROVE LifecycleInv
  OBVIOUS
<1>1. /\ DOMAIN files = {} /\ Running = {} /\ runs = 0
      /\ job = [r \in Running |-> job[r]]
  BY DEF Init, Running
<1>2. Jobs
  BY <1>1, LifecycleAssumption DEF Jobs
<1>3. Tree /\ Fds /\ Built /\ Fresh /\ Filling
  BY <1>1 DEF Tree, Fds, Built, Fresh, Filling
<1>4. VerifiedFirst /\ VerifiedKept /\ Kept /\ Requesting /\ Loaded
  BY <1>1 DEF VerifiedFirst, VerifiedKept, Kept, Requesting, Loaded
<1>5. ScriptsHaveProofs /\ PreparedComplete /\ ResultHasFixtures
  BY <1>1 DEF ScriptsHaveProofs, PreparedComplete, ResultHasFixtures, Exists
<1> QED
  BY <1>2, <1>3, <1>4, <1>5 DEF LifecycleInv

\* Nor does a command that starts or ends disturb anything.
LEMMA LifecycleIdle ==
  ASSUME LifecycleInv, Idles, Jobs'
  PROVE  LifecycleInv'
<1>1. /\ files' = files /\ Jobs
      /\ Tree /\ Fds /\ Built /\ Fresh /\ Filling
      /\ VerifiedFirst /\ VerifiedKept /\ Kept
      /\ Requesting /\ Loaded /\ ScriptsHaveProofs
      /\ PreparedComplete /\ ResultHasFixtures
  BY DEF LifecycleInv, Idles
<1>2. \A q \in Running' :
        /\ \A C, A : Window(q, C, A)' => q \in Running /\ Window(q, C, A)
        /\ job'[q].pc > 1 => q \in Running
        /\ job'[q].fd # Closed => q \in Running
        /\ q \in Running => job'[q] = job[q] /\ Prev(q)' = Prev(q)
  BY <1>1, WindowIdle
<1>3. \A q \in Running' : \A C : Did(q, C)' => q \in Running /\ Did(q, C)
  BY <1>2 DEF Did
<1>4. Tree'
  BY <1>1, <1>2 DEF Tree, Exists
<1>5. Fds'
  BY <1>1, <1>2 DEF Fds
<1>6. Built'
  BY <1>1, <1>3 DEF Built, Exists
<1>7. Fresh' /\ VerifiedFirst'
  <2>1. Fresh'
    BY <1>1, <1>2 DEF Fresh, Exists
  <2>2. VerifiedFirst'
    BY <1>1, <1>2, <1>3 DEF VerifiedFirst
  <2> QED
    BY <2>1, <2>2
<1>8. Filling'
  BY <1>1, <1>2 DEF Filling, Exists
<1>9. VerifiedKept' /\ Kept'
  BY <1>1, <1>3 DEF VerifiedKept, Kept, Whole, Exists
<1>10. Requesting'
  BY <1>1, <1>2, <1>3 DEF Requesting, Whole, Exists
<1>11. Loaded'
  BY <1>1, <1>3 DEF Loaded, Exists
<1>12. ScriptsHaveProofs' /\ PreparedComplete' /\ ResultHasFixtures'
  BY <1>1 DEF ScriptsHaveProofs, PreparedComplete, ResultHasFixtures, Whole, Exists
<1> QED
  BY <1>4, <1>5, <1>6, <1>7, <1>8, <1>9, <1>10, <1>11, <1>12 DEF LifecycleInv

\* A job's next step preserves each part.
LEMMA LifecycleStep ==
  ASSUME LifecycleInv, Jobs', NEW r \in Running, Advances(r)
  PROVE  LifecycleInv'
<1> USE DEF LifecycleInv
<1>1. Tree' /\ Fds' /\ Built'
  BY TreeKept, FdsKept, BuiltKept
<1>2. Fresh' /\ Filling'
  BY FreshKept, FillingKept
<1>3. VerifiedFirst' /\ VerifiedKept' /\ Kept'
  BY VerifiedFirstKept, VerifiedKeptKept, KeptKept
<1>4. Requesting' /\ Loaded' /\ ScriptsHaveProofs'
  BY RequestingKept, LoadedKept, ScriptsHaveProofsKept
<1>5. PreparedComplete' /\ ResultHasFixtures'
  BY PreparedCompleteKept, ResultHasFixturesKept
<1> QED
  BY <1>1, <1>2, <1>3, <1>4, <1>5

\* What stutters idles.
LEMMA StutterIdles ==
  ASSUME Jobs, UNCHANGED vars
  PROVE  Jobs' /\ Idles
<1>1. files' = files /\ job' = job /\ runs' = runs
  BY DEF vars
<1>2. Running' = Running
  BY <1>1 DEF Running
<1>3. Jobs'
  BY <1>1, <1>2 DEF Jobs, StepsOf
<1> QED
  BY <1>1, <1>2, <1>3 DEF Idles

\* The invariant holds whatever commands run at a time, and are killed.
LEMMA LifecycleNext ==
  ASSUME LifecycleInv, [Next]_vars
  PROVE  /\ LifecycleInv'
         /\ Jobs' /\ (Idles \/ \E r \in Running : Advances(r))
<1>1. Jobs' /\ (Idles \/ \E r \in Running : Advances(r))
  BY NextEffect, StutterIdles DEF LifecycleInv
<1> QED
  BY <1>1, LifecycleIdle, LifecycleStep

\* The invariant of the work directory, whatever commands run, and however
\* many at a time.
THEOREM Lifecycle_Invariant == Spec => []LifecycleInv
<1>1. LifecycleInv /\ [Next]_vars => LifecycleInv'
  BY LifecycleNext
<1> QED
  BY <1>1, LifecycleInit, PTL DEF Spec

\* scripts/lifecycle.py, genesis: however many commands run and wherever they
\* are killed, a state file is there only when what later commands read is.
THEOREM Prepared_Complete == Spec => []PreparedComplete
<1>1. LifecycleInv => PreparedComplete
  BY DEF LifecycleInv
<1> QED
  BY <1>1, Lifecycle_Invariant, PTL

\* scripts/lifecycle.py, submit: a result is there only when every fixture of
\* every action is, whole, whoever else runs.
THEOREM Results_Have_Fixtures == Spec => []ResultHasFixtures
<1>1. LifecycleInv => ResultHasFixtures
  BY DEF LifecycleInv
<1> QED
  BY <1>1, Lifecycle_Invariant, PTL

\* README.md, "refuse to overwrite existing proof or result artifacts": no
\* command, and no two at once, change a proof that was written.
THEOREM Proofs_Stand == Spec => ProofsStand
<1> DEFINE Stand == \A k \in DOMAIN Actions :
              LET proof == Proof(Actions[k])
              IN  Whole(proof) => proof \in DOMAIN files' /\ files'[proof] = files[proof]
<1>1. LifecycleInv /\ [Next]_vars => [Stand]_vars
  <2> SUFFICES ASSUME LifecycleInv, [Next]_vars, NEW k \in DOMAIN Actions,
                      Whole(Proof(Actions[k]))
               PROVE  /\ Proof(Actions[k]) \in DOMAIN files'
                      /\ files'[Proof(Actions[k])] = files[Proof(Actions[k])]
    OBVIOUS
  <2>1. Proof(Actions[k]) \in Once
    BY DEF Act, Once, ProveFiles
  <2>2. Idles \/ \E r \in Running : Advances(r)
    BY LifecycleNext
  <2>3. CASE Idles
    BY <2>3 DEF Idles, Whole, Exists
  <2>4. CASE \E r \in Running : Advances(r)
    BY <2>1, <2>4, OnceStands DEF LifecycleInv
  <2> QED
    BY <2>2, <2>3, <2>4
<1>2. Spec => [][Stand]_vars
  BY <1>1, Lifecycle_Invariant, PTL DEF Spec
<1> QED
  BY <1>2 DEF ProofsStand

-----------------------------------------------------------------------------
(* The state, however many commands share its temporary file               *)

\* A state that has what it claims among the files fs.
Backed(v, fs) ==
  /\ v # Torn
  /\ v.status \in {"proved", "mined"} =>
       \A a \in Act, name \in FixtureNames :
         Fixture(a, name) \in DOMAIN fs /\ fs[Fixture(a, name)] # Torn
  /\ v.status = "proved" =>
       \A k \in DOMAIN Actions : v.proofs[k] = fs[Fixture(Actions[k], "proof.bin")]
  /\ v.status = "mined" => Result \in DOMAIN fs

\* From its label to its replacement, a job's new state is ready.
Writing(r) ==
  /\ job[r].pc > 1
  /\ Prev(r) \in {Label(StatusOf(job[r].command)), Do("open", Temporary(StateFile)),
                  Do("save", StateFile)}

StatePaths == {StateFile, Temporary(StateFile)}

\* What is at the state file or its temporary one is backed, unless somebody
\* has it open, and so is what a job is about to write there.
StateBacked ==
  /\ \A path \in StatePaths : Whole(path) => Backed(files[path], files)
  /\ \A r \in Running : Writing(r) => Backed(job[r].state, files)

\* What fills the temporary state file is a state.
LEMMA TempSaved ==
  ASSUME NEW c \in Commands, NEW x \in OpsOf(c), x.op \in FillOps,
         Opened(x) = Temporary(StateFile)
  PROVE  x.op = "save"
<1> DEFINE temp == Temporary(StateFile)
<1>1. StateFile \in Targets /\ temp \in Temps
  BY DEF Targets, Temps
<1>2. x.op # "make"
  <2> SUFFICES ASSUME x.op = "make" PROVE FALSE
    OBVIOUS
  <2>1. x.path \in Once \cup {Result} \cup {Verified(a) : a \in Act} \cup Requests
    BY StepForms
  <2>2. CASE x.path \in Requests
    <3>1. x.path \in Targets /\ x.path # StateFile /\ Opened(x) = Temporary(x.path)
      BY <2>2 DEF Targets, Requests, Request, StateFile, Opened
    <3> QED
      BY <1>1, <3>1, KindsDiffer
  <2>3. CASE x.path \notin Requests
    <3>1. x.path \notin Targets
      BY <2>1, <2>3, KindsDiffer
    <3>2. Opened(x) = x.path
      BY <3>1 DEF Targets, Opened
    <3> QED
      BY <1>1, <2>1, <2>3, <3>2, KindsDiffer
  <2> QED
    BY <2>2, <2>3
<1>3. x.op # "copy"
  <2> SUFFICES ASSUME x.op = "copy" PROVE FALSE
    OBVIOUS
  <2>1. PICK a \in Act, name \in FixtureNames : x = CopyOf(a, name)
    BY StepForms
  <2>2. x.path = Fixture(a, name)
    BY <2>1, OpensDiffer
  <2>3. x.path \in Once /\ x.path \notin Targets
    BY <2>2, FixtureOnce
  <2>4. Opened(x) = x.path
    BY <2>3 DEF Targets, Opened
  <2> QED
    BY <1>1, <2>3, <2>4, KindsDiffer
<1> QED
  BY <1>2, <1>3 DEF FillOps

\* The state is labelled, opened, saved and replaced.
LEMMA StateSteps ==
  ASSUME Jobs, NEW r \in Running, job[r].pc \in 1 .. Len(StepsOf(r))
  PROVE  /\ Current(r) = Do("open", Temporary(StateFile)) =>
              job[r].pc > 1 /\ Prev(r) = Label(StatusOf(job[r].command))
         /\ Current(r) = Do("save", StateFile) =>
              job[r].pc > 1 /\ Prev(r) = Do("open", Temporary(StateFile))
         /\ Current(r) = Do("replace", StateFile) =>
              job[r].pc > 1 /\ Prev(r) = Do("save", StateFile)
<1> DEFINE k == job[r].pc
           s == StepsOf(r)
           c == job[r].command
           temp == Temporary(StateFile)
<1>1. /\ c \in Commands /\ s[k] = Current(r) /\ k \in 1 .. Len(s) /\ Len(s) \in Nat
      /\ \A i \in 1 .. Len(s) : FillsNext(s, i) /\ s[i] \in OpsOf(c)
      /\ Prev(r) = s[k - 1]
  <2>1. c \in Commands
    BY DEF Jobs
  <2>2. s \in Fitting(OpsOf(c)) /\ Len(s) \in Nat /\ \A i \in 1 .. Len(s) : s[i] \in OpsOf(c)
    BY <2>1, CommandFits DEF StepsOf
  <2> QED
    BY <2>1, <2>2 DEF Fitting, Current, StepsOf, Prev
<1>2. StateFile \in Targets /\ temp \in Temps
  BY DEF Targets, Temps
<1>3. ASSUME s[k] = Do("open", temp)
      PROVE  k > 1 /\ s[k - 1] = Label(StatusOf(c))
  <2>1. s[k].op = "open" /\ s[k].path = temp
    BY <1>3, OpensDiffer
  <2>2. k < Len(s) /\ s[k + 1].op \in FillOps /\ Opened(s[k + 1]) = temp
    BY <1>1, <2>1 DEF FillsNext
  <2>3. k + 1 \in 1 .. Len(s)
    BY <1>1, <2>2
  <2> DEFINE x == s[k + 1]
  <2>4. x \in OpsOf(c)
    BY <1>1, <2>3
  <2>5. x.op = "save"
    BY <1>1, <2>2, <2>4, TempSaved
  <2>6. k + 1 > 2 /\ s[(k + 1) - 2].op = "label"
    BY <1>1, <2>3, <2>5 DEF FillsNext
  <2>7. (k + 1) - 2 = k - 1 /\ k - 1 \in 1 .. Len(s) /\ k > 1
    BY <1>1, <2>6
  <2>8. s[k - 1] \in OpsOf(c) /\ s[k - 1].op = "label"
    BY <1>1, <2>6, <2>7
  <2> QED
    BY <1>1, <2>7, <2>8, StepForms
<1>4. ASSUME s[k] = Do("save", StateFile)
      PROVE  k > 1 /\ s[k - 1] = Do("open", temp)
  BY <1>1, <1>4, OpensDiffer DEF FillsNext, FillOps
<1>5. ASSUME s[k] = Do("replace", StateFile)
      PROVE  k > 1 /\ s[k - 1] = Do("save", StateFile)
  BY <1>1, <1>5, OpensDiffer DEF FillsNext
<1> QED
  BY <1>1, <1>3, <1>4, <1>5

\* A label is of what was written.
LEMMA LabelledBacked ==
  ASSUME Jobs, Kept, ResultHasFixtures,
         NEW r \in Running, Advances(r), Current(r).op = "label"
  PROVE  /\ Current(r) = Label(StatusOf(job[r].command))
         /\ Labelled(r).status = StatusOf(job[r].command)
         /\ Backed(Labelled(r), files)
         /\ job[r].command = "submit" => Labelled(r).result = files[Result]
<1> DEFINE c == job[r].command
           status == StatusOf(c)
           v == Labelled(r)
<1>1. /\ c \in Commands /\ Current(r) \in OpsOf(c)
      /\ job[r].pc \in 1 .. Len(StepsOf(r))
  BY CurrentFits DEF Advances
<1>2. Current(r) = Label(status) /\ Current(r).status = status
  BY <1>1, StepForms DEF Label
<1>3. Current(r) \in StateOps(status)
  BY <1>2 DEF StateOps
<1>4. \A st, proofs, result :
        /\ State(st, proofs, result).status = st
        /\ State(st, proofs, result).proofs = proofs
        /\ State(st, proofs, result).result = result
        /\ State(st, proofs, result) # Torn
  BY MadeIsWhole DEF State
<1>5. CASE c = "genesis"
  <2>1. status = "prepared"
    BY <1>5 DEF StatusOf
  <2>2. v = State("prepared", [k \in DOMAIN Actions |-> Missing], Missing)
    BY <1>2, <2>1 DEF Labelled
  <2>3. v.status = "prepared" /\ v # Torn
    BY <1>4, <2>2
  <2> QED
    BY <1>2, <1>5, <2>1, <2>3 DEF Backed
<1>6. CASE c = "prove"
  <2>1. status = "proved" /\ StepsOf(r) = ProveSteps
    BY <1>6 DEF StatusOf, StepsOf, Steps
  <2>2. v = State("proved", [k \in DOMAIN Actions |->
                               files[Fixture(Actions[k], "proof.bin")]],
                  job[r].state.result)
    BY <1>2, <2>1 DEF Labelled
  <2>3. /\ v.status = "proved" /\ v # Torn
        /\ \A k \in DOMAIN Actions :
             v.proofs[k] = files[Fixture(Actions[k], "proof.bin")]
    BY <1>4, <2>2
  <2>4. ASSUME NEW a \in Act, NEW name \in FixtureNames
        PROVE  Whole(Fixture(a, name))
    <3> DEFINE y == CopyOf(a, name)
    <3>1. y \in UNION {FixtureOps(b) : b \in Act}
      BY DEF FixtureOps
    <3>2. Precedes(StepsOf(r), y, StateOps("proved"))
      BY <2>1, <3>1, ProveSteps_Fit
    <3>3. Did(r, {y})
      <4> HIDE DEF y
      <4> QED
        BY <1>1, <1>3, <2>1, <3>2, PrecedesDid
    <3>4. y \in Ends(Fixture(a, name))
      BY OpensDiffer DEF Ends, Copies
    <3>5. Did(r, Ends(Fixture(a, name)))
      <4>1. \A x \in OpsOf(c) : x \in {y} => x \in Ends(Fixture(a, name))
        BY <3>4
      <4> QED
        BY <3>3, <4>1, WindowDid DEF Did
    <3> QED
      BY <3>5, FixtureOnce DEF Kept
  <2> QED
    BY <1>2, <1>6, <2>1, <2>3, <2>4 DEF Backed, Whole, Exists
<1>7. CASE c = "submit"
  <2>1. status = "mined" /\ StepsOf(r) = SubmitSteps
    BY <1>7 DEF StatusOf, StepsOf, Steps
  <2>2. v = State("mined", job[r].state.proofs, files[Result])
    BY <1>2, <2>1 DEF Labelled
  <2>3. v.status = "mined" /\ v # Torn /\ v.result = files[Result]
    BY <1>4, <2>2
  <2>4. Exists(Result)
    BY <1>2, <2>1 DEF Advances, Possible, Label
  <2>5. \A a \in Act, name \in FixtureNames : Whole(Fixture(a, name))
    BY <2>4 DEF ResultHasFixtures, Act
  <2> QED
    BY <1>2, <2>1, <2>3, <2>4, <2>5 DEF Backed, Whole, Exists
<1> QED
  BY <1>1, <1>5, <1>6, <1>7 DEF Commands

\* What is behind a state stays.
LEMMA BackedStands ==
  ASSUME Jobs, Fds, Tree, Fresh, Filling,
         NEW r \in Running, Advances(r)
  PROVE  \A v : Backed(v, files) => Backed(v, files')
<1> SUFFICES ASSUME NEW v, Backed(v, files) PROVE Backed(v, files')
  OBVIOUS
<1>1. ASSUME NEW a \in Act, NEW name \in FixtureNames,
             v.status \in {"proved", "mined"}
      PROVE  /\ Fixture(a, name) \in DOMAIN files'
             /\ files'[Fixture(a, name)] = files[Fixture(a, name)]
             /\ files[Fixture(a, name)] # Torn
  <2>1. Whole(Fixture(a, name))
    BY <1>1 DEF Backed, Whole, Exists
  <2> QED
    BY <2>1, FixtureOnce, OnceStands DEF Whole
<1>2. ASSUME v.status = "proved", NEW k \in DOMAIN Actions
      PROVE  v.proofs[k] = files'[Fixture(Actions[k], "proof.bin")]
  <2>1. Actions[k] \in Act /\ "proof.bin" \in FixtureNames
    BY DEF Act, FixtureNames
  <2> QED
    BY <1>1, <1>2, <2>1 DEF Backed
<1>3. ASSUME v.status = "mined"
      PROVE  Result \in DOMAIN files'
  <2>1. Result \in DOMAIN files /\ Result \notin Temps
    BY <1>3, KindsDiffer DEF Backed
  <2> QED
    BY <2>1, Persists
<1>4. v # Torn
  BY DEF Backed
<1> QED
  BY <1>1, <1>2, <1>3, <1>4 DEF Backed

\* A state file, or its temporary one, changes by what a job has ready, by
\* what is at the other, or is torn.
LEMMA StatePathsTouched ==
  ASSUME Jobs, Fds, Tree, NEW r \in Running, Advances(r),
         NEW path \in StatePaths, path \in DOMAIN files'
  PROVE  \/ Exists(path) /\ files'[path] = files[path]
         \/ files'[path] = Torn
         \/ Exists(Temporary(StateFile)) /\ files'[path] = files[Temporary(StateFile)]
         \/ Writing(r) /\ files'[path] = job[r].state
<1> DEFINE step == Current(r)
           temp == Temporary(StateFile)
<1>1. /\ job[r].command \in Commands /\ step \in OpsOf(job[r].command)
      /\ job[r].pc \in 1 .. Len(StepsOf(r))
  BY CurrentFits DEF Advances
<1>2. /\ step.op \in {"mkdir", "mkdirs"} => step.path \in Directories
      /\ step.op = "replace" => step.path \in Targets
  BY <1>1, StepForms DEF Targets
<1>3. /\ StateFile \in Targets /\ temp \in Temps /\ path \in {StateFile, temp}
      /\ path \notin Directories
  <2>1. StateFile \in Targets /\ temp \in Temps
    BY DEF Targets, Temps
  <2> QED
    BY <2>1, KindsDiffer DEF StatePaths
<1>4. CASE ~ Touches(r, path)
  BY <1>4, Untouched DEF Exists
<1>5. CASE step.op \in {"mkdir", "mkdirs", "open"} /\ step.path = path
  BY <1>2, <1>3, <1>5, Touched
<1>6. CASE step.op = "replace" /\ step.path = path
  <2>1. path = StateFile
    BY <1>2, <1>3, <1>6, KindsDiffer
  <2> QED
    BY <1>6, <2>1, Touched DEF Exists
<1>7. CASE step.op = "replace" /\ path = Temporary(step.path)
  BY <1>7, Touched
<1>8. CASE step.op \in FillOps /\ path # Closed /\ job[r].fd = path
  <2>1. /\ job[r].pc > 1 /\ Prev(r) = Do("open", Opened(step))
        /\ Opened(step) = StateFile \/ Opened(step) = temp
    BY <1>3, <1>8, FillsOpened, KindsDiffer
  <2>2. Opened(step) # StateFile
    <3> SUFFICES ASSUME Opened(step) = StateFile PROVE FALSE
      OBVIOUS
    <3>1. /\ Prev(r) \in OpsOf(job[r].command) /\ Prev(r).op = "open"
          /\ Prev(r).path = StateFile
      BY <2>1, PrevFits, OpensDiffer
    <3>2. StateFile \in Once \cup {Result} \cup {Verified(a) : a \in Act} \cup Temps
      BY <1>1, <3>1, StepForms
    <3> QED
      BY <1>3, <3>2, KindsDiffer
  <2>3. step.op = "save" /\ Writing(r)
    BY <1>1, <1>8, <2>1, <2>2, TempSaved DEF Writing
  <2>4. Contents(r) = job[r].state
    BY <2>3 DEF Contents
  <2> QED
    BY <1>8, <2>3, <2>4, Touched
<1> QED
  BY <1>4, <1>5, <1>6, <1>7, <1>8 DEF Touches

\* Every job keeps the states backed.
LEMMA StateBackedKept ==
  ASSUME Jobs, Fds, Tree, Fresh, Filling, Kept, ResultHasFixtures, StateBacked,
         NEW r \in Running, Advances(r)
  PROVE  StateBacked'
<1> DEFINE step == Current(r)
           temp == Temporary(StateFile)
           status == StatusOf(job[r].command)
<1>1. \A v : Backed(v, files) => Backed(v, files')
  BY BackedStands
<1>2. /\ Running' = Running /\ job[r].pc \in 1 .. Len(StepsOf(r))
      /\ \A q \in Running : job'[q].command = job[q].command
      /\ \A q \in Running : q # r => job'[q].state = job[q].state
  BY DEF Advances
<1>3. /\ Prev(r)' = step
      /\ \A q \in Running : q # r => Prev(q)' = Prev(q) /\ job'[q].pc = job[q].pc
  BY WindowNext
<1>4. ASSUME NEW path \in StatePaths, path \in DOMAIN files', files'[path] # Torn
      PROVE  Backed(files'[path], files')
  <2>1. temp \in StatePaths
    BY DEF StatePaths
  <2>2. Backed(files'[path], files)
    BY <1>4, <2>1, StatePathsTouched DEF StateBacked, Whole
  <2> QED
    BY <1>1, <2>2
<1>5. ASSUME NEW q \in Running, q # r, Writing(q)'
      PROVE  Backed(job'[q].state, files')
  <2>1. Writing(q)
    BY <1>2, <1>3, <1>5 DEF Writing
  <2> QED
    BY <1>1, <1>2, <1>5, <2>1 DEF StateBacked
<1>6. ASSUME Writing(r)'
      PROVE  Backed(job'[r].state, files')
  <2>1. step \in {Label(status), Do("open", temp), Do("save", StateFile)}
    BY <1>2, <1>3, <1>6 DEF Writing
  <2>2. CASE step = Label(status)
    <3>1. step.op = "label"
      BY <2>2, OpensDiffer
    <3>2. job'[r].state = Labelled(r)
      BY <3>1 DEF Advances
    <3> QED
      BY <1>1, <3>1, <3>2, LabelledBacked
  <2>3. CASE step \in {Do("open", temp), Do("save", StateFile)}
    <3>1. Writing(r)
      BY <1>2, <2>3, StateSteps DEF Writing
    <3>2. step.op \in {"open", "save"}
      BY <2>3, OpensDiffer
    <3>3. job'[r].state = job[r].state
      BY <3>2 DEF Advances
    <3> QED
      BY <1>1, <3>1, <3>3 DEF StateBacked
  <2> QED
    BY <2>1, <2>2, <2>3
<1> QED
  BY <1>2, <1>4, <1>5, <1>6 DEF StateBacked, Whole, Exists, Torn, StatePaths

\* IMPLEMENTATION_PLAN.md, "Do not label pending or merely proven actions as
\* confirmed": no state.json does, whatever commands share it and whichever of
\* them is killed.
THEOREM Status_Backed == Spec => []StatusBacked
<1>1. Init => LifecycleInv /\ StateBacked
  <2>1. Init => DOMAIN files = {} /\ Running = {}
    BY DEF Init, Running
  <2> QED
    BY <2>1, LifecycleInit DEF StateBacked, Whole, Exists
<1>2. LifecycleInv /\ StateBacked /\ [Next]_vars => (LifecycleInv /\ StateBacked)'
  <2> SUFFICES ASSUME LifecycleInv, StateBacked, [Next]_vars PROVE StateBacked'
    BY LifecycleNext
  <2>1. Idles \/ \E r \in Running : Advances(r)
    BY LifecycleNext
  <2>2. CASE Idles
    <3>1. \A q \in Running' : Writing(q)' => /\ q \in Running /\ Writing(q)
                                           /\ job'[q] = job[q]
      BY <2>2, WindowIdle DEF LifecycleInv, Writing
    <3> QED
      BY <2>2, <3>1 DEF Idles, StateBacked, Whole, Exists
  <2>3. CASE \E r \in Running : Advances(r)
    BY <2>3, StateBackedKept DEF LifecycleInv
  <2> QED
    BY <2>1, <2>2, <2>3
<1>3. StateBacked => StatusBacked
  <2> SUFFICES ASSUME StateBacked, Whole(StateFile)
               PROVE  /\ Proved => \A k \in DOMAIN Actions : \A name \in FixtureNames :
                                     Whole(Fixture(Actions[k], name))
                      /\ files[StateFile].status = "proved" =>
                           \A k \in DOMAIN Actions :
                             files[StateFile].proofs[k] =
                               files[Fixture(Actions[k], "proof.bin")]
                      /\ files[StateFile].status = "mined" => Exists(Result)
    BY DEF StatusBacked
  <2>1. Backed(files[StateFile], files)
    BY DEF StateBacked, StatePaths
  <2>2. Proved => files[StateFile].status \in {"proved", "mined"}
    BY DEF Proved, Statuses
  <2>3. \A k \in DOMAIN Actions : Actions[k] \in Act
    BY DEF Act
  <2> QED
    BY <2>1, <2>2, <2>3 DEF Backed, Whole, Exists
<1> QED
  BY <1>1, <1>2, <1>3, PTL DEF Spec

-----------------------------------------------------------------------------
(* One command at a time: the result                                       *)

Solo == \A r, q \in Running : r = q

\* Where its writer checked, a result is not there yet; where it was opened it
\* is empty, and where it was made or read, whole.
SoloResult ==
  \A r \in Running :
    /\ Window(r, Checks(Result), {Do("open", Result)}) => ~ Exists(Result)
    /\ job[r].pc > 1 /\ Prev(r) = Do("open", Result) =>
         Exists(Result) /\ files[Result] = Torn
    /\ Did(r, {Do("make", Result), Do("read", Result)}) => Whole(Result)

\* The steps at a result.
LEMMA ResultSteps ==
  /\ Checks(Result) = {Do("absent", Result), Do("mkdir", Work)}
  /\ Result \notin Targets \cup Temps \cup Directories /\ Front(Result) = Work
BY FrontOf, KindsDiffer DEF Checks, Result, Work

\* A whole result stays as it is.
LEMMA ResultPersists ==
  ASSUME Jobs, Fds, Tree, SoloResult, NEW r \in Running, Advances(r), Whole(Result)
  PROVE  Result \in DOMAIN files' /\ files'[Result] = files[Result]
<1>1. Result \in DOMAIN files /\ files[Result] # Torn
  BY DEF Whole, Exists
<1>2. Current(r) # Do("open", Result)
  <2> SUFFICES ASSUME Current(r) = Do("open", Result) PROVE FALSE
    OBVIOUS
  <2>1. ChecksFirst(StepsOf(r), job[r].pc) /\ Current(r) = StepsOf(r)[job[r].pc]
    BY CurrentFits DEF Advances
  <2>2. Window(r, Checks(Result), {Do("open", Result)})
    BY <2>1 DEF ChecksFirst, Window
  <2> QED
    BY <1>1, <2>2 DEF SoloResult, Exists
<1>3. ~ (job[r].pc > 1 /\ Prev(r) = Do("open", Result))
  BY <1>1 DEF SoloResult
<1>4. ~ Touches(r, Result)
  BY <1>2, <1>3, ResultSteps, PlainTouch
<1> QED
  BY <1>1, <1>4, Untouched

\* What one job at a time does to the result.
LEMMA SoloResultKept ==
  ASSUME Jobs, Fds, Tree, Solo, SoloResult, NEW r \in Running, Advances(r)
  PROVE  SoloResult'
<1> DEFINE C == Checks(Result)
           A == {Do("open", Result)}
           E == {Do("make", Result), Do("read", Result)}
<1>1. /\ Running' = Running /\ \A q \in Running : q = r
      /\ Possible(Current(r))
  BY DEF Advances, Solo
<1>2. /\ Window(r, C, A)' <=> Current(r) \in C \/ (Window(r, C, A) /\ Current(r) \notin A)
      /\ Prev(r)' = Current(r)
  BY WindowNext
<1>3. Did(r, E)' <=> Current(r) \in E \/ Did(r, E)
  BY WindowNext DEF Did
<1>4. ASSUME Window(r, C, A)'
      PROVE  Result \notin DOMAIN files'
  <2>1. CASE Current(r) = Do("absent", Result)
    BY <1>1, <2>1, OpensDiffer DEF Possible, Exists, Advances
  <2>2. CASE Current(r) = Do("mkdir", Work)
    <3>1. Current(r).op = "mkdir" /\ Current(r).path = Work
      BY <2>2, OpensDiffer
    <3>2. Work \notin DOMAIN files
      BY <1>1, <3>1 DEF Possible, Exists
    <3>3. Result # Work /\ Result \notin DOMAIN files
      BY <3>2, ResultSteps DEF Tree, Result, Work
    <3>4. ~ Touches(r, Result)
      BY <3>1, ResultSteps, <3>3 DEF Touches, FillOps
    <3> QED
      BY <3>3, <3>4, Untouched
  <2>3. CASE Window(r, C, A) /\ Current(r) \notin A
    <3>1. Result \notin DOMAIN files
      BY <2>3 DEF SoloResult, Exists
    <3>2. ~ Touches(r, Result)
      BY <2>3, <3>1, ResultSteps, PlainTouch
    <3> QED
      BY <3>1, <3>2, Untouched
  <2> QED
    BY <1>2, <1>4, <2>1, <2>2, <2>3, ResultSteps
<1>5. ASSUME Prev(r)' = Do("open", Result)
      PROVE  Result \in DOMAIN files' /\ files'[Result] = Torn
  <2>1. Current(r).op = "open" /\ Current(r).path = Result
    BY <1>2, <1>5, OpensDiffer
  <2> QED
    BY <2>1, Touched
<1>6. ASSUME Did(r, E)'
      PROVE  Result \in DOMAIN files' /\ files'[Result] # Torn
  <2>1. CASE Did(r, E)
    BY <2>1, ResultPersists DEF SoloResult, Whole
  <2>2. CASE Current(r) = Do("make", Result)
    <3>1. Current(r).op = "make" /\ Current(r).path = Result
      BY <2>2, OpensDiffer
    <3>2. Result \in DOMAIN files' /\ files'[Result] = Made(r)
      BY <3>1, ResultSteps, MakesFile DEF FillOps, Contents
    <3> QED
      BY <3>2, MadeIsWhole
  <2>3. CASE Current(r) = Do("read", Result)
    BY <2>3, ReadsWhole DEF Whole, Exists
  <2> QED
    BY <1>3, <1>6, <2>1, <2>2, <2>3
<1> QED
  BY <1>1, <1>4, <1>5, <1>6 DEF SoloResult, Whole, Exists, Torn

-----------------------------------------------------------------------------
(* One command at a time: the state                                        *)

\* A backed state that names the result there is, among the files fs.
Earned(v, fs) ==
  /\ Backed(v, fs)
  /\ v.status = "mined" => fs[Result] # Torn /\ v.result = fs[Result]

SoloState ==
  /\ Exists(StateFile) => Earned(files[StateFile], files)
  /\ \A r \in Running :
       /\ Writing(r) =>
            /\ job[r].state.status = StatusOf(job[r].command)
            /\ Earned(job[r].state, files)
       /\ job[r].pc > 1 /\ Prev(r) = Do("open", Temporary(StateFile)) =>
            job[r].fd = Temporary(StateFile)
       /\ job[r].pc > 1 /\ Prev(r) = Do("save", StateFile) =>
            /\ Temporary(StateFile) \in DOMAIN files
            /\ files[Temporary(StateFile)] = job[r].state

\* A label is of what was written, and the result it names was read.
LEMMA LabelledEarned ==
  ASSUME Jobs, Kept, ResultHasFixtures, SoloResult,
         NEW r \in Running, Advances(r), Current(r).op = "label"
  PROVE  /\ Current(r) = Label(StatusOf(job[r].command))
         /\ Labelled(r).status = StatusOf(job[r].command)
         /\ Earned(Labelled(r), files)
<1>1. /\ job[r].command \in Commands
      /\ job[r].pc \in 1 .. Len(StepsOf(r))
  BY CurrentFits DEF Advances
<1>2. /\ Current(r) = Label(StatusOf(job[r].command))
      /\ Labelled(r).status = StatusOf(job[r].command)
      /\ Backed(Labelled(r), files)
      /\ job[r].command = "submit" => Labelled(r).result = files[Result]
  BY LabelledBacked
<1>3. ASSUME job[r].command = "submit"
      PROVE  Whole(Result)
  <2> DEFINE y == Do("read", Result)
             E == {Do("make", Result), Do("read", Result)}
  <2>1. Precedes(StepsOf(r), y, StateOps("mined"))
    BY <1>3, SubmitSteps_Fit DEF StepsOf, Steps
  <2>2. \A x \in OpsOf(job[r].command) : x \in {y} => x \in E
    OBVIOUS
  <2>3. Current(r) \in StateOps("mined")
    BY <1>2, <1>3 DEF StatusOf, StateOps
  <2> HIDE DEF y, E
  <2>4. Did(r, {y})
    BY <1>1, <2>1, <2>3, PrecedesDid
  <2>5. Did(r, E)
    BY <2>2, <2>4, WindowDid DEF Did
  <2> QED
    BY <2>5 DEF SoloResult, E
<1>4. Labelled(r).status = "mined" => job[r].command = "submit"
  BY <1>1, <1>2 DEF StatusOf, Commands
<1> QED
  BY <1>2, <1>3, <1>4 DEF Earned, Whole, Exists

\* What was earned stays so.
LEMMA EarnedStands ==
  ASSUME Jobs, Fds, Tree, Fresh, Filling, SoloResult,
         NEW r \in Running, Advances(r)
  PROVE  \A v : Earned(v, files) => Earned(v, files')
<1> SUFFICES ASSUME NEW v, Earned(v, files) PROVE Earned(v, files')
  OBVIOUS
<1>1. Backed(v, files')
  BY BackedStands DEF Earned
<1>2. ASSUME v.status = "mined"
      PROVE  files'[Result] # Torn /\ v.result = files'[Result]
  <2>1. Whole(Result) /\ v.result = files[Result]
    BY <1>2 DEF Earned, Backed, Whole, Exists
  <2> QED
    BY <2>1, ResultPersists DEF Whole
<1> QED
  BY <1>1, <1>2 DEF Earned

\* What one job at a time does to the state file.
LEMMA StateFileTouched ==
  ASSUME Jobs, Fds, Tree, Solo, SoloState, NEW r \in Running, Advances(r),
         StateFile \in DOMAIN files'
  PROVE  \/ Exists(StateFile) /\ files'[StateFile] = files[StateFile]
         \/ /\ Current(r) = Do("replace", StateFile)
            /\ files'[StateFile] = job[r].state
            /\ job[r].state.status = StatusOf(job[r].command)
            /\ Earned(job[r].state, files)
<1> DEFINE step == Current(r)
           temp == Temporary(StateFile)
<1>1. /\ job[r].command \in Commands /\ step \in OpsOf(job[r].command)
      /\ job[r].pc \in 1 .. Len(StepsOf(r))
  BY CurrentFits DEF Advances
<1>2. /\ step.op \in {"mkdir", "mkdirs"} => step.path \in Directories
      /\ step.op = "open" =>
           step.path \in Once \cup {Result} \cup {Verified(b) : b \in Act} \cup Temps
      /\ step.op = "replace" => step.path \in Targets /\ step = Do("replace", step.path)
  BY <1>1, StepForms DEF Targets
<1>3. StateFile \in Targets /\ temp \in Temps
  BY DEF Targets, Temps
<1>4. /\ StateFile \notin Directories /\ StateFile \notin Temps
      /\ StateFile \notin Once \cup {Result} /\ \A b : StateFile # Verified(b)
      /\ temp # StateFile /\ StateFile # Closed
  BY <1>3, KindsDiffer
<1>5. CASE step = Do("replace", StateFile)
  <2>1. step.op = "replace" /\ step.path = StateFile
    BY <1>5, OpensDiffer
  <2>2. job[r].pc > 1 /\ Prev(r) = Do("save", StateFile)
    BY <1>1, <1>5, StateSteps
  <2>3. Writing(r)
    BY <2>2 DEF Writing
  <2>4. /\ job[r].state.status = StatusOf(job[r].command)
        /\ Earned(job[r].state, files) /\ files[temp] = job[r].state
    BY <2>2, <2>3 DEF SoloState
  <2>5. files'[StateFile] = files[temp]
    BY <2>1, Touched
  <2> QED
    BY <1>5, <2>4, <2>5
<1>6. CASE step # Do("replace", StateFile)
  <2>1. ~ (step.op = "replace" /\ step.path = StateFile)
    BY <1>2, <1>6
  <2>2. step.op = "replace" => StateFile # Temporary(step.path)
    BY <1>2, <1>4, KindsDiffer
  <2>3. ~ (step.op \in FillOps /\ job[r].fd = StateFile)
    <3> SUFFICES ASSUME step.op \in FillOps, job[r].fd = StateFile PROVE FALSE
      OBVIOUS
    <3>1. /\ job[r].pc > 1 /\ Prev(r) = Do("open", Opened(step))
          /\ Opened(step) = StateFile \/ Opened(step) = temp
      BY <1>4, FillsOpened
    <3>2. CASE Opened(step) = temp
      BY <1>4, <3>1, <3>2 DEF SoloState
    <3>3. CASE Opened(step) = StateFile
      <4>1. Prev(r) \in OpsOf(job[r].command) /\ Prev(r).op = "open"
            /\ Prev(r).path = StateFile
        BY <3>1, <3>3, PrevFits, OpensDiffer
      <4> QED
        BY <1>1, <1>4, <4>1, StepForms
    <3> QED
      BY <3>1, <3>2, <3>3
  <2>4. ~ Touches(r, StateFile)
    BY <1>2, <1>4, <2>1, <2>2, <2>3 DEF Touches
  <2> QED
    BY <2>4, Untouched DEF Exists
<1> QED
  BY <1>5, <1>6

\* The state that is there was earned, and the one being written is.
LEMMA SoloStateKept ==
  ASSUME Jobs, Fds, Tree, Fresh, Filling, Kept, ResultHasFixtures,
         Solo, SoloResult, SoloState, NEW r \in Running, Advances(r)
  PROVE  SoloState'
<1> DEFINE step == Current(r)
           temp == Temporary(StateFile)
           status == StatusOf(job[r].command)
<1>1. /\ Running' = Running /\ \A q \in Running : q = r
      /\ job[r].pc \in 1 .. Len(StepsOf(r))
      /\ job'[r].command = job[r].command
  BY DEF Advances, Solo
<1>2. Prev(r)' = step
  BY WindowNext
<1>3. \A v : Earned(v, files) => Earned(v, files')
  BY EarnedStands
<1>4. ASSUME StateFile \in DOMAIN files'
      PROVE  Earned(files'[StateFile], files')
  <2>1. Earned(files'[StateFile], files)
    BY <1>4, StateFileTouched DEF SoloState
  <2> QED
    BY <1>3, <2>1
<1>5. temp # Closed
  <2>1. temp \in Temps
    BY DEF Temps
  <2> QED
    BY <2>1, KindsDiffer
<1>6. ASSUME step \in {Label(status), Do("open", temp), Do("save", StateFile)}
      PROVE  job'[r].state.status = status /\ Earned(job'[r].state, files')
  <2>1. CASE step = Label(status)
    <3>1. step.op = "label"
      BY <2>1, OpensDiffer
    <3>2. job'[r].state = Labelled(r)
      BY <3>1 DEF Advances
    <3> QED
      BY <1>3, <3>1, <3>2, LabelledEarned
  <2>2. CASE step \in {Do("open", temp), Do("save", StateFile)}
    <3>1. Writing(r)
      BY <1>1, <2>2, StateSteps DEF Writing
    <3>2. step.op \in {"open", "save"}
      BY <2>2, OpensDiffer
    <3>3. job'[r].state = job[r].state
      BY <3>2 DEF Advances
    <3>4. job[r].state.status = status /\ Earned(job[r].state, files)
      BY <3>1 DEF SoloState
    <3> QED
      BY <1>3, <3>3, <3>4
  <2> QED
    BY <1>6, <2>1, <2>2
<1>7. ASSUME step = Do("open", temp)
      PROVE  job'[r].fd = temp
  <2>1. step.op = "open" /\ step.path = temp
    BY <1>7, OpensDiffer
  <2> QED
    BY <2>1 DEF Advances
<1>8. ASSUME step = Do("save", StateFile)
      PROVE  temp \in DOMAIN files' /\ files'[temp] = job'[r].state
  <2>1. step.op = "save"
    BY <1>8, OpensDiffer
  <2>2. job[r].fd = temp
    BY <1>1, <1>8, StateSteps DEF SoloState
  <2>3. job'[r].state = job[r].state
    BY <2>1 DEF Advances
  <2> QED
    BY <1>5, <2>1, <2>2, <2>3, Touched DEF FillOps, Contents
<1>9. StatusOf(job'[r].command) = status
  BY <1>1
<1> HIDE DEF step, status
<1> QED
  BY <1>1, <1>2, <1>4, <1>6, <1>7, <1>8, <1>9 DEF SoloState, Writing, Exists

-----------------------------------------------------------------------------
(* One command at a time: the status                                       *)

\* Until it replaces the state, genesis has none, and prove one not proved.
SoloStage ==
  \A r \in Running : job[r].pc \in 1 .. Len(StepsOf(r)) =>
    /\ job[r].command = "genesis" /\ Did(r, {Do("mkdir", Work)}) => ~ Exists(StateFile)
    /\ job[r].command = "prove" /\ Did(r, {Do("absent", Fixtures)}) /\ Exists(StateFile) =>
         files[StateFile].status \notin {"proved", "mined"}

\* Without fixtures nothing was proved.
LEMMA NoFixtures ==
  ASSUME Tree, ~ Exists(Fixtures)
  PROVE  \A v : Earned(v, files) => v.status \notin {"proved", "mined"}
<1>1. PICK a : a \in Act
  <2>1. 1 \in DOMAIN Actions
    BY LifecycleAssumption
  <2> QED
    BY <2>1 DEF Act
<1>2. "proof.bin" \in FixtureNames
  BY DEF FixtureNames
<1>3. /\ Front(Fixture(a, "proof.bin")) = <<"fixtures", a>> /\ Fixture(a, "proof.bin") # Work
      /\ Front(<<"fixtures", a>>) = Fixtures /\ <<"fixtures", a>> # Work
  BY FrontOf DEF Fixture, Fixtures, Work
<1>4. Fixture(a, "proof.bin") \notin DOMAIN files
  BY <1>3 DEF Tree, Exists
<1> QED
  BY <1>1, <1>2, <1>4 DEF Earned, Backed

\* After genesis made the directory, and prove found no fixtures, only their
\* last step brings a state.
LEMMA SoloStageKept ==
  ASSUME Jobs, Fds, Tree, Solo, SoloState, SoloStage,
         NEW r \in Running, Advances(r)
  PROVE  SoloStage'
<1> DEFINE s == StepsOf(r)
           k == job[r].pc
           c == job[r].command
<1>1. /\ Running' = Running /\ \A q \in Running : q = r
      /\ k \in 1 .. Len(s) /\ Possible(Current(r))
      /\ job'[r].command = c /\ job'[r].pc = k + 1 /\ s' = s
      /\ Current(r) = s[k] /\ Len(s) \in Nat
  <2>1. Len(s) \in Nat
    BY CommandFits DEF Jobs, StepsOf
  <2> QED
    BY <2>1 DEF Advances, Solo, Current, StepsOf
<1>2. \A C : Did(r, C)' <=> Current(r) \in C \/ Did(r, C)
  BY WindowNext DEF Did
<1>3. ASSUME k + 1 \in 1 .. Len(s), c \in {"genesis", "prove"}
      PROVE  Current(r) # Do("replace", StateFile)
  <2>1. ReplacesLast(s)
    <3>1. c = "genesis" => s = GenesisSteps
      BY DEF StepsOf, Steps
    <3>2. c = "prove" => s = ProveSteps
      BY DEF StepsOf, Steps
    <3> QED
      BY <1>3, <3>1, <3>2, GenesisSteps_Fit, ProveSteps_Fit
  <2> QED
    BY <1>1, <1>3, <2>1 DEF ReplacesLast
<1>4. ASSUME k + 1 \in 1 .. Len(s), c \in {"genesis", "prove"}, StateFile \in DOMAIN files'
      PROVE  Exists(StateFile) /\ files'[StateFile] = files[StateFile]
  BY <1>3, <1>4, StateFileTouched
<1>5. ASSUME k + 1 \in 1 .. Len(s), c = "genesis", Did(r, {Do("mkdir", Work)})'
      PROVE  StateFile \notin DOMAIN files'
  <2>1. CASE Did(r, {Do("mkdir", Work)})
    BY <1>1, <1>4, <1>5, <2>1 DEF SoloStage
  <2>2. CASE Current(r) = Do("mkdir", Work)
    <3>1. Work \notin DOMAIN files
      BY <1>1, <2>2, OpensDiffer DEF Possible, Exists
    <3>2. Front(StateFile) = Work /\ StateFile # Work
      BY FrontOf DEF StateFile, Work
    <3>3. ~ Exists(StateFile)
      BY <3>1, <3>2 DEF Tree, Exists
    <3> QED
      BY <1>4, <1>5, <3>3
  <2> QED
    BY <1>2, <1>5, <2>1, <2>2
<1>6. ASSUME k + 1 \in 1 .. Len(s), c = "prove", Did(r, {Do("absent", Fixtures)})',
             StateFile \in DOMAIN files'
      PROVE  files'[StateFile].status \notin {"proved", "mined"}
  <2>1. Exists(StateFile) /\ files'[StateFile] = files[StateFile]
    BY <1>4, <1>6
  <2>2. CASE Did(r, {Do("absent", Fixtures)})
    BY <1>1, <1>6, <2>1, <2>2 DEF SoloStage
  <2>3. CASE Current(r) = Do("absent", Fixtures)
    <3>1. ~ Exists(Fixtures)
      BY <1>1, <2>3, OpensDiffer DEF Possible
    <3> QED
      BY <2>1, <3>1, NoFixtures DEF SoloState
  <2> QED
    BY <1>2, <1>6, <2>2, <2>3
<1> HIDE DEF k, c
<1>7. /\ job'[r].pc \in 1 .. Len(s) /\ job'[r].command = "genesis"
         /\ Did(r, {Do("mkdir", Work)})' => StateFile \notin DOMAIN files'
      /\ job'[r].pc \in 1 .. Len(s) /\ job'[r].command = "prove"
         /\ Did(r, {Do("absent", Fixtures)})' /\ StateFile \in DOMAIN files' =>
           files'[StateFile].status \notin {"proved", "mined"}
  BY <1>1, <1>5, <1>6
<1> QED
  BY <1>1, <1>7 DEF SoloStage, Exists

\* A status that is replaced is not ahead of the one that replaces it.
LEMMA StatusForward ==
  ASSUME Jobs, Fds, Tree, Solo, SoloState, SoloStage,
         NEW r \in Running, Advances(r)
  PROVE  StatusNotBack
<1> SUFFICES ASSUME NEW i \in 1 .. 3, NEW j \in 1 .. 3, Whole(StateFile),
                    files[StateFile].status = Statuses[i],
                    StateFile \in DOMAIN files',
                    files'[StateFile].status = Statuses[j]
             PROVE  i <= j
  BY DEF StatusNotBack
<1>1. Statuses[1] = "prepared" /\ Statuses[2] = "proved" /\ Statuses[3] = "mined"
  BY DEF Statuses
<1>2. CASE files'[StateFile] = files[StateFile]
  BY <1>1, <1>2
<1>3. CASE /\ Current(r) = Do("replace", StateFile)
           /\ files'[StateFile].status = StatusOf(job[r].command)
  <2>1. /\ job[r].pc \in 1 .. Len(StepsOf(r)) /\ Current(r) = StepsOf(r)[job[r].pc]
        /\ job[r].command \in {"genesis", "prove", "submit"}
        /\ Exists(StateFile)
    BY DEF Advances, Jobs, Commands, Current, StepsOf, Whole
  <2>2. CASE job[r].command = "genesis"
    <3>1. StepsOf(r)[1] = Do("absent", Work) /\ StepsOf(r)[2] = Do("mkdir", Work)
      BY <2>2, GenesisSteps_Fit DEF StepsOf, Steps
    <3>2. job[r].pc # 1 /\ job[r].pc # 2
      BY <1>3, <2>1, <3>1, OpensDiffer
    <3>3. 2 \in 1 .. job[r].pc - 1
      BY <2>1, <3>2
    <3>4. Did(r, {Do("mkdir", Work)})
      BY <3>1, <3>3 DEF Did, Window, Since
    <3> QED
      BY <2>1, <2>2, <3>4 DEF SoloStage
  <2>3. CASE job[r].command = "prove"
    <3>1. /\ StepsOf(r)[1] = Do("absent", Proofs) /\ StepsOf(r)[2] = Do("absent", Scripts)
          /\ StepsOf(r)[3] = Do("absent", Fixtures)
      BY <2>3, ProveSteps_Fit DEF StepsOf, Steps
    <3>2. job[r].pc # 1 /\ job[r].pc # 2 /\ job[r].pc # 3
      BY <1>3, <2>1, <3>1, OpensDiffer
    <3>3. 3 \in 1 .. job[r].pc - 1
      BY <2>1, <3>2
    <3>4. Did(r, {Do("absent", Fixtures)})
      BY <3>1, <3>3 DEF Did, Window, Since
    <3>5. files[StateFile].status \notin {"proved", "mined"}
      BY <2>1, <2>3, <3>4 DEF SoloStage
    <3>6. i = 1
      BY <1>1, <3>5
    <3> QED
      BY <3>6
  <2>4. CASE job[r].command = "submit"
    <3>1. Statuses[j] = "mined"
      BY <1>3, <2>4 DEF StatusOf
    <3>2. j = 3
      BY <1>1, <3>1
    <3> QED
      BY <3>2
  <2> QED
    BY <2>1, <2>2, <2>3, <2>4
<1> QED
  BY <1>2, <1>3, StateFileTouched

-----------------------------------------------------------------------------
(* One command at a time: the theorems                                     *)

SoloInv == Solo /\ SoloResult /\ SoloState /\ SoloStage

AloneInv == LifecycleInv /\ (alone => SoloInv)

mcvars == <<vars, alone>>

\* At most one is all the same.
LEMMA AtMostOne ==
  ASSUME Jobs, Cardinality(Running) <= 1
  PROVE  Solo
<1>1. IsFiniteSet(Running)
  <2>1. runs \in Nat /\ Running \subseteq 1 .. runs
    BY DEF Jobs
  <2>2. IsFiniteSet(1 .. runs)
    BY <2>1, FS_Interval
  <2> QED
    BY <2>1, <2>2, FS_Subset
<1>2. Cardinality(Running) \in Nat
  BY <1>1, FS_CardinalityType
<1>3. Cardinality(Running) = 0 \/ Cardinality(Running) = 1
  BY <1>2
<1>4. CASE Cardinality(Running) = 0
  <2>1. Running = {}
    BY <1>1, <1>4, FS_EmptySet
  <2> QED
    BY <2>1 DEF Solo
<1>5. CASE Cardinality(Running) = 1
  <2>1. \E x : Running = {x}
    BY <1>1, <1>5, FS_Singleton
  <2> QED
    BY <2>1 DEF Solo
<1> QED
  BY <1>3, <1>4, <1>5

\* No file, and no job.
LEMMA AloneInit == MCInit => AloneInv
<1> SUFFICES ASSUME MCInit PROVE AloneInv
  OBVIOUS
<1>1. DOMAIN files = {} /\ Running = {}
  BY DEF MCInit, Init, Running
<1>2. LifecycleInv
  BY LifecycleInit DEF MCInit
<1>3. SoloInv
  BY <1>1 DEF SoloInv, Solo, SoloResult, SoloState, SoloStage, Exists
<1> QED
  BY <1>2, <1>3 DEF AloneInv

\* A job that starts or ends, with no other beside it.
LEMMA SoloIdle ==
  ASSUME Jobs, SoloInv, Idles, Solo'
  PROVE  SoloInv'
<1>1. /\ files' = files
      /\ SoloResult /\ SoloState /\ SoloStage
  BY DEF SoloInv, Idles
<1>2. \A q \in Running' :
        /\ \A C, A : Window(q, C, A)' => q \in Running /\ Window(q, C, A)
        /\ job'[q].pc > 1 => q \in Running
        /\ q \in Running => /\ job'[q] = job[q] /\ Prev(q)' = Prev(q)
                            /\ StepsOf(q)' = StepsOf(q)
  BY WindowIdle
<1>3. \A q \in Running' : \A C : Did(q, C)' => q \in Running /\ Did(q, C)
  BY <1>2 DEF Did
<1>4. SoloResult'
  BY <1>1, <1>2, <1>3 DEF SoloResult, Whole, Exists
<1>5. SoloState'
  <2>1. \A q \in Running' : Writing(q)' => q \in Running /\ Writing(q)
    BY <1>2 DEF Writing
  <2> QED
    BY <1>1, <1>2, <2>1 DEF SoloState, Exists
<1>6. SoloStage'
  BY <1>1, <1>2, <1>3 DEF SoloStage, Exists
<1> QED
  BY <1>4, <1>5, <1>6 DEF SoloInv

\* While commands run one at a time, what is said of one is so.
LEMMA AloneNext ==
  ASSUME AloneInv, [MCNext]_mcvars
  PROVE  AloneInv' /\ (alone' => StatusNotBack)
<1>1. [Next]_vars
  BY DEF MCNext, mcvars
<1>2. /\ LifecycleInv /\ LifecycleInv' /\ Jobs'
      /\ (Idles \/ \E r \in Running : Advances(r))
  BY <1>1, LifecycleNext DEF AloneInv
<1>3. Jobs
  BY <1>2 DEF LifecycleInv
<1>4. CASE ~ alone'
  BY <1>2, <1>4 DEF AloneInv
<1>5. CASE alone'
  <2>1. alone /\ SoloInv
    <3>1. alone
      BY <1>5 DEF MCNext, mcvars
    <3> QED
      BY <3>1 DEF AloneInv
  <2>2. Solo'
    <3>1. CASE MCNext
      <4>1. Cardinality(Running') <= 1
        BY <1>5, <3>1 DEF MCNext
      <4>2. (Jobs /\ Cardinality(Running) <= 1 => Solo)'
        BY AtMostOne, PTL
      <4> QED
        BY <1>2, <4>1, <4>2
    <3>2. CASE UNCHANGED mcvars
      BY <2>1, <3>2 DEF mcvars, vars, SoloInv, Solo, Running
    <3> QED
      BY <3>1, <3>2
  <2>3. CASE Idles
    <3>1. SoloInv'
      BY <1>3, <2>1, <2>2, <2>3, SoloIdle
    <3>2. StatusNotBack
      <4> SUFFICES ASSUME NEW i \in 1 .. 3, NEW j \in 1 .. 3,
                          files[StateFile].status = Statuses[i],
                          files'[StateFile].status = Statuses[j]
                   PROVE  i <= j
        BY DEF StatusNotBack
      <4>1. Statuses[i] = Statuses[j]
        BY <2>3 DEF Idles
      <4> QED
        BY <4>1 DEF Statuses
    <3> QED
      BY <1>2, <3>1, <3>2 DEF AloneInv
  <2>4. CASE \E r \in Running : Advances(r)
    <3>1. PICK r \in Running : Advances(r)
      BY <2>4
    <3>2. /\ Jobs /\ Fds /\ Tree /\ Fresh /\ Filling /\ Kept /\ ResultHasFixtures
          /\ Solo /\ SoloResult /\ SoloState /\ SoloStage
      BY <1>2, <2>1 DEF LifecycleInv, SoloInv
    <3>3. SoloResult' /\ SoloState' /\ SoloStage'
      BY <3>1, <3>2, SoloResultKept, SoloStateKept, SoloStageKept
    <3>4. StatusNotBack
      BY <3>1, <3>2, StatusForward
    <3> QED
      BY <1>2, <2>2, <3>3, <3>4 DEF AloneInv, SoloInv
  <2> QED
    BY <1>2, <2>3, <2>4
<1> QED
  BY <1>4, <1>5

\* The invariant, for commands that run one at a time beside any that do not.
THEOREM Alone_Invariant == MCSpec => []AloneInv
<1>1. AloneInv /\ [MCNext]_mcvars => AloneInv'
  BY AloneNext
<1> QED
  BY <1>1, AloneInit, PTL DEF MCSpec, mcvars

\* scripts/lifecycle.py, write(): while commands run one at a time, and are
\* killed anywhere, state.json is whole whenever it is there.
THEOREM State_File_Whole == MCSpec => []StateFileStaysWhole
<1>1. AloneInv => StateFileStaysWhole
  BY DEF AloneInv, SoloInv, SoloState, Earned, Backed, StateFileStaysWhole, StateFileWhole, Whole
<1> QED
  BY <1>1, Alone_Invariant, PTL

\* IMPLEMENTATION_PLAN.md, "Do not label pending or merely proven actions as
\* confirmed": one command at a time never does, for any number of actions.
THEOREM Status_Earned == MCSpec => []StatusStaysEarned
<1>1. AloneInv => StatusStaysEarned
  <2> SUFFICES ASSUME AloneInv, alone, Whole(StateFile)
               PROVE  /\ Proved => \A k \in DOMAIN Actions : \A name \in FixtureNames :
                                     Whole(Fixture(Actions[k], name))
                      /\ files[StateFile].status = "proved" =>
                           \A k \in DOMAIN Actions :
                             files[StateFile].proofs[k] =
                               files[Fixture(Actions[k], "proof.bin")]
                      /\ files[StateFile].status = "mined" => Whole(Result)
    BY DEF StatusStaysEarned, StatusEarned
  <2>1. Earned(files[StateFile], files)
    BY DEF AloneInv, SoloInv, SoloState, Whole
  <2>2. Proved => files[StateFile].status \in {"proved", "mined"}
    BY DEF Proved, Statuses
  <2>3. \A k \in DOMAIN Actions : Actions[k] \in Act
    BY DEF Act
  <2> QED
    BY <2>1, <2>2, <2>3 DEF Earned, Backed, Whole, Exists
<1> QED
  BY <1>1, Alone_Invariant, PTL

\* README.md, "refuse to overwrite existing proof or result artifacts": the
\* result that a mined state recorded is the result there is.
THEOREM Result_Recorded == MCSpec => []ResultStaysRecorded
<1>1. AloneInv => ResultStaysRecorded
  BY DEF AloneInv, SoloInv, SoloState, Earned, Backed, ResultStaysRecorded, ResultStands, Whole
<1> QED
  BY <1>1, Alone_Invariant, PTL

\* scripts/lifecycle.py, main: the status only moves forward while commands
\* run one at a time, whatever is killed or repeated.
THEOREM Status_Advances == MCSpec => StatusAdvances
<1>1. AloneInv /\ [MCNext]_mcvars => [alone' => StatusNotBack]_mcvars
  BY AloneNext
<1>2. MCSpec => [][alone' => StatusNotBack]_mcvars
  BY <1>1, Alone_Invariant, PTL DEF MCSpec, mcvars
<1> QED
  BY <1>2 DEF StatusAdvances, mcvars

=============================================================================
