---------------------------- MODULE Groth16Proofs ----------------------------
(***************************************************************************)
(* Folding the program key and the key root into the verifying key changes *)
(* no verdict, in groups of any prime order and for any verifying key; the *)
(* leaf's digest binding is that of numbers, in any base and width; and a  *)
(* message has one signature.                                              *)
(***************************************************************************)
EXTENDS MCGroth16, WellFoundedInduction, SequenceTheorems, TLAPS

-----------------------------------------------------------------------------
(* Recursion over the naturals                                             *)

\* A non-empty set of naturals has a least element.
LEMMA LeastOf ==
  ASSUME NEW T \in SUBSET Nat, T # {}
  PROVE  \E x \in T : \A y \in T : x <= y
<1>1. IsWellFoundedOn(OpToRel(<, Nat), Nat)
  BY NatLessThanWellFounded
<1>2. PICK x \in T : \A y \in T : ~ (<<y, x>> \in OpToRel(<, Nat))
  BY <1>1, WFMin
<1>3. \A y \in T : ~ (y < x)
  BY <1>2 DEF OpToRel
<1> QED
  BY <1>3

\* Induction up to a bound, for the set T of what has a property: were some
\* number outside T, the least one would follow one inside.
LEMMA BoundedInduction ==
  ASSUME NEW n \in Nat, NEW T, 0 \in T,
         \A k \in 0 .. n - 1 : k \in T => k + 1 \in T
  PROVE  \A k \in 0 .. n : k \in T
<1> DEFINE rest == {k \in 0 .. n : k \notin T}
<1> SUFFICES ASSUME rest # {} PROVE FALSE
  OBVIOUS
<1>1. PICK k \in rest : \A j \in rest : k <= j
  <2>1. rest \in SUBSET Nat
    OBVIOUS
  <2> HIDE DEF rest
  <2> QED
    BY <2>1, LeastOf
<1>2. k \in 0 .. n /\ k # 0
  BY <1>1
<1>3. k - 1 \in 0 .. n - 1 /\ k - 1 \in 0 .. n /\ ~ (k <= k - 1)
  BY <1>2
<1>4. k - 1 \in T
  BY <1>1, <1>3
<1>5. k - 1 + 1 \in T
  BY <1>3, <1>4
<1> QED
  BY <1>1, <1>2, <1>5

\* What a recursive definition over 0 .. n asks for exists, when one step of
\* it stays in the naturals.
StepOnNat == [Nat \X Nat -> Nat]

Follows(f, z, step, n) ==
  /\ f \in [0 .. n -> Nat]
  /\ f[0] = z
  /\ \A k \in 1 .. n : f[k] = step[<<k, f[k - 1]>>]

\* A recursion over naturals has a solution up to any bound.
LEMMA Recursion ==
  ASSUME NEW z \in Nat, NEW step \in StepOnNat, NEW n \in Nat
  PROVE  \E f : Follows(f, z, step, n)
<1> USE DEF StepOnNat, Follows
<1> DEFINE Defines(m, f) == Follows(f, z, step, m)
           T == {m \in 0 .. n : \E f : Defines(m, f)}
<1>1. 0 \in T
  <2>1. Defines(0, [k \in 0 .. 0 |-> z])
    OBVIOUS
  <2> HIDE DEF Defines
  <2>2. 0 \in 0 .. n /\ \E f : Defines(0, f)
    BY <2>1
  <2> QED
    BY <2>2
<1>2. ASSUME NEW m \in 0 .. n - 1, m \in T
      PROVE  m + 1 \in T
  <2>1. PICK f : Defines(m, f)
    BY <1>2
  <2> DEFINE g == [k \in 0 .. m + 1 |->
                     IF k = m + 1 THEN step[<<m + 1, f[m]>>] ELSE f[k]]
  <2>2. f[m] \in Nat /\ step[<<m + 1, f[m]>>] \in Nat
    BY <2>1
  <2>3. g \in [0 .. m + 1 -> Nat] /\ g[0] = z
    BY <2>1, <2>2
  <2>4. \A k \in 1 .. m + 1 : g[k] = step[<<k, g[k - 1]>>]
    <3> TAKE k \in 1 .. m + 1
    <3>1. CASE k = m + 1
      <4>1. g[k - 1] = f[m] /\ g[k] = step[<<m + 1, f[m]>>]
        BY <3>1
      <4> QED
        BY <3>1, <4>1
    <3>2. CASE k # m + 1
      <4>1. k \in 1 .. m /\ g[k] = f[k] /\ g[k - 1] = f[k - 1]
        BY <3>2
      <4> QED
        BY <2>1, <4>1
    <3> QED
      BY <3>1, <3>2
  <2>5. Defines(m + 1, g)
    BY <2>3, <2>4
  <2> HIDE DEF Defines, g
  <2>6. m + 1 \in 0 .. n /\ \E h : Defines(m + 1, h)
    BY <2>5
  <2> QED
    BY <2>6
<1>3. n \in T
  <2> HIDE DEF T
  <2>1. \A k \in 0 .. n : k \in T
    BY <1>1, <1>2, BoundedInduction
  <2> QED
    BY <2>1
<1> QED
  BY <1>3

-----------------------------------------------------------------------------
(* Digits                                                                  *)

Digit == 0 .. Base - 1

\* What the sizes are, apart from the rest of the assumption.
LEMMA Sizes == Base \in Nat /\ Base > 1 /\ Width \in Nat
  BY Groth16Assumption

\* Power, Digits and ValueOf by the recursions that define them.
LEMMA PowerIs ==
  ASSUME NEW n \in Nat
  PROVE  \E power \in [0 .. n -> Nat] :
           /\ power[0] = 1
           /\ \A k \in 1 .. n : power[k] = Base * power[k - 1]
           /\ Power(n) = power[n]
<1> USE Sizes
<1> DEFINE Defines(f) == f = [k \in 0 .. n |-> IF k = 0 THEN 1 ELSE Base * f[k - 1]]
           g == CHOOSE f : Defines(f)
           step == [p \in Nat \X Nat |-> Base * p[2]]
<1>1. step \in StepOnNat
  BY DEF StepOnNat
<1>2. PICK f : Follows(f, 1, step, n)
  <2> HIDE DEF step
  <2>1. 1 \in Nat /\ n \in Nat
    OBVIOUS
  <2> QED
    BY <1>1, <2>1, Recursion, Zenon
<1>3. \A k \in 1 .. n : f[k] = Base * f[k - 1]
  <2>1. \A k, x \in Nat : step[<<k, x>>] = Base * x
    OBVIOUS
  <2>2. \A k \in 1 .. n : k \in Nat /\ f[k - 1] \in Nat
    BY <1>2 DEF Follows
  <2> HIDE DEF step
  <2> QED
    BY <1>2, <2>1, <2>2 DEF Follows
<1>4. Defines(f)
  BY <1>2, <1>3 DEF Follows
<1>5. Defines(g)
  <2> HIDE DEF Defines
  <2> QED
    BY <1>4, Zenon
<1>6. Power(n) = g[n]
  BY DEF Power
<1> HIDE DEF g
<1>7. g[0] = 1 /\ \A k \in 1 .. n : g[k] = Base * g[k - 1]
  BY <1>5
<1>8. \A k \in 0 .. n : g[k] \in Nat
  <2> DEFINE T == {k \in 0 .. n : g[k] \in Nat}
  <2>1. 0 \in T
    BY <1>7
  <2>2. ASSUME NEW k \in 0 .. n - 1, k \in T
        PROVE  k + 1 \in T
    <3>1. k + 1 \in 1 .. n /\ g[k] \in Nat /\ k + 1 - 1 = k
      BY <2>2
    <3>2. g[k + 1] = Base * g[k]
      BY <1>7, <3>1
    <3> QED
      BY <3>1, <3>2
  <2>3. \A k \in 0 .. n : k \in T
    <3> HIDE DEF T
    <3> QED
      BY <2>1, <2>2, BoundedInduction
  <2> QED
    BY <2>3
<1>9. g \in [0 .. n -> Nat]
  BY <1>5, <1>8
<1> QED
  BY <1>6, <1>7, <1>9

\* The digits are the remainders of the quotients that the recursion defines.
LEMMA DigitsAre ==
  ASSUME NEW n \in Nat
  PROVE  \E rest \in [0 .. Width -> Nat] :
           /\ rest[0] = n
           /\ \A k \in 1 .. Width : rest[k] = rest[k - 1] \div Base
           /\ Digits(n) = [k \in 1 .. Width |-> rest[k - 1] % Base]
<1> USE Sizes
<1> DEFINE Defines(f) ==
             f = [k \in 0 .. Width |-> IF k = 0 THEN n ELSE f[k - 1] \div Base]
           g == CHOOSE f : Defines(f)
           step == [p \in Nat \X Nat |-> p[2] \div Base]
<1>1. step \in StepOnNat
  BY DEF StepOnNat
<1>2. PICK f : Follows(f, n, step, Width)
  <2> HIDE DEF step
  <2>1. n \in Nat /\ Width \in Nat
    OBVIOUS
  <2> QED
    BY <1>1, <2>1, Recursion, Zenon
<1>3. \A k \in 1 .. Width : f[k] = f[k - 1] \div Base
  <2>1. \A k, x \in Nat : step[<<k, x>>] = x \div Base
    OBVIOUS
  <2>2. \A k \in 1 .. Width : k \in Nat /\ f[k - 1] \in Nat
    BY <1>2 DEF Follows
  <2> HIDE DEF step
  <2> QED
    BY <1>2, <2>1, <2>2 DEF Follows
<1>4. Defines(f)
  BY <1>2, <1>3 DEF Follows
<1>5. Defines(g)
  <2> HIDE DEF Defines
  <2> QED
    BY <1>4, Zenon
<1>6. Digits(n) = [k \in 1 .. Width |-> g[k - 1] % Base]
  BY DEF Digits
<1> HIDE DEF g
<1>7. g[0] = n /\ \A k \in 1 .. Width : g[k] = g[k - 1] \div Base
  BY <1>5
<1>8. \A k \in 0 .. Width : g[k] \in Nat
  <2> DEFINE T == {k \in 0 .. Width : g[k] \in Nat}
  <2>1. 0 \in T
    BY <1>7
  <2>2. ASSUME NEW k \in 0 .. Width - 1, k \in T
        PROVE  k + 1 \in T
    <3>1. k + 1 \in 1 .. Width /\ g[k] \in Nat /\ k + 1 - 1 = k
      BY <2>2
    <3>2. g[k + 1] = g[k] \div Base
      BY <1>7, <3>1
    <3>3. g[k] \div Base \in Nat
      BY <3>1
    <3> QED
      BY <3>1, <3>2, <3>3
  <2>3. \A k \in 0 .. Width : k \in T
    <3> HIDE DEF T
    <3> QED
      BY <2>1, <2>2, BoundedInduction
  <2> QED
    BY <2>3
<1>9. g \in [0 .. Width -> Nat]
  BY <1>5, <1>8
<1> QED
  BY <1>6, <1>7, <1>9

\* Sums of weighted digits exist and are naturals.
LEMMA SumExists ==
  ASSUME NEW n \in Nat, NEW r \in [Nat -> Nat]
  PROVE  \E f \in [0 .. n -> Nat] :
           f[0] = 0 /\ \A k \in 1 .. n : f[k] = r[k] + Base * f[k - 1]
<1> DEFINE step == [p \in Nat \X Nat |-> r[p[1]] + Base * p[2]]
<1>1. step \in StepOnNat
  BY Sizes DEF StepOnNat
<1>2. PICK f : Follows(f, 0, step, n)
  <2> HIDE DEF step
  <2>1. 0 \in Nat /\ n \in Nat
    OBVIOUS
  <2> QED
    BY <1>1, <2>1, Recursion, Zenon
<1>3. \A k \in 1 .. n : f[k] = r[k] + Base * f[k - 1]
  <2>1. \A k, x \in Nat : step[<<k, x>>] = r[k] + Base * x
    OBVIOUS
  <2>2. \A k \in 1 .. n : k \in Nat /\ f[k - 1] \in Nat
    BY <1>2 DEF Follows
  <2> HIDE DEF step
  <2> QED
    BY <1>2, <2>1, <2>2 DEF Follows
<1> QED
  BY <1>2, <1>3 DEF Follows

\* A sum of naturals in Horner's form is a natural, without the exponent.
LEMMA SumTyped ==
  ASSUME NEW n \in Nat, NEW r \in [Nat -> Nat], NEW g, g[0] = 0,
         \A k \in 1 .. n : g[k] = r[k] + Base * g[k - 1]
  PROVE  \A k \in 0 .. n : g[k] \in Nat
<1> DEFINE T == {k \in 0 .. n : g[k] \in Nat}
<1>1. 0 \in T
  OBVIOUS
<1>2. ASSUME NEW k \in 0 .. n - 1, k \in T
      PROVE  k + 1 \in T
  <2>1. k + 1 \in 1 .. n /\ k + 1 \in 0 .. n /\ g[k] \in Nat /\ k + 1 - 1 = k
    BY <1>2
  <2>2. g[k + 1] = r[k + 1] + Base * g[k]
    BY <2>1
  <2>3. r[k + 1] \in Nat /\ Base * g[k] \in Nat
    BY <2>1, Sizes
  <2> QED
    BY <2>1, <2>2, <2>3
<1>3. \A k \in 0 .. n : k \in T
  <2> HIDE DEF T
  <2> QED
    BY <1>1, <1>2, BoundedInduction
<1> QED
  BY <1>3

\* The value of digits is what Horner's recursion ends with.
LEMMA ValueIs ==
  ASSUME NEW digits \in Seq(Digit), NEW n \in Nat, n = Len(digits)
  PROVE  \E value \in [0 .. n -> Nat] :
           /\ value[0] = 0
           /\ \A k \in 1 .. n : value[k] = digits[n - k + 1] + Base * value[k - 1]
           /\ ValueOf(digits) = value[n]
<1> DEFINE r == [k \in Nat |-> IF k \in 1 .. n THEN digits[n - k + 1] ELSE 0]
           Defines(f) ==
             f = [k \in 0 .. n |-> IF k = 0 THEN 0
                                   ELSE digits[n - k + 1] + Base * f[k - 1]]
           g == CHOOSE f : Defines(f)
<1>1. r \in [Nat -> Nat]
  <2>1. \A k \in 1 .. n : digits[n - k + 1] \in Nat
    BY Sizes DEF Digit
  <2> QED
    BY <2>1
<1>2. \A k \in 1 .. n : r[k] = digits[n - k + 1]
  OBVIOUS
<1> HIDE DEF r
<1>3. PICK f \in [0 .. n -> Nat] :
        f[0] = 0 /\ \A k \in 1 .. n : f[k] = r[k] + Base * f[k - 1]
  BY <1>1, SumExists
<1>4. Defines(f)
  BY <1>2, <1>3 DEF Follows
<1>5. Defines(g)
  <2> HIDE DEF Defines
  <2> QED
    BY <1>4, Zenon
<1>6. ValueOf(digits) = g[n]
  BY DEF ValueOf
<1> HIDE DEF g
<1>7. g[0] = 0 /\ \A k \in 1 .. n : g[k] = digits[n - k + 1] + Base * g[k - 1]
  BY <1>5
<1>8. \A k \in 1 .. n : g[k] = r[k] + Base * g[k - 1]
  BY <1>2, <1>7
<1>9. \A k \in 0 .. n : g[k] \in Nat
  BY <1>1, <1>7, <1>8, SumTyped
<1>10. g \in [0 .. n -> Nat]
  BY <1>5, <1>9
<1> QED
  BY <1>6, <1>7, <1>10

\* Division by the base, and its remainder.
LEMMA Division ==
  ASSUME NEW x \in Nat
  PROVE  /\ x \div Base \in Nat /\ x % Base \in Digit
         /\ x = (x % Base) + Base * (x \div Base)
  BY Sizes DEF Digit

\* A digit and a rest are the remainder and the quotient of their sum.
LEMMA DivisionUnique ==
  ASSUME NEW d \in Digit, NEW q \in Nat
  PROVE  /\ (d + Base * q) % Base = d
         /\ (d + Base * q) \div Base = q
<1> DEFINE x == d + Base * q
           r == x % Base
           s == x \div Base
<1>1. Base \in Nat /\ Base > 1 /\ d \in Nat /\ d < Base /\ Base * q \in Nat
  BY Sizes DEF Digit
<1>2. x \in Nat
  BY <1>1
<1>3. s \in Nat /\ r \in Nat /\ r < Base /\ x = r + Base * s
  <2> HIDE DEF x
  <2> QED
    BY <1>1, <1>2, Division DEF Digit
<1> HIDE DEF r, s
<1>4. d - r = Base * (s - q)
  BY <1>1, <1>3
<1>5. s - q = 0
  <2>1. s - q \in Int /\ d - r < Base /\ d - r > -Base
    BY <1>1, <1>3
  <2> QED
    BY <1>1, <1>4, <2>1, SMTT(30)
<1>6. r = d
  BY <1>1, <1>3, <1>4, <1>5
<1> QED
  BY <1>3, <1>5, <1>6 DEF r, s

\* A quotient by the base is below the range without its last digit.
LEMMA QuotientBelow ==
  ASSUME NEW x \in Nat, NEW p \in Nat, x < Base * p
  PROVE  x \div Base < p
<1> DEFINE q == x \div Base
           d == x % Base
<1>1. q \in Nat /\ d \in Nat /\ x = d + Base * q
  BY Division, Sizes DEF Digit
<1> HIDE DEF q, d
<1>2. ASSUME q >= p PROVE FALSE
  <2>1. Base * q >= Base * p
    BY <1>1, <1>2, Sizes
  <2>2. Base * q \in Nat /\ Base * p \in Nat
    BY <1>1, Sizes
  <2> QED
    BY <1>1, <2>1, <2>2
<1>3. q < p
  BY <1>1, <1>2
<1> QED
  BY <1>3 DEF q

\* After Width divisions nothing is left of a scalar.
LEMMA NothingLeft ==
  ASSUME NEW n \in Nat, n < ScalarRange,
         NEW rest \in [0 .. Width -> Nat], rest[0] = n,
         \A k \in 1 .. Width : rest[k] = rest[k - 1] \div Base
  PROVE  rest[Width] = 0
<1>1. PICK power \in [0 .. Width -> Nat] :
        /\ power[0] = 1
        /\ \A k \in 1 .. Width : power[k] = Base * power[k - 1]
        /\ Power(Width) = power[Width]
  BY PowerIs, Sizes
<1> DEFINE T == {k \in 0 .. Width : rest[k] < power[Width - k]}
<1>2. 0 \in T
  BY <1>1, Sizes DEF ScalarRange
<1>3. ASSUME NEW k \in 0 .. Width - 1, k \in T
      PROVE  k + 1 \in T
  <2>1. /\ k + 1 \in 1 .. Width /\ k + 1 - 1 = k /\ rest[k] \in Nat
        /\ Width - k \in 1 .. Width /\ Width - (k + 1) \in 0 .. Width
        /\ Width - k - 1 = Width - (k + 1)
    BY Sizes
  <2>2. rest[k] < Base * power[Width - (k + 1)] /\ power[Width - (k + 1)] \in Nat
    BY <1>1, <1>3, <2>1
  <2>3. rest[k] \div Base < power[Width - (k + 1)]
    BY <2>1, <2>2, QuotientBelow
  <2> QED
    BY <2>1, <2>3
<1>4. Width \in T
  <2>1. \A k \in 0 .. Width : k \in T
    <3> HIDE DEF T
    <3> QED
      BY <1>2, <1>3, Sizes, BoundedInduction
  <2> HIDE DEF T
  <2> QED
    BY <2>1, Sizes
<1>5. rest[Width] \in Nat /\ rest[Width] < 1
  BY <1>1, <1>4, Sizes
<1> QED
  BY <1>5

Padded(digits) == digits \o [k \in 1 .. Width - Len(digits) |-> 0]

\* Padding with zeros to the full width.
LEMMA PaddedIs ==
  ASSUME NEW digits \in Seq(Digit), Len(digits) <= Width
  PROVE  Padded(digits) = [k \in 1 .. Width |->
                             IF k <= Len(digits) THEN digits[k] ELSE 0]
<1>1. PICK n \in Nat : n = Len(digits)
  OBVIOUS
<1>2. PICK m \in Nat : m = Width - n
  BY <1>1, Sizes
<1> DEFINE zeros == [k \in 1 .. m |-> 0]
<1>3. zeros \in Seq(Digit) /\ Len(zeros) = m /\ \A k \in 1 .. m : zeros[k] = 0
  <2>1. 0 \in Digit
    BY Sizes DEF Digit
  <2> QED
    BY <1>2, <2>1, IsASeq, LenProperties
<1>4. Padded(digits) = digits \o zeros
  BY <1>1, <1>2 DEF Padded
<1> HIDE DEF zeros
<1>5. /\ Padded(digits) \in Seq(Digit)
      /\ Len(Padded(digits)) = n + m
      /\ \A k \in 1 .. n + m :
           Padded(digits)[k] = IF k <= n THEN digits[k] ELSE zeros[k - n]
  <2>1. /\ digits \o zeros \in Seq(Digit)
        /\ Len(digits \o zeros) = Len(digits) + Len(zeros)
        /\ \A k \in 1 .. Len(digits) + Len(zeros) :
             (digits \o zeros)[k] =
               IF k <= Len(digits) THEN digits[k] ELSE zeros[k - Len(digits)]
    BY <1>3, ConcatProperties, Zenon
  <2> QED
    BY <1>1, <1>3, <1>4, <2>1, Zenon
<1>6. Padded(digits) = [k \in 1 .. n + m |->
                          IF k <= n THEN digits[k] ELSE zeros[k - n]]
  BY <1>5
<1>7. n + m = Width
  BY <1>1, <1>2, Sizes
<1>8. \A k \in 1 .. Width : ~ (k <= n) => zeros[k - n] = 0
  BY <1>1, <1>2, <1>3, <1>7
<1>9. Padded(digits) = [k \in 1 .. Width |-> IF k <= n THEN digits[k] ELSE 0]
  BY <1>6, <1>7, <1>8
<1> QED
  BY <1>1, <1>9

\* The check of _bind_statement_digest on bytes is an equation of numbers:
\* padded to the full width, digits are those of n exactly when their value
\* is n.
LEMMA DigitsOfValue ==
  ASSUME NEW n \in Nat, n < ScalarRange,
         NEW digits \in Seq(Digit), Len(digits) <= Width
  PROVE  Padded(digits) = Digits(n) <=> ValueOf(digits) = n
<1>1. PICK l \in Nat : l = Len(digits)
  OBVIOUS
<1>2. PICK rest \in [0 .. Width -> Nat] :
        /\ rest[0] = n
        /\ \A k \in 1 .. Width : rest[k] = rest[k - 1] \div Base
        /\ Digits(n) = [k \in 1 .. Width |-> rest[k - 1] % Base]
  BY DigitsAre
<1>3. PICK value \in [0 .. l -> Nat] :
        /\ value[0] = 0
        /\ \A k \in 1 .. l : value[k] = digits[l - k + 1] + Base * value[k - 1]
        /\ ValueOf(digits) = value[l]
  BY <1>1, ValueIs
<1>4. /\ l \in 0 .. Width
      /\ \A k \in 1 .. l : digits[k] \in Digit
      /\ 0 \in Digit
  BY <1>1, Sizes DEF Digit
<1>5. Padded(digits) = [k \in 1 .. Width |-> IF k <= l THEN digits[k] ELSE 0]
  BY <1>1, PaddedIs
<1>6. rest[Width] = 0
  BY <1>2, NothingLeft
<1>7. \A k \in 1 .. Width :
        /\ rest[k - 1] \in Nat /\ rest[k] \in Nat
        /\ rest[k - 1] = (rest[k - 1] % Base) + Base * rest[k]
  <2> TAKE k \in 1 .. Width
  <2>1. rest[k - 1] \in Nat /\ rest[k] \in Nat
    BY <1>2, Sizes
  <2> QED
    BY <1>2, <2>1, Division
<1>8. ASSUME Padded(digits) = Digits(n)
      PROVE  ValueOf(digits) = n
  <2>1. \A k \in 1 .. Width :
          rest[k - 1] % Base = IF k <= l THEN digits[k] ELSE 0
    BY <1>2, <1>5, <1>8
  <2> DEFINE T == {j \in 0 .. Width - l : rest[Width - j] = 0}
  <2>2. 0 \in T
    BY <1>4, <1>6, Sizes
  <2>3. ASSUME NEW j \in 0 .. Width - l - 1, j \in T
        PROVE  j + 1 \in T
    <3>1. /\ Width - j \in 1 .. Width /\ ~ (Width - j <= l)
          /\ Width - j - 1 = Width - (j + 1) /\ j + 1 \in 0 .. Width - l
      BY <1>4, Sizes
    <3>2. rest[Width - j] = 0
      BY <2>3
    <3>3. rest[Width - (j + 1)] = 0 + Base * 0
      BY <1>7, <2>1, <3>1, <3>2
    <3> QED
      BY <3>1, <3>3, Sizes
  <2>4. rest[l] = 0
    <3>1. \A j \in 0 .. Width - l : j \in T
      <4>1. Width - l \in Nat
        BY <1>4, Sizes
      <4> HIDE DEF T
      <4> QED
        BY <2>2, <2>3, <4>1, BoundedInduction
    <3>2. Width - l \in 0 .. Width - l /\ Width - (Width - l) = l
      BY <1>4, Sizes
    <3>3. Width - l \in T
      <4> HIDE DEF T
      <4> QED
        BY <3>1, <3>2
    <3> QED
      BY <3>2, <3>3
  <2> DEFINE V == {k \in 0 .. l : value[k] = rest[l - k]}
  <2>5. 0 \in V
    BY <1>1, <1>3, <2>4
  <2>6. ASSUME NEW k \in 0 .. l - 1, k \in V
        PROVE  k + 1 \in V
    <3>1. /\ k + 1 \in 1 .. l /\ k + 1 \in 0 .. l /\ k + 1 - 1 = k
          /\ l - k \in 1 .. Width /\ l - k <= l /\ l - (k + 1) + 1 = l - k
          /\ l - k - 1 = l - (k + 1)
      BY <1>1, <1>4, Sizes
    <3>2. value[k] = rest[l - k]
      BY <2>6
    <3>3. value[k + 1] = digits[l - k] + Base * value[k]
      BY <1>3, <3>1
    <3>4. rest[l - (k + 1)] = digits[l - k] + Base * rest[l - k]
      BY <1>7, <2>1, <3>1
    <3> QED
      BY <3>1, <3>2, <3>3, <3>4
  <2>7. l \in V
    <3>1. \A k \in 0 .. l : k \in V
      <4> HIDE DEF V
      <4> QED
        BY <1>1, <2>5, <2>6, BoundedInduction
    <3>2. l \in 0 .. l
      BY <1>1
    <3> HIDE DEF V
    <3> QED
      BY <3>1, <3>2
  <2>8. value[l] = rest[l - l] /\ l - l = 0
    BY <1>1, <2>7
  <2> QED
    BY <1>2, <1>3, <2>8
<1>9. ASSUME ValueOf(digits) = n
      PROVE  Padded(digits) = Digits(n)
  <2> DEFINE V == {k \in 0 .. l : value[l - k] = rest[k]}
  <2>1. 0 \in V
    <3>1. l - 0 = l /\ 0 \in 0 .. l
      BY <1>1
    <3> QED
      BY <1>2, <1>3, <1>9, <3>1
  <2>2. ASSUME NEW k \in 0 .. l - 1, k \in V
        PROVE  k + 1 \in V /\ rest[k] % Base = digits[k + 1]
    <3>1. /\ l - k \in 1 .. l /\ l - (l - k) + 1 = k + 1 /\ l - k - 1 = l - (k + 1)
          /\ k + 1 \in 1 .. l /\ k + 1 \in 1 .. Width /\ k + 1 \in 0 .. l
          /\ k + 1 - 1 = k /\ l - (k + 1) \in 0 .. l
      BY <1>1, <1>4, Sizes
    <3>2. value[l - k] = digits[k + 1] + Base * value[l - (k + 1)]
      BY <1>3, <3>1
    <3>3. value[l - k] = rest[k]
      BY <2>2
    <3>4. value[l - (k + 1)] \in Nat /\ digits[k + 1] \in Digit
      BY <1>3, <1>4, <3>1
    <3>5. rest[k] % Base = digits[k + 1] /\ rest[k] \div Base = value[l - (k + 1)]
      BY <3>2, <3>3, <3>4, DivisionUnique
    <3>6. rest[k + 1] = rest[k] \div Base
      BY <1>2, <3>1
    <3> QED
      BY <3>1, <3>5, <3>6
  <2>3. \A k \in 0 .. l : k \in V
    <3> HIDE DEF V
    <3> QED
      BY <1>1, <2>1, <2>2, BoundedInduction
  <2>4. rest[l] = 0
    <3>1. l \in V
      <4>1. l \in 0 .. l
        BY <1>1
      <4> HIDE DEF V
      <4> QED
        BY <2>3, <4>1
    <3>2. value[l - l] = rest[l] /\ l - l = 0
      BY <1>1, <3>1
    <3> QED
      BY <1>3, <3>2
  <2> DEFINE T == {j \in 0 .. Width - l : rest[l + j] = 0}
  <2>5. 0 \in T
    BY <1>4, <2>4, Sizes
  <2>6. ASSUME NEW j \in 0 .. Width - l - 1, j \in T
        PROVE  j + 1 \in T
    <3>1. /\ l + j + 1 \in 1 .. Width /\ l + j + 1 - 1 = l + j
          /\ l + (j + 1) = l + j + 1 /\ j + 1 \in 0 .. Width - l
      BY <1>4, Sizes
    <3>2. rest[l + j] = 0
      BY <2>6
    <3>3. rest[l + j + 1] = 0 \div Base
      BY <1>2, <3>1, <3>2
    <3> QED
      BY <3>1, <3>3, Sizes
  <2>7. \A j \in 0 .. Width - l : j \in T
    <3>1. Width - l \in Nat
      BY <1>4, Sizes
    <3> HIDE DEF T
    <3> QED
      BY <2>5, <2>6, <3>1, BoundedInduction
  <2>8. ASSUME NEW k \in 1 .. Width
        PROVE  rest[k - 1] % Base = IF k <= l THEN digits[k] ELSE 0
    <3>1. CASE k <= l
      <4>1. k - 1 \in 0 .. l - 1 /\ k - 1 \in 0 .. l /\ k - 1 + 1 = k
        BY <1>1, <3>1
      <4>2. k - 1 \in V
        <5> HIDE DEF V
        <5> QED
          BY <2>3, <4>1
      <4>3. rest[k - 1] % Base = digits[k - 1 + 1]
        <5> HIDE DEF V
        <5> QED
          BY <2>2, <4>1, <4>2
      <4> QED
        BY <3>1, <4>1, <4>3
    <3>2. CASE ~ (k <= l)
      <4>1. k - 1 - l \in 0 .. Width - l /\ l + (k - 1 - l) = k - 1
        BY <1>4, <3>2, Sizes
      <4>2. k - 1 - l \in T
        <5> HIDE DEF T
        <5> QED
          BY <2>7, <4>1
      <4>3. rest[k - 1] = 0
        BY <4>1, <4>2
      <4> QED
        BY <3>2, <4>3, Sizes
    <3> QED
      BY <3>1, <3>2
  <2> HIDE DEF V, T
  <2> QED
    BY <1>2, <1>5, <2>8
<1> QED
  BY <1>8, <1>9

\* ScalarRange is a number, and every scalar below the order has its bytes.
LEMMA ScalarsFit ==
  /\ ScalarRange \in Nat /\ Order \in Nat /\ Order <= ScalarRange
  /\ DigestRange \in Nat \ {0} /\ DigestRange <= Order
<1>1. \E power \in [0 .. Width -> Nat] : Power(Width) = power[Width]
  BY PowerIs, Sizes
<1>2. Power(Width) \in Nat
  BY <1>1, Sizes
<1> QED
  BY <1>2, Groth16Assumption, OrderAssumption DEF ScalarRange

\* There are as many digits as the width says, each below the base.
LEMMA DigitsTyped ==
  ASSUME NEW n \in Nat
  PROVE  Digits(n) \in Seq(Digit) /\ Len(Digits(n)) = Width
<1>1. PICK rest \in [0 .. Width -> Nat] :
        Digits(n) = [k \in 1 .. Width |-> rest[k - 1] % Base]
  BY DigitsAre
<1>2. \A k \in 1 .. Width : rest[k - 1] % Base \in Digit
  <2> TAKE k \in 1 .. Width
  <2>1. rest[k - 1] \in Nat
    BY <1>1, Sizes
  <2> QED
    BY <2>1, Division
<1>3. Digits(n) \in [1 .. Width -> Digit]
  BY <1>1, <1>2
<1> QED
  BY <1>3, Sizes, IsASeq, LenProperties

\* What field() writes of a scalar has its value.
LEMMA FieldIs ==
  ASSUME NEW n \in Nat, n < ScalarRange
  PROVE  Field(n) \in Seq(Digit) /\ Len(Field(n)) <= Width /\ ValueOf(Field(n)) = n
<1> DEFINE d == Digits(n)
           zeroAbove(m) == \A k \in m + 1 .. Width : d[k] = 0
           T == {m \in 0 .. Width : zeroAbove(m)}
           chosen(m) == (m = 0 \/ d[m] # 0) /\ zeroAbove(m)
           m0 == CHOOSE m \in 0 .. Width : chosen(m)
<1>1. d \in Seq(Digit) /\ Len(d) = Width
  BY DigitsTyped
<1> HIDE DEF d
<1>2. PICK m \in T : \A j \in T : m <= j
  <2>1. Width \in T
    BY Sizes
  <2>2. T \in SUBSET Nat /\ T # {}
    BY <2>1
  <2> HIDE DEF T
  <2> QED
    BY <2>2, LeastOf
<1>3. ASSUME m # 0, d[m] = 0
      PROVE  FALSE
  <2>1. m \in 0 .. Width /\ zeroAbove(m)
    BY <1>2
  <2>2. m - 1 \in 0 .. Width /\ ~ (m <= m - 1)
    BY <1>3, <2>1, Sizes
  <2>3. zeroAbove(m - 1)
    <3> TAKE k \in m - 1 + 1 .. Width
    <3>1. k = m \/ k \in m + 1 .. Width
      BY <2>1, Sizes
    <3> QED
      BY <1>3, <2>1, <3>1
  <2>4. m - 1 \in T
    BY <2>2, <2>3
  <2> HIDE DEF T
  <2> QED
    BY <1>2, <2>2, <2>4
<1>4. m \in 0 .. Width /\ chosen(m)
  BY <1>2, <1>3
<1>5. m0 \in 0 .. Width /\ chosen(m0)
  <2> HIDE DEF chosen
  <2> QED
    BY <1>4, Zenon
<1>6. Field(n) = SubSeq(d, 1, m0)
  BY DEF Field, Minimal, d
<1> HIDE DEF m0
<1>7. /\ Field(n) \in Seq(Digit) /\ Len(Field(n)) = m0
      /\ \A k \in 1 .. m0 : Field(n)[k] = d[k]
  BY <1>1, <1>5, <1>6, Sizes, SubSeqProperties
<1>8. m0 <= Width
  BY <1>5
<1>9. Padded(Field(n)) = [k \in 1 .. Width |-> IF k <= m0 THEN Field(n)[k] ELSE 0]
  BY <1>7, <1>8, PaddedIs
<1>10. \A k \in 1 .. Width : d[k] = IF k <= m0 THEN Field(n)[k] ELSE 0
  BY <1>5, <1>7
<1>11. d = [k \in 1 .. Width |-> d[k]]
  BY <1>1
<1>12. Padded(Field(n)) = Digits(n)
  BY <1>9, <1>10, <1>11 DEF d
<1> QED
  BY <1>7, <1>8, <1>12, DigitsOfValue

\* So the digest of the statement is bound as a number.
LEMMA DigestBoundIs ==
  ASSUME NEW values, Sha256(values) \in Nat, NEW stack, stack.input0 \in Seq(Digit)
  PROVE  DigestBound(stack, values)
           <=> /\ Len(stack.input0) <= Width
               /\ ValueOf(stack.input0) = HashPublicInputs(values)
<1> DEFINE n == Sha256(values) % DigestRange
<1>1. n \in Nat /\ n < ScalarRange
  BY ScalarsFit
<1>2. DigestBound(stack, values)
        <=> Len(stack.input0) <= Width /\ Padded(stack.input0) = Digits(n)
  BY DEF DigestBound, Padded
<1> HIDE DEF n
<1>3. Len(stack.input0) <= Width =>
        (Padded(stack.input0) = Digits(n) <=> ValueOf(stack.input0) = n)
  BY <1>1, DigitsOfValue
<1> QED
  BY <1>2, <1>3 DEF HashPublicInputs, n

-----------------------------------------------------------------------------
(* Remainders                                                              *)

\* Adding a multiple of the order changes no remainder.
LEMMA SameRemainder ==
  ASSUME NEW q \in Nat \ {0}, NEW x \in Int, NEW m \in Int
  PROVE  (x + q * m) % q = x % q
<1> DEFINE r == x % q
           d == x \div q
           e == (x + q * m) \div q
           s == (x + q * m) % q
<1>1. d \in Int /\ r \in 0 .. q - 1 /\ x = q * d + r
  OBVIOUS
<1>2. e \in Int /\ s \in 0 .. q - 1 /\ x + q * m = q * e + s
  OBVIOUS
<1> HIDE DEF r, d, e, s
<1>3. r - s = q * (e - d - m)
  BY <1>1, <1>2
<1>4. e - d - m \in Int /\ r - s < q /\ r - s > -q
  BY <1>1, <1>2
<1>5. e - d - m = 0
  BY <1>3, <1>4, SMTT(30)
<1>6. r = s
  BY <1>1, <1>2, <1>3, <1>5
<1> QED
  BY <1>6 DEF r, s

\* ark_adapter.rs, deployment_key and the folded check of export: with exit
\* code zero, the equation for the folded key and the two inputs that are
\* left holds exactly when the equation for the whole key and five inputs does.
THEOREM FoldingKeepsVerdicts ==
  ASSUME NEW key \in Nat, NEW digest \in Nat, NEW nonce \in Nat,
         NEW raw, raw.a \in Point, raw.b \in Point, raw.c \in Point
  PROVE  Equation(raw, Vk, Prepared5(Vk.ic, <<key, digest, 0, VkRoot, nonce>>))
           <=> Equation(raw, Folded(key, VkRoot),
                        Prepared2(Folded(key, VkRoot).ic, <<digest, nonce>>))
<1> USE OrderAssumption, Groth16Assumption
<1> DEFINE fixed == Vk.ic[1] + Vk.ic[2] * key + Vk.ic[5] * VkRoot
           rest == Vk.ic[3] * digest + Vk.ic[6] * nonce
           five == raw.a * raw.b - Vk.alpha * Vk.beta
                     - (fixed + rest) * Vk.gamma - raw.c * Vk.delta
           two == raw.a * raw.b - Vk.alpha * Vk.beta
                    - ((fixed % Order) + rest) * Vk.gamma - raw.c * Vk.delta
<1>1. /\ Order \in Nat \ {0} /\ Point \subseteq Nat /\ VkRoot \in Nat
      /\ {Vk.alpha, Vk.beta, Vk.gamma, Vk.delta} \subseteq Int
      /\ \A k \in 1 .. 6 : Vk.ic[k] \in Nat
      /\ raw.a \in Int /\ raw.b \in Int /\ raw.c \in Int
  BY DEF Point
<1>2. fixed \in Nat /\ rest \in Nat
  <2>1. /\ Vk.ic[1] \in Nat /\ Vk.ic[2] \in Nat /\ Vk.ic[3] \in Nat
        /\ Vk.ic[5] \in Nat /\ Vk.ic[6] \in Nat
    BY <1>1
  <2>2. /\ Vk.ic[2] * key \in Nat /\ Vk.ic[5] * VkRoot \in Nat
        /\ Vk.ic[3] * digest \in Nat /\ Vk.ic[6] * nonce \in Nat
    BY <2>1, <1>1
  <2> QED
    BY <2>1, <2>2
<1>3. Equation(raw, Vk, Prepared5(Vk.ic, <<key, digest, 0, VkRoot, nonce>>))
        <=> five % Order = 0
  <2>1. Prepared5(Vk.ic, <<key, digest, 0, VkRoot, nonce>>) = fixed + rest
    BY <1>1 DEF Prepared5
  <2> QED
    BY <2>1 DEF Equation
<1>4. Equation(raw, Folded(key, VkRoot),
               Prepared2(Folded(key, VkRoot).ic, <<digest, nonce>>))
        <=> two % Order = 0
  <2>1. Prepared2(Folded(key, VkRoot).ic, <<digest, nonce>>) = (fixed % Order) + rest
    BY <1>1, <1>2 DEF Prepared2, Folded, FoldedIc
  <2> QED
    BY <2>1 DEF Equation, Folded
<1>5. \E m \in Int : five = two + Order * m
  <2> DEFINE quotient == fixed \div Order
             least == fixed % Order
  <2> HIDE DEF fixed, rest
  <2>1. quotient \in Int /\ least \in Int /\ fixed = Order * quotient + least
    BY <1>1, <1>2
  <2> HIDE DEF quotient, least
  <2>2. -(quotient * Vk.gamma) \in Int
    BY <2>1, <1>1
  <2>3. (fixed + rest) * Vk.gamma
          = (least + rest) * Vk.gamma + Order * (quotient * Vk.gamma)
    BY <2>1, <1>1, <1>2
  <2>4. five = two + Order * (-(quotient * Vk.gamma))
    BY <2>1, <2>3, <1>1, <1>2 DEF least
  <2> QED
    BY <2>2, <2>4
<1>6. two \in Int
  BY <1>1, <1>2
<1> HIDE DEF five, two, fixed, rest
<1>7. PICK m \in Int : five = two + Order * m
  BY <1>5
<1>8. five % Order = two % Order
  BY <1>1, <1>6, <1>7, SameRemainder
<1> QED
  BY <1>3, <1>4, <1>8

\* ark_adapter.rs, export: the host exports an envelope exactly when SP1's
\* verifier accepts it, its points are finite and the program key has a
\* deployment key; its own second verification refuses nothing more.
THEOREM ExportsWhatVerifies ==
  ASSUME NEW key \in Nat, NEW values, Sha256(values) \in Nat,
         NEW proof, proof.nonce \in Nat
  PROVE  Exports(proof, values, key)
           <=> /\ WrapperVerifies(proof, values, key)
               /\ HasDeploymentKey(key)
               /\ Infinity \notin {proof.raw.a, proof.raw.b, proof.raw.c}
<1>1. HashPublicInputs(values) \in Nat
  BY Groth16Assumption, OrderAssumption DEF HashPublicInputs
<1>2. ASSUME Decodes(proof, values, key)
      PROVE  key < Order
  BY <1>2 DEF Decodes, PublicInputs
<1>3. ASSUME IsProof(proof.raw)
      PROVE  Equation(proof.raw, Vk,
                      Prepared5(Vk.ic, PublicInputs(proof, values, key)))
               <=> Equation(proof.raw, Folded(key, VkRoot),
                            Prepared2(Folded(key, VkRoot).ic,
                                      <<HashPublicInputs(values), proof.nonce>>))
  BY <1>1, <1>3, FoldingKeepsVerdicts DEF IsProof, PublicInputs
<1>4. /\ Infinity \notin {Vk.ic[k] : k \in 1 .. 6}
      /\ Infinity \notin {Vk.alpha, Vk.beta, Vk.gamma, Vk.delta}
  BY Groth16Assumption
<1> QED
  BY <1>2, <1>3, <1>4 DEF Exports, WrapperVerifies, HasDeploymentKey

-----------------------------------------------------------------------------
(* One key per proof, one signature per message                            *)

\* The product of points that are not infinity is none.
LEMMA NoZeroDivisors ==
  ASSUME NEW x \in 1 .. Order - 1, NEW y \in Nat, y % Order # 0
  PROVE  (x * y) % Order # 0
<1> DEFINE r == y % Order
           q == y \div Order
<1>1. Order \in Nat \ {0} /\ x \in Nat
  BY OrderAssumption
<1>2. r \in 1 .. Order - 1 /\ q \in Nat /\ y = r + Order * q
  BY <1>1
<1> HIDE DEF r, q
<1>3. (x * r) % Order # 0
  BY <1>2, OrderAssumption
<1>4. x * r \in Int /\ x * q \in Int
  BY <1>1, <1>2
<1>5. x * y = x * r + Order * (x * q)
  BY <1>1, <1>2
<1>6. (x * y) % Order = (x * r) % Order
  BY <1>1, <1>4, <1>5, SameRemainder
<1> QED
  BY <1>3, <1>6

\* Multiples of the order, and their differences.
LEMMA MultiplesDiffer ==
  ASSUME NEW x \in Int, NEW y \in Int, x % Order = 0, y % Order = 0
  PROVE  (x - y) % Order = 0
<1>1. Order \in Nat \ {0}
  BY OrderAssumption
<1> DEFINE p == x \div Order
           q == y \div Order
<1>2. p \in Int /\ q \in Int /\ x = Order * p /\ y = Order * q
  BY <1>1
<1> HIDE DEF p, q
<1>3. PICK m \in Int : m = p - q
  BY <1>2
<1>4. x - y = 0 + Order * m
  BY <1>1, <1>2, <1>3
<1>5. 0 \in Int /\ (0 + Order * m) % Order = 0 % Order
  <2>1. 0 \in Int /\ m \in Int
    BY <1>3
  <2> QED
    BY <1>1, <2>1, SameRemainder, Zenon
<1> QED
  BY <1>1, <1>4, <1>5

\* A proof and its other inputs satisfy the equation for one program key.
LEMMA OneKey ==
  ASSUME NEW key \in Nat, NEW other \in Nat, key < other, other < Order,
         NEW digest \in Nat, NEW nonce \in Nat,
         NEW raw, raw.a \in Point, raw.b \in Point, raw.c \in Point,
         Equation(raw, Vk, Prepared5(Vk.ic, <<key, digest, 0, VkRoot, nonce>>)),
         Equation(raw, Vk, Prepared5(Vk.ic, <<other, digest, 0, VkRoot, nonce>>))
  PROVE  FALSE
<1>1. /\ Order \in Nat \ {0} /\ Point \subseteq Nat /\ VkRoot \in Nat
      /\ Vk.alpha \in Nat /\ Vk.beta \in Nat /\ Vk.delta \in Nat
      /\ Vk.gamma \in 1 .. Order - 1 /\ Vk.ic[2] \in 1 .. Order - 1
      /\ Vk.ic[1] \in Nat /\ Vk.ic[3] \in Nat /\ Vk.ic[5] \in Nat /\ Vk.ic[6] \in Nat
      /\ Vk.ic[4] \in Nat
      /\ raw.a \in Nat /\ raw.b \in Nat /\ raw.c \in Nat
  BY OrderAssumption, Groth16Assumption DEF Point, Infinity
<1> DEFINE rest == Vk.ic[1] + Vk.ic[3] * digest + Vk.ic[5] * VkRoot + Vk.ic[6] * nonce
           fixed == raw.a * raw.b - Vk.alpha * Vk.beta - raw.c * Vk.delta
           sum(k) == fixed - (rest + Vk.ic[2] * k) * Vk.gamma
           x == other - key
           y == Vk.ic[2] * Vk.gamma
<1>2. rest \in Nat /\ fixed \in Int
  <2>1. /\ Vk.ic[3] * digest \in Nat /\ Vk.ic[5] * VkRoot \in Nat
        /\ Vk.ic[6] * nonce \in Nat
        /\ raw.a * raw.b \in Nat /\ Vk.alpha * Vk.beta \in Nat
        /\ raw.c * Vk.delta \in Nat
    BY <1>1
  <2> QED
    BY <1>1, <2>1
<1>3. ASSUME NEW k \in Nat,
             Equation(raw, Vk, Prepared5(Vk.ic, <<k, digest, 0, VkRoot, nonce>>))
      PROVE  sum(k) % Order = 0
  <2>1. Prepared5(Vk.ic, <<k, digest, 0, VkRoot, nonce>>) = rest + Vk.ic[2] * k
    BY <1>1 DEF Prepared5
  <2>2. (raw.a * raw.b - Vk.alpha * Vk.beta - (rest + Vk.ic[2] * k) * Vk.gamma
           - raw.c * Vk.delta) % Order = 0
    BY <1>3, <2>1 DEF Equation
  <2> DEFINE m == (rest + Vk.ic[2] * k) * Vk.gamma
  <2>3. m \in Nat
    <3>1. Vk.ic[2] * k \in Nat
      BY <1>1
    <3> HIDE DEF rest
    <3> QED
      BY <1>1, <1>2, <3>1
  <2> DEFINE ab == raw.a * raw.b
             al == Vk.alpha * Vk.beta
             cd == raw.c * Vk.delta
  <2>4. ab \in Nat /\ al \in Nat /\ cd \in Nat
    BY <1>1
  <2>5. (ab - al - m - cd) % Order = 0
    BY <2>2
  <2>6. sum(k) = ab - al - cd - m
    OBVIOUS
  <2> HIDE DEF ab, al, cd, m, sum
  <2>7. ab - al - m - cd = ab - al - cd - m
    BY <2>3, <2>4
  <2> QED
    BY <2>5, <2>6, <2>7
<1>4. sum(key) % Order = 0 /\ sum(other) % Order = 0
  BY <1>3
<1>5. y \in Nat /\ y % Order # 0
  <2>1. (Vk.ic[2] * Vk.gamma) % Order # 0
    BY <1>1, OrderAssumption
  <2> QED
    BY <1>1, <2>1
<1>6. x \in 1 .. Order - 1
  BY <1>1
<1>7. sum(key) \in Int /\ sum(other) \in Int /\ sum(key) - sum(other) = x * y
  <2> HIDE DEF rest, fixed
  <2> DEFINE i == Vk.ic[2]
             g == Vk.gamma
  <2>1. i \in Nat /\ g \in Nat
    BY <1>1
  <2> HIDE DEF i, g
  <2>2. /\ i * key \in Nat /\ i * other \in Nat
        /\ (rest + i * key) * g = rest * g + (i * key) * g
        /\ (rest + i * other) * g = rest * g + (i * other) * g
    BY <1>2, <2>1
  <2>3. /\ rest * g \in Nat /\ (i * key) * g \in Nat /\ (i * other) * g \in Nat
    BY <1>2, <2>1, <2>2
  <2>4. (i * other) * g - (i * key) * g = (other - key) * (i * g)
    BY <2>1
  <2> QED
    BY <1>2, <2>2, <2>3, <2>4 DEF i, g
<1>8. (x * y) % Order = 0
  <2> HIDE DEF sum, x, y
  <2> QED
    BY <1>4, <1>7, MultiplesDiffer
<1> HIDE DEF x, y
<1> QED
  BY <1>5, <1>6, <1>8, NoZeroDivisors

\* Two accepted program keys of one proof are the same.
LEMMA KeysAgree ==
  ASSUME NEW values, Sha256(values) \in Nat, NEW proof, proof.nonce \in Nat,
         NEW key \in Nat, NEW other \in Nat,
         WrapperVerifies(proof, values, key), WrapperVerifies(proof, values, other)
  PROVE  key = other
<1>1. HashPublicInputs(values) \in Nat
  BY ScalarsFit DEF HashPublicInputs
<1>2. key < Order /\ other < Order
  BY DEF WrapperVerifies, Decodes, PublicInputs
<1>3. /\ proof.raw.a \in Point /\ proof.raw.b \in Point /\ proof.raw.c \in Point
      /\ \A k \in {key, other} :
           Equation(proof.raw, Vk,
                    Prepared5(Vk.ic, <<k, HashPublicInputs(values), 0, VkRoot,
                                       proof.nonce>>))
  BY DEF WrapperVerifies, IsProof, PublicInputs
<1>4. ~ (key < other) /\ ~ (other < key)
  BY <1>1, <1>2, <1>3, OneKey
<1> QED
  BY <1>4

\* lib.rs, valid_signature: a byte string is a valid signature exactly when it
\* is the one encoding of the point the key's holder computes.
LEMMA OneSignature ==
  ASSUME NEW key, key.point \in Point \ {Infinity},
         NEW message, HashToG2(message) \in Point \ {Infinity},
         NEW signature \in EncodedPoint
  PROVE  AcceleratedSignatureValid(key, message, signature)
           <=> signature = Signed(key.point, message)
<1> DEFINE pk == key.point
           h == HashToG2(message)
           s == signature.point
           r == (pk * h) % Order
           q == (pk * h) \div Order
<1>1. /\ Order \in Nat \ {0, 1}
      /\ pk \in 1 .. Order - 1 /\ h \in 1 .. Order - 1
      /\ s \in 0 .. Order
  BY OrderAssumption DEF Point, Infinity, EncodedPoint, NoPoint
<1>2. r # 0
  BY <1>1, OrderAssumption
<1>3. r \in 1 .. Order - 1 /\ q \in Int /\ pk * h = r + Order * q
  <2>1. pk * h \in Nat
    BY <1>1
  <2> DEFINE x == pk * h
  <2> HIDE DEF x
  <2>2. x \in Nat => /\ x % Order \in 0 .. Order - 1 /\ x \div Order \in Int
                     /\ x = (x % Order) + Order * (x \div Order)
    BY <1>1
  <2> QED
    BY <1>2, <2>1, <2>2 DEF x
<1>4. ASSUME s # Order
      PROVE  PairingBatchIsOne(1, s, Negated(pk), h) <=> s = r
  <2>1. s \in 0 .. Order - 1
    BY <1>1, <1>4
  <2>2. Negated(pk) = Order - pk
    BY <1>1 DEF Negated
  <2>3. PairingBatchIsOne(1, s, Negated(pk), h)
          <=> (1 * s + (Order - pk) * h) % Order = 0
    BY <2>2 DEF PairingBatchIsOne
  <2>4. 1 * s + (Order - pk) * h = (s - r) + Order * (h - q)
    <3> HIDE DEF s, r, q, pk, h
    <3>1. (Order - pk) * h = Order * h - pk * h
      BY <1>1
    <3> QED
      BY <1>1, <1>3, <2>1, <3>1
  <2> HIDE DEF s, r, q, pk, h
  <2>5. s - r \in Int /\ h - q \in Int
    BY <1>1, <1>3, <2>1
  <2>6. (1 * s + (Order - pk) * h) % Order = (s - r) % Order
    BY <1>1, <2>4, <2>5, SameRemainder
  <2>7. (s - r) % Order = 0 <=> s = r
    BY <1>1, <1>3, <2>1
  <2> QED
    BY <2>3, <2>6, <2>7
<1>5. key.point # NoPoint /\ key.point = pk /\ Signed(key.point, message).point = r
  BY <1>1 DEF NoPoint, Signed
<1>6. signature = [point |-> s, canonical |-> signature.canonical]
      /\ signature.canonical \in BOOLEAN
  BY DEF EncodedPoint
<1> HIDE DEF r
<1>7. AcceleratedSignatureValid(key, message, signature)
        <=> s # Order /\ s # 0 /\ signature.canonical = TRUE
              /\ PairingBatchIsOne(1, s, Negated(pk), h)
  BY <1>5, <1>6 DEF AcceleratedSignatureValid, ToAffineFails,
       VerifyDecodedSignature, NoPoint, Infinity
<1>8. signature = Signed(key.point, message)
        <=> s = r /\ signature.canonical = TRUE
  BY <1>5, <1>6 DEF Signed, r
<1> QED
  BY <1>1, <1>3, <1>4, <1>7, <1>8

-----------------------------------------------------------------------------
(* The verifier in the bridge                                              *)

\* script/bridge.py, _bind_statement_digest: beside a statement the folded
\* verifier accepts exactly the stacks whose first input is the statement's
\* digest as a number, for the proofs that SP1's verifier accepts for it.
THEOREM ChainAcceptsWhatVerifies ==
  ASSUME NEW key \in Nat, HasDeploymentKey(key),
         NEW values, Sha256(values) \in Nat,
         NEW proof, proof.length = EnvelopeLength, proof.prefix = VkPrefix,
         proof.exit_code = 0, proof.root = VkRoot,
         proof.nonce \in Nat, proof.nonce < Order,
         NEW stack, stack.input0 \in Seq(Digit),
         stack.input1 = Field(proof.nonce), stack.proof = proof.raw
  PROVE  ChainAccepts(DeploymentKey(key), stack, values)
           <=> /\ ValueOf(stack.input0) = HashPublicInputs(values)
               /\ Len(stack.input0) <= Width
               /\ WrapperVerifies(proof, values, key)
<1> DEFINE digest == HashPublicInputs(values)
           nonce == proof.nonce
<1>1. digest \in Nat /\ digest < Order
  BY ScalarsFit DEF HashPublicInputs
<1>2. ValueOf(stack.input1) = nonce
  BY ScalarsFit, FieldIs
<1>3. DigestBound(stack, values)
        <=> Len(stack.input0) <= Width /\ ValueOf(stack.input0) = digest
  BY DigestBoundIs
<1> HIDE DEF digest, nonce
<1>4. Decodes(proof, values, key)
  <2>1. key < Order /\ VkRoot < Order /\ 0 < Order
    BY ScalarsFit, Groth16Assumption DEF HasDeploymentKey, Point
  <2>2. PublicInputs(proof, values, key) = <<key, digest, 0, VkRoot, nonce>>
    BY DEF PublicInputs, digest, nonce
  <2>3. \A k \in 1 .. 5 : <<key, digest, 0, VkRoot, nonce>>[k] < Order
    BY <1>1, <2>1 DEF nonce
  <2> QED
    BY <2>2, <2>3 DEF Decodes
<1>5. ASSUME IsProof(proof.raw)
      PROVE  Equation(proof.raw, Vk,
                      Prepared5(Vk.ic, <<key, digest, 0, VkRoot, nonce>>))
               <=> Equation(proof.raw, Folded(key, VkRoot),
                            Prepared2(Folded(key, VkRoot).ic, <<digest, nonce>>))
  BY <1>1, <1>5, FoldingKeepsVerdicts DEF IsProof, nonce
<1>6. ValueOf(stack.input0) = digest =>
        (ScriptVerifies(DeploymentKey(key), stack)
           <=> /\ IsProof(proof.raw)
               /\ Equation(proof.raw, Folded(key, VkRoot),
                           Prepared2(Folded(key, VkRoot).ic, <<digest, nonce>>)))
  BY <1>2 DEF ScriptVerifies, DeploymentKey
<1>7. WrapperVerifies(proof, values, key)
        <=> /\ IsProof(proof.raw)
            /\ Equation(proof.raw, Vk,
                        Prepared5(Vk.ic, <<key, digest, 0, VkRoot, nonce>>))
  BY <1>4 DEF WrapperVerifies, PublicInputs, digest, nonce
<1>8. ChainAccepts(DeploymentKey(key), stack, values)
        <=> /\ Len(stack.input0) <= Width /\ ValueOf(stack.input0) = digest
            /\ ScriptVerifies(DeploymentKey(key), stack)
  BY <1>3 DEF ChainAccepts
<1>9. ChainAccepts(DeploymentKey(key), stack, values)
        <=> /\ ValueOf(stack.input0) = digest /\ Len(stack.input0) <= Width
            /\ WrapperVerifies(proof, values, key)
  BY <1>5, <1>6, <1>7, <1>8, Zenon
<1> QED
  BY <1>9 DEF digest

-----------------------------------------------------------------------------
(* The cases that are compared                                             *)

CaseInv ==
  \/ case = [kind |-> "none"]
  \/ case \in EnvelopeCases
  \/ case \in SignatureCases

\* Every case is one that the theorems compare.
LEMMA CasesCompared == CaseSpec => []CaseInv
<1>1. CaseInit => CaseInv
  BY DEF CaseInit, CaseInv
<1>2. CaseInv /\ [CaseNext]_case => CaseInv'
  BY DEF CaseInv, CaseNext
<1> QED
  BY <1>1, <1>2, PTL DEF CaseSpec

\* The types of the envelopes.
LEMMA EnvelopeFacts ==
  ASSUME CaseInv, case.kind = "envelope"
  PROVE  /\ case.key \in Nat
         /\ Sha256(case.values) \in Nat
         /\ case.proof.nonce \in Nat
         /\ case.proof.length = EnvelopeLength
         /\ case.proof.prefix = VkPrefix
<1>1. case \in EnvelopeCases
  <2>1. \A c : c \in SignatureCases => c.kind = "signature"
    <3> TAKE c
    <3> HAVE c \in SignatureCases
    <3>1. PICK key \in Keys, message \in Messages, s \in EncodedPoint :
            c = [kind |-> "signature", key |-> key, message |-> message,
                 signature |-> s]
      BY DEF SignatureCases
    <3> QED
      BY <3>1
  <2> QED
    BY <2>1 DEF CaseInv
<1>2. PICK key \in 0 .. ScalarRange - 1, values \in Statements, header \in Headers,
           nonce \in {0, 1, 7, 10, 11, 15}, a \in {0, 4, NoPoint}, c \in 0 .. NoPoint :
        case = [kind |-> "envelope", key |-> key, values |-> values,
                proof |-> Envelope(header[1], header[2], nonce, a, c)]
  BY <1>1 DEF EnvelopeCases
<1>3. case.key = key /\ case.values = values
      /\ case.proof = Envelope(header[1], header[2], nonce, a, c)
  BY <1>2
<1>4. key \in Nat /\ Sha256(values) \in Nat /\ nonce \in Nat
  BY <1>2, CasesAssumption, ScalarsFit
<1> QED
  BY <1>3, <1>4 DEF Envelope

\* ark_adapter.rs, "Independent Arkworks verification and constant folding":
\* the folded key's verdict is SP1's on every envelope that is compared.
THEOREM Folding_Agrees == CaseSpec => []FoldingAgrees
<1>1. CaseInv => FoldingAgrees
  <2> SUFFICES ASSUME CaseInv, case.kind = "envelope"
               PROVE  Exports(case.proof, case.values, case.key)
                        <=> /\ WrapperVerifies(case.proof, case.values, case.key)
                            /\ HasDeploymentKey(case.key)
                            /\ Finite(case.proof.raw)
    BY DEF FoldingAgrees
  <2> QED
    BY EnvelopeFacts, ExportsWhatVerifies DEF Finite
<1> QED
  BY <1>1, CasesCompared, PTL

\* script/bridge.py, _bind_statement_digest: whatever stack of digits a
\* spender gives beside a statement, the leaf's verdict is SP1's.
THEOREM Chain_Agrees == CaseSpec => []ChainAgrees
<1>1. CaseInv => ChainAgrees
  <2> SUFFICES ASSUME CaseInv, case.kind = "envelope", HasDeploymentKey(case.key),
                      case.proof.exit_code = 0, case.proof.root = VkRoot,
                      case.proof.nonce < Order, NEW stack \in Stacks(case.proof)
               PROVE  ChainAccepts(DeploymentKey(case.key), stack, case.values)
                        <=> /\ ValueOf(stack.input0) = HashPublicInputs(case.values)
                            /\ Len(stack.input0) <= Width
                            /\ WrapperVerifies(case.proof, case.values, case.key)
    BY DEF ChainAgrees
  <2>1. PICK s \in Statements :
          /\ stack.input0 \in LET n == HashPublicInputs(s)
                              IN  {Field(n), Digits(n), Digits(n) \o <<0>>}
          /\ stack.input1 = Field(case.proof.nonce)
          /\ stack.proof = case.proof.raw
    BY DEF Stacks
  <2> DEFINE n == HashPublicInputs(s)
  <2>2. n \in Nat /\ n < ScalarRange
    BY CasesAssumption, ScalarsFit DEF HashPublicInputs
  <2>3. stack.input0 \in {Field(n), Digits(n), Digits(n) \o <<0>>}
    BY <2>1
  <2> HIDE DEF n
  <2>4. /\ Field(n) \in Seq(Digit) /\ Digits(n) \in Seq(Digit)
        /\ Digits(n) \o <<0>> \in Seq(Digit)
    <3>1. <<0>> \in Seq(Digit)
      BY Sizes DEF Digit
    <3> QED
      BY <2>2, <3>1, FieldIs, DigitsTyped, ConcatProperties
  <2>5. stack.input0 \in Seq(Digit)
    BY <2>3, <2>4
  <2>6. /\ case.key \in Nat /\ Sha256(case.values) \in Nat
        /\ case.proof.nonce \in Nat
        /\ case.proof.length = EnvelopeLength /\ case.proof.prefix = VkPrefix
    BY EnvelopeFacts
  <2>7. stack.input1 = Field(case.proof.nonce) /\ stack.proof = case.proof.raw
    BY <2>1
  <2> QED
    BY <2>5, <2>6, <2>7, ChainAcceptsWhatVerifies, Zenon
<1> QED
  BY <1>1, CasesCompared, PTL

\* lib.rs, valid_signature: no signature can be altered into another valid one.
THEOREM Signatures_Unique == CaseSpec => []SignaturesUnique
<1>1. CaseInv => SignaturesUnique
  <2> SUFFICES ASSUME CaseInv, case.kind = "signature"
               PROVE  AcceleratedSignatureValid(case.key, case.message, case.signature)
                        <=> case.signature = Signed(case.key.point, case.message)
    BY DEF SignaturesUnique
  <2>1. case \in SignatureCases
    <3>1. \A c \in EnvelopeCases : c.kind = "envelope"
      BY DEF EnvelopeCases
    <3> QED
      BY <3>1 DEF CaseInv
  <2>2. /\ case.key \in Keys
        /\ case.message \in Messages
        /\ case.signature \in EncodedPoint
    <3>1. PICK key \in Keys, message \in Messages, s \in EncodedPoint :
            case = [kind |-> "signature", key |-> key, message |-> message,
                    signature |-> s]
      BY <2>1 DEF SignatureCases
    <3> QED
      BY <3>1
  <2>3. HashToG2(case.message) \in Point \ {Infinity}
    BY <2>2, CasesAssumption
  <2> QED
    BY <2>2, <2>3, OneSignature DEF Keys
<1> QED
  BY <1>1, CasesCompared, PTL

=============================================================================
