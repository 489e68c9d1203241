------------------------------ MODULE PwmProofs -----------------------------
(***************************************************************************)
(* pwm_compute() never writes past its vector and spreads the ones evenly, *)
(* for vectors of every length.                                            *)
(*                                                                         *)
(* The argument: err always is the distance of (x0, y0) from the line, and *)
(* stays within one step of the longer side.  So every round steps along   *)
(* the longer side, and when that side is used up the distance leaves no   *)
(* room for the other to be anywhere but at its end.                       *)
(***************************************************************************)
EXTENDS Pwm, TLAPS

\* err is the distance from the line
OnLine == err = FirstErr - x0 * dy + y0 * dx

\* before a round, the distance is less than a step of the longer side
NearTop ==
  pc # "zero" /\ n > 0 =>
    /\ dx > dy  => 0 <= err /\ err < dx
    /\ dx <= dy => -dy < err /\ err <= 0

\* amid a round, the step along the longer side is taken or still to be
NearAmid ==
  pc = "zero" =>
    /\ n > 0
    /\ dx > dy  => 0 <= e2 /\ e2 < dx /\ err = e2 - dy
    /\ dx <= dy => /\ -dy < e2 /\ e2 <= 0 /\ y0 < dy
                   /\ err = IF e2 > -dx THEN e2 - dy ELSE e2

Types ==
  /\ dx \in Nat /\ dy \in Nat /\ n <= MaxN
  /\ x0 \in Nat /\ y0 \in Nat
  /\ err \in Int /\ e2 \in Int
  /\ pc \in {"one", "zero", "done"}

E2Near ==
  /\ dx > dy  => 0 <= e2 /\ (e2 < dx \/ e2 = 0)
  /\ dx <= dy => (-dy < e2 \/ e2 = 0) /\ e2 <= 0

IInv == Types /\ OnLine /\ NearTop /\ NearAmid /\ E2Near /\ InBounds

-----------------------------------------------------------------------------
\* A product that stays below k + 1 times b has a factor of at most k.
LEMMA FactorBelow ==
  ASSUME NEW a \in Nat, NEW b \in Nat, NEW k \in Nat, a * b < k * b + b
  PROVE  a <= k
<1> SUFFICES ASSUME a >= k + 1 PROVE FALSE
  OBVIOUS
<1> DEFINE d == a - (k + 1)
<1>1. d \in Nat /\ a = k + 1 + d
  OBVIOUS
<1>2. a * b = k * b + b + d * b
  BY <1>1, SMT
<1>3. d * b >= 0
  BY <1>1, SMT
<1>4. a * b \in Int /\ k * b \in Int /\ d * b \in Int
  BY <1>1, SMT
<1> HIDE DEF d
<1> QED BY <1>2, <1>3, <1>4

\* A product that stays above k - 1 times b has a factor of at least k.
LEMMA FactorAbove ==
  ASSUME NEW a \in Nat, NEW b \in Nat, NEW k \in Nat, a * b > k * b - b
  PROVE  a >= k
<1> SUFFICES ASSUME a + 1 <= k PROVE FALSE
  OBVIOUS
<1> DEFINE d == k - (a + 1)
<1>1. d \in Nat /\ k = a + 1 + d
  OBVIOUS
<1>2. k * b = a * b + b + d * b
  BY <1>1, SMT
<1>3. d * b >= 0
  BY <1>1, SMT
<1>4. a * b \in Int /\ k * b \in Int /\ d * b \in Int
  BY <1>1, SMT
<1> HIDE DEF d
<1> QED BY <1>2, <1>3, <1>4

\* Products grow with their factors.
LEMMA Grows ==
  ASSUME NEW a \in Nat, NEW k \in Nat, NEW b \in Nat, a <= k
  PROVE  a * b \in Nat /\ k * b \in Nat /\ a * b <= k * b
<1> DEFINE d == k - a
<1>1. d \in Nat /\ k = a + d
  OBVIOUS
<1>2. k * b = a * b + d * b
  BY <1>1, SMT
<1>3. d * b \in Nat /\ a * b \in Nat /\ k * b \in Nat
  BY <1>1, SMT
<1> HIDE DEF d
<1> QED BY <1>2, <1>3

\* The first distance is half a side: of the ones when they are more.
LEMMA FirstErrNear ==
  ASSUME dx \in Nat, dy \in Nat
  PROVE  /\ FirstErr \in Int
         /\ dx > dy  => 0 <= FirstErr /\ FirstErr < dx
         /\ dx <= dy => (-dy < FirstErr \/ FirstErr = 0) /\ FirstErr <= 0
BY DEF FirstErr


-----------------------------------------------------------------------------
LEMMA InitNear == Init => IInv
<1> SUFFICES ASSUME Init PROVE IInv
  OBVIOUS
<1> USE PwmAssumption
<1>1. Types
  BY FirstErrNear DEF Init, Types, n
<1>2. OnLine
  <2>1. 0 * dy = 0 /\ 0 * dx = 0
    BY <1>1 DEF Types
  <2> QED BY <2>1, <1>1, FirstErrNear DEF OnLine, Init, Types
<1>3. NearTop /\ E2Near
  BY <1>1, FirstErrNear DEF NearTop, E2Near, Init, Types, n
<1>4. NearAmid /\ InBounds
  BY DEF NearAmid, InBounds, Init
<1> QED BY <1>1, <1>2, <1>3, <1>4 DEF IInv

\* Before a round that is not the last, the longer side is not used up.
LEMMA LongSideLeft ==
  ASSUME IInv, pc = "one", ~ AtEnd
  PROVE  /\ n > 0
         /\ dx > dy  => x0 < dx
         /\ dx <= dy => y0 < dy
<1> USE DEF IInv, Types, InBounds
<1>1. n > 0
  BY DEF n, AtEnd
<1>2. ASSUME dx > dy, x0 >= dx PROVE FALSE
  <2>1. x0 = dx /\ 0 <= err /\ err < dx
    BY <1>1, <1>2 DEF NearTop
  <2>2. 0 <= FirstErr /\ FirstErr < dx /\ FirstErr \in Int
    BY <1>2, FirstErrNear
  <2>3. y0 * dx = err - FirstErr + dy * dx
    <3>1. x0 * dy = dy * dx /\ dy * dx \in Int /\ y0 * dx \in Int
      BY <2>1
    <3> QED BY <3>1, <2>2 DEF OnLine
  <2>4. y0 * dx > dy * dx - dx
    <3>1. dy * dx \in Int
      OBVIOUS
    <3> QED BY <3>1, <2>1, <2>2, <2>3
  <2>5. y0 >= dy
    BY <2>4, FactorAbove
  <2> QED BY <2>1, <2>5 DEF AtEnd
<1>3. ASSUME dx <= dy, y0 >= dy PROVE FALSE
  <2>1. y0 = dy /\ -dy < err /\ err <= 0
    BY <1>1, <1>3 DEF NearTop
  <2>2. -dy < FirstErr /\ FirstErr <= 0 /\ FirstErr \in Int
    BY <1>1, <1>3, FirstErrNear DEF n
  <2>3. x0 * dy = FirstErr - err + dx * dy
    <3>1. y0 * dx = dx * dy /\ dx * dy \in Int /\ x0 * dy \in Int
      BY <2>1
    <3> QED BY <3>1, <2>2 DEF OnLine
  <2>4. x0 * dy > dx * dy - dy
    <3>1. dx * dy \in Int
      OBVIOUS
    <3> QED BY <3>1, <2>1, <2>2, <2>3
  <2>5. x0 >= dx
    BY <2>4, FactorAbove
  <2> QED BY <2>1, <2>5 DEF AtEnd
<1> QED BY <1>1, <1>2, <1>3

LEMMA WriteOneNear == IInv /\ WriteOne => IInv'
<1> SUFFICES ASSUME IInv, WriteOne PROVE IInv'
  OBVIOUS
<1> USE DEF IInv, Types
<1>1. /\ n > 0
      /\ dx > dy  => x0 < dx
      /\ dx <= dy => y0 < dy
  BY LongSideLeft DEF WriteOne
<1>2. /\ dx' = dx /\ dy' = dy /\ y0' = y0 /\ e2' = err /\ pc' = "zero"
      /\ n' = n /\ FirstErr' = FirstErr
  BY DEF WriteOne, n, FirstErr
<1>3. /\ e2' > -dx  => err' = err - dy /\ x0' = x0 + 1
      /\ e2' <= -dx => err' = err /\ x0' = x0
  BY <1>2 DEF WriteOne, WritesOne
<1>4. FirstErr \in Int
  BY FirstErrNear
<1>5. Types'
  BY <1>2, <1>3
<1>6. NearAmid' /\ NearTop' /\ E2Near'
  BY <1>1, <1>2, <1>3 DEF NearAmid, NearTop, E2Near, WriteOne
<1>7. OnLine'
  <2>1. x0 * dy \in Int /\ y0 * dx \in Int /\ (x0 + 1) * dy = x0 * dy + dy
    OBVIOUS
  <2> QED BY <2>1, <1>2, <1>3, <1>4 DEF OnLine
<1>8. x0' <= dx
  <2>1. CASE dx > dy
    BY <2>1, <1>1, <1>3, <1>2 DEF InBounds
  <2>2. CASE dx <= dy /\ e2' <= -dx
    BY <2>2, <1>3 DEF InBounds
  <2>3. CASE dx <= dy /\ e2' > -dx
    <3>1. FirstErr <= 0 /\ err > -dx
      BY <2>3, <1>2, FirstErrNear
    <3>2. x0' \in Nat /\ x0' * dy \in Int /\ y0 * dx \in Int
      BY <1>5, <1>2
    <3>3. x0' * dy = FirstErr - err + dy + y0 * dx
      BY <3>2, <1>7, <1>2, <1>3, <1>4, <2>3 DEF OnLine
    <3>4. y0 * dx <= dx * dy - dx
      <4>1. y0 * dx <= (dy - 1) * dx
        BY <1>1, <2>3, Grows
      <4>2. (dy - 1) * dx = dx * dy - dx
        OBVIOUS
      <4> QED BY <4>1, <4>2
    <3>5. x0' * dy < dx * dy + dy
      <4> DEFINE p == x0' * dy  q == y0 * dx  r == dx * dy
      <4>1. /\ p \in Int /\ q \in Int /\ r \in Int
            /\ p = FirstErr - err + dy + q /\ q <= r - dx
        BY <3>2, <3>3, <3>4
      <4> HIDE DEF p, q, r
      <4>2. p < r + dy
        BY <4>1, <3>1, <1>4
      <4> QED BY <4>2 DEF p, r
    <3> QED BY <3>2, <3>5, FactorBelow
  <2> QED BY <2>1, <2>2, <2>3, <1>5
<1>9. InBounds'
  BY <1>2, <1>8 DEF InBounds
<1> QED BY <1>5, <1>6, <1>7, <1>9

LEMMA WriteZeroNear == IInv /\ WriteZero => IInv'
<1> SUFFICES ASSUME IInv, WriteZero PROVE IInv'
  OBVIOUS
<1> USE DEF IInv, Types
<1>1. /\ dx' = dx /\ dy' = dy /\ x0' = x0 /\ e2' = e2 /\ pc' = "one"
      /\ n' = n /\ FirstErr' = FirstErr /\ pc = "zero"
  BY DEF WriteZero, n, FirstErr
<1>2. /\ e2 < dy  => err' = err + dx /\ y0' = y0 + 1
      /\ e2 >= dy => err' = err /\ y0' = y0
  BY DEF WriteZero, WritesZero
<1>3. FirstErr \in Int
  BY FirstErrNear
<1>4. Types'
  BY <1>1, <1>2
<1>5. NearAmid' /\ E2Near'
  BY <1>1 DEF NearAmid, E2Near
<1>6. NearTop'
  <2>1. CASE dx > dy
    BY <2>1, <1>1, <1>2 DEF NearTop, NearAmid
  <2>2. CASE dx <= dy
    BY <2>2, <1>1, <1>2 DEF NearTop, NearAmid
  <2> QED BY <2>1, <2>2
<1>7. OnLine'
  <2>1. x0 * dy \in Int /\ y0 * dx \in Int /\ (y0 + 1) * dx = y0 * dx + dx
    OBVIOUS
  <2> QED BY <2>1, <1>1, <1>2, <1>3 DEF OnLine
<1>8. y0' <= dy
  <2>1. CASE dx <= dy
    BY <2>1, <1>1, <1>2 DEF NearAmid
  <2>2. CASE dx > dy
    <3>1. FirstErr >= 0 /\ err' < dx
      BY <2>2, <1>1, <1>6, FirstErrNear DEF NearTop, n
    <3>2. y0' \in Nat /\ y0' * dx \in Int /\ x0 * dy \in Int /\ err' \in Int
      BY <1>4, <1>1
    <3>3. y0' * dx = err' - FirstErr + x0 * dy
      BY <3>2, <1>7, <1>1, <1>3 DEF OnLine
    <3>4. x0 * dy <= dx * dy
      BY Grows DEF InBounds
    <3>5. dx * dy \in Int /\ dx * dy = dy * dx
      OBVIOUS
    <3>6. y0' * dx < dy * dx + dx
      <4> DEFINE p == y0' * dx  q == x0 * dy  r == dy * dx
      <4>1. /\ p \in Int /\ q \in Int /\ r \in Int /\ err' \in Int
            /\ p = err' - FirstErr + q /\ q <= r
        BY <3>2, <3>3, <3>4, <3>5
      <4> HIDE DEF p, q, r
      <4>2. \A e, f, d \in Int : p = e - f + q /\ f >= 0 /\ e < d => p < r + d
        BY <4>1
      <4>3. dx \in Int
        OBVIOUS
      <4>4. p < r + dx
        BY <4>1, <4>2, <4>3, <3>1, <1>3, Zenon
      <4> QED BY <4>4 DEF p, r
    <3> QED BY <3>2, <3>6, FactorBelow
  <2> QED BY <2>1, <2>2
<1>9. InBounds'
  BY <1>1, <1>8 DEF InBounds
<1> QED BY <1>4, <1>5, <1>6, <1>7, <1>9

LEMMA StepNear == IInv /\ [Next]_vars => IInv'
<1> SUFFICES ASSUME IInv, [Next]_vars PROVE IInv'
  OBVIOUS
<1>1. CASE WriteOne
  BY <1>1, WriteOneNear
<1>2. CASE WriteZero
  BY <1>2, WriteZeroNear
<1>3. CASE Finish
  BY <1>3 DEF Finish, IInv, Types, OnLine, NearTop, NearAmid, E2Near, InBounds,
              n, FirstErr
<1>4. CASE UNCHANGED vars
  BY <1>4 DEF vars, IInv, Types, OnLine, NearTop, NearAmid, E2Near, InBounds,
              n, FirstErr
<1> QED BY <1>1, <1>2, <1>3, <1>4 DEF Next

LEMMA AlwaysNear == Spec => []IInv
BY InitNear, StepNear, PTL DEF Spec

-----------------------------------------------------------------------------
LEMMA NearImplies == IInv => TypeOK /\ Evenly
<1> SUFFICES ASSUME IInv PROVE TypeOK /\ Evenly
  OBVIOUS
<1> USE DEF IInv, Types
<1>1. /\ FirstErr \in Int
      /\ dx > dy  => 0 <= FirstErr /\ FirstErr < dx
      /\ dx <= dy => (-dy < FirstErr \/ FirstErr = 0) /\ FirstErr <= 0
  BY FirstErrNear
<1>2. TypeOK
  <2>1. -n <= err /\ (err < dx \/ err = 0)
    <3>1. CASE n = 0
      BY <3>1, <1>1, SMT DEF n, OnLine, InBounds, NearAmid
    <3>2. CASE n > 0
      BY <3>2 DEF n, NearTop, NearAmid
    <3> QED BY <3>1, <3>2 DEF n
  <2>2. -n <= e2 /\ (e2 < dx \/ e2 = 0)
    BY DEF n, E2Near
  <2> QED BY <2>1, <2>2 DEF TypeOK
<1>3. Evenly
  <2> SUFFICES ASSUME n > 0
               PROVE  -n < x0 * n - pos * dx /\ x0 * n - pos * dx < n
    BY DEF Evenly
  <2>1. x0 * n - pos * dx = x0 * dy - y0 * dx
    BY SMT DEF n, pos
  <2>2. x0 * dy - y0 * dx = FirstErr - err
    <3>1. x0 * dy \in Int /\ y0 * dx \in Int
      OBVIOUS
    <3> QED BY <3>1, <1>1 DEF OnLine
  <2>3. -n < FirstErr - err /\ FirstErr - err < n
    BY <1>1 DEF n, NearTop, NearAmid
  <2> QED BY <2>1, <2>2, <2>3
<1> QED BY <1>2, <1>3

\* Type correctness.
THEOREM TypeCorrect == Spec => []TypeOK
BY AlwaysNear, NearImplies, PTL

\* pwm_compute() never writes more ones or zeroes than its vector has room for,
\* though its loop asks only whether it stands exactly at the end
\* (cs140e-pwm.c:31-34).
THEOREM NeverPastTheEnd == Spec => []InBounds
<1>1. IInv => InBounds
  BY DEF IInv
<1> QED BY AlwaysNear, <1>1, PTL

\* Neither the vector nor the range of an int is ever left.
THEOREM NeverOutside == Spec => []StaysInside
<1>1. TypeOK /\ InBounds => StaysInside
  BY DEF StaysInside
<1> QED BY <1>1, TypeCorrect, NeverPastTheEnd, PTL

\* Every prefix of the vector has its share of ones to within one choice
\* (cs140e-pwm.c:13-17).
THEOREM SpreadsEvenly == Spec => []Evenly
BY AlwaysNear, NearImplies, PTL
=============================================================================
