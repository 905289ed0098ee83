--------------------------- MODULE TransportProofs ---------------------------
(***************************************************************************)
(* Proofs about the transport of a connection: how the bytes of a socket   *)
(* are cut into packets (Framing), for any streams, limits and chunks; and *)
(* how the connection goes through its sockets (ConnectionLifecycle), for  *)
(* any number of sockets and requests, with and without reconnection.  The *)
(* two models share no variable: the first is of one socket of the other.  *)
(***************************************************************************)
EXTENDS ConnectionLifecycle, Framing, FiniteSetTheorems, SequenceTheorems, TLAPS

-----------------------------------------------------------------------------
(* Framing: numbers and their digits.                                      *)

(* A set of naturals that is not empty has a least element.                *)
LEMMA LeastExists ==
    ASSUME NEW T \in SUBSET Nat, T # {}
    PROVE  \E k \in T : \A j \in T : k <= j
<1>1. PICK k \in T : TRUE
  OBVIOUS
<1> DEFINE Below(i) == {j \in 0..k : j <= i /\ j \in T}
           B == {Below(i) : i \in T \cap (0..k)}
<1>2. B \subseteq FiniteSubsetsOf(0..k) /\ B # {}
  <2>1. FiniteSubsetsOf(0..k) = SUBSET (0..k)
    <3>1. IsFiniteSet(0..k)
      BY <1>1, FS_Interval
    <3> QED BY <3>1, FS_FiniteSubsetsOfFinite
  <2>2. k \in T \cap (0..k)
    BY <1>1
  <2>3. B \subseteq SUBSET (0..k) /\ Below(k) \in B
    BY <2>2
  <2> QED BY <2>1, <2>3
<1>3. PICK b \in B : \A a \in B : <<a, b>> \notin StrictSubsetOrdering(0..k)
  <2>1. IsWellFoundedOn(StrictSubsetOrdering(0..k), FiniteSubsetsOf(0..k))
    BY FS_StrictSubsetOrderingWellFounded
  <2> HIDE DEF B
  <2> QED BY <1>2, <2>1, WFMin
<1>4. PICK i \in T \cap (0..k) : b = Below(i)
  OBVIOUS
<1>5. ASSUME NEW j \in T, j < i
      PROVE  FALSE
  <2>1. j \in T \cap (0..k) /\ Below(j) \in B
    BY <1>1, <1>4, <1>5
  <2>2. Below(j) \subseteq Below(i) /\ Below(j) # Below(i)
    <3>1. i \in Below(i) /\ i \notin Below(j)
      BY <1>4, <1>5, <2>1
    <3>2. \A x \in Below(j) : x \in Below(i)
      BY <1>4, <1>5, <2>1
    <3> QED BY <3>1, <3>2
  <2>3. <<Below(j), Below(i)>> \in StrictSubsetOrdering(0..k)
    BY <2>2 DEF StrictSubsetOrdering
  <2> QED BY <1>3, <1>4, <2>1, <2>3
<1> QED BY <1>4, <1>5

(* Induction up to n, for a set.                                           *)
LEMMA Induction ==
    ASSUME NEW n \in Nat, NEW T, 0 \in T, \A k \in 1..n : k - 1 \in T => k \in T
    PROVE  \A k \in 0..n : k \in T
<1> DEFINE Outside == {k \in 0..n : k \notin T}
<1> SUFFICES ASSUME Outside # {} PROVE FALSE
  OBVIOUS
<1>1. PICK k \in Outside : \A j \in Outside : k <= j
  <2>1. Outside \in SUBSET Nat
    OBVIOUS
  <2> HIDE DEF Outside
  <2> QED BY <2>1, LeastExists
<1>2. k \in 1..n /\ k - 1 \in 0..n /\ k \notin T
  BY <1>1
<1>3. k - 1 \notin Outside
  BY <1>1, <1>2
<1> QED BY <1>2, <1>3

(* The functions on 0..n that are defined by recursion.                    *)
StaysIn(n, S, step) == \A x \in S, k \in 1..n : step[k][x] \in S
Iterates(n, S, a, step) ==
    \E h \in [0..n -> S] : h[0] = a /\ \A k \in 1..n : h[k] = step[k][h[k-1]]
(* Iterating a step that stays in S from a in S.                           *)
LEMMA Iterated ==
    ASSUME NEW n \in Nat, NEW S, NEW a \in S, NEW step, StaysIn(n, S, step)
    PROVE  Iterates(n, S, a, step)
<1>0. \A x \in S, k \in 1..n : step[k][x] \in S
  BY DEF StaysIn
<1> DEFINE Upto(m, h) == h \in [0..m -> S] /\ h[0] = a /\ \A k \in 1..m : h[k] = step[k][h[k-1]]
           T == {m \in 0..n : \E h : Upto(m, h)}
<1>1. 0 \in T
  <2>1. Upto(0, [i \in 0..0 |-> a])
    OBVIOUS
  <2> HIDE DEF Upto
  <2> QED BY <2>1
<1>2. ASSUME NEW m \in 1..n, m - 1 \in T
      PROVE  m \in T
  <2>1. PICK g : Upto(m - 1, g)
    BY <1>2
  <2> DEFINE h == [i \in 0..m |-> IF i = m THEN step[m][g[m-1]] ELSE g[i]]
  <2>2. g[m-1] \in S /\ step[m][g[m-1]] \in S
    <3>1. m - 1 \in 0..(m-1)
      OBVIOUS
    <3> QED BY <1>0, <2>1, <3>1
  <2>3. \A i \in 0..(m-1) : h[i] = g[i] /\ g[i] \in S
    BY <2>1
  <2>4. h \in [0..m -> S] /\ h[m] = step[m][g[m-1]]
    <3>1. \A i \in 0..m : i # m => i \in 0..(m-1)
      OBVIOUS
    <3>2. \A i \in 0..m : h[i] \in S
      BY <2>2, <2>3, <3>1
    <3>3. m \in 0..m
      OBVIOUS
    <3> QED BY <3>2, <3>3
  <2> HIDE DEF h
  <2>5. \A k \in 1..m : h[k] = step[k][h[k-1]]
    <3> SUFFICES ASSUME NEW k \in 1..m PROVE h[k] = step[k][h[k-1]]
      OBVIOUS
    <3>1. CASE k = m
      <4>1. m - 1 \in 0..(m-1)
        OBVIOUS
      <4> QED BY <2>3, <2>4, <3>1, <4>1
    <3>2. CASE k # m
      <4>1. k \in 1..(m-1) /\ k - 1 \in 0..(m-1) /\ k \in 0..(m-1)
        BY <3>2
      <4>2. g[k] = step[k][g[k-1]]
        BY <2>1, <4>1
      <4> QED BY <2>3, <4>1, <4>2
    <3> QED BY <3>1, <3>2
  <2>6. h[0] = a
    <3>1. 0 \in 0..(m-1)
      OBVIOUS
    <3> QED BY <2>1, <2>3, <3>1
  <2>7. Upto(m, h)
    BY <2>4, <2>5, <2>6
  <2> QED BY <2>7
<1>3. n \in T
  <2> HIDE DEF T
  <2>1. \A k \in 0..n : k \in T
    BY <1>1, <1>2, Induction
  <2> QED BY <2>1
<1> QED BY <1>3 DEF Iterates

(* There are two digits at least.                                          *)
LEMMA BaseIs ==
    Base \in Nat /\ Base > 1
  BY FramingAssumption

(* A number is its last digit and what is before it.                       *)
LEMMA Divided ==
    ASSUME NEW n \in Nat
    PROVE  (n \div Base) * Base + (n % Base) = n /\ n \div Base \in Nat /\ n % Base \in Nat
  BY BaseIs

(* Taking the digits off a number one after the other.                     *)
LEMMA Quotients ==
    ASSUME NEW n \in Nat
    PROVE  LET q == Quotient(n) IN
           q \in [0..7 -> Nat] /\ q[0] = n /\ \A k \in 1..7 : q[k] = q[k-1] \div Base
<1> DEFINE step == [k \in 1..7 |-> [x \in Nat |-> x \div Base]]
           Is(q) == q = [k \in 0..7 |-> IF k = 0 THEN n ELSE q[k-1] \div Base]
<1>1. \A x \in Nat : x \div Base \in Nat
  BY BaseIs
<1>2. \A x \in Nat, k \in 1..7 : step[k][x] = x \div Base
  OBVIOUS
<1>3. PICK h \in [0..7 -> Nat] : h[0] = n /\ \A k \in 1..7 : h[k] = step[k][h[k-1]]
  <2>1. StaysIn(7, Nat, step)
    BY <1>1, <1>2 DEF StaysIn
  <2>2. Iterates(7, Nat, n, step)
    <3> HIDE DEF step
    <3> QED BY <2>1, Iterated
  <2> QED BY <2>2 DEF Iterates
<1>4. \A k \in 1..7 : h[k] = h[k-1] \div Base
  BY <1>2, <1>3
<1>5. Is(h)
  BY <1>3, <1>4
<1>6. Quotient(n) = CHOOSE q : Is(q)
  BY DEF Quotient
<1>7. Is(Quotient(n))
  <2> HIDE DEF Is
  <2> QED BY <1>5, <1>6
<1> DEFINE q == Quotient(n)
<1> HIDE DEF q
<1>8. q[0] = n /\ \A k \in 1..7 : q[k] = q[k-1] \div Base
  BY <1>7 DEF q
<1>9. \A k \in 0..7 : q[k] \in Nat
  <2> DEFINE T == {k \in 0..7 : q[k] \in Nat}
  <2>1. 0 \in T
    BY <1>8
  <2>2. \A k \in 1..7 : k - 1 \in T => k \in T
    BY <1>1, <1>8
  <2>3. \A k \in 0..7 : k \in T
    <3> HIDE DEF T
    <3> QED BY <2>1, <2>2, Induction
  <2> QED BY <2>3
<1>10. q = [k \in 0..7 |-> q[k]]
  BY <1>7 DEF q
<1> QED BY <1>8, <1>9, <1>10 DEF q

(* What is left without k digits, and the next digit.                      *)
LEMMA QuotientStep ==
    ASSUME NEW n \in Nat, NEW k \in 1..7
    PROVE  /\ Quotient(n)[k-1] \in Nat /\ Quotient(n)[k] \in Nat
           /\ Quotient(n)[k] * Base + (Quotient(n)[k-1] % Base) = Quotient(n)[k-1]
<1> DEFINE q == Quotient(n)
<1>1. k - 1 \in 0..7 /\ k \in 0..7
  OBVIOUS
<1>2. q[k-1] \in Nat /\ q[k] \in Nat /\ q[k] = q[k-1] \div Base
  BY <1>1, Quotients
<1> HIDE DEF q
<1>3. (q[k-1] \div Base) * Base + (q[k-1] % Base) = q[k-1]
  BY <1>2, Divided
<1> QED BY <1>2, <1>3 DEF q

(* The value of a number's first digits.                                   *)
ValueOf(bytes, v) ==
    v = [i \in 0..Len(bytes) |-> IF i = 0 THEN 0 ELSE v[i-1] * Base + bytes[i][3]]
(* What Number computes, digit by digit.                                   *)
LEMMA Numbers ==
    ASSUME NEW bytes, Len(bytes) \in Nat, \A i \in 1..Len(bytes) : bytes[i][3] \in Nat
    PROVE  \E v \in [0..Len(bytes) -> Nat] :
              /\ v[0] = 0 /\ \A i \in 1..Len(bytes) : v[i] = v[i-1] * Base + bytes[i][3]
              /\ Number(bytes) = v[Len(bytes)]
<1> DEFINE m == Len(bytes)
           step == [k \in 1..m |-> [x \in Nat |-> x * Base + bytes[k][3]]]
           value == CHOOSE v : ValueOf(bytes, v)
<1>1. \A x \in Nat, k \in 1..m : step[k][x] = x * Base + bytes[k][3] /\ step[k][x] \in Nat
  BY BaseIs
<1>2. PICK h \in [0..m -> Nat] : h[0] = 0 /\ \A k \in 1..m : h[k] = step[k][h[k-1]]
  <2>1. StaysIn(m, Nat, step)
    BY <1>1 DEF StaysIn
  <2>2. Iterates(m, Nat, 0, step)
    <3> HIDE DEF step
    <3> QED BY <2>1, Iterated
  <2> QED BY <2>2 DEF Iterates
<1>3. \A k \in 1..m : h[k] = h[k-1] * Base + bytes[k][3]
  <2> SUFFICES ASSUME NEW k \in 1..m PROVE h[k] = h[k-1] * Base + bytes[k][3]
    OBVIOUS
  <2>1. h[k-1] \in Nat
    <3>1. m \in Nat
      OBVIOUS
    <3> HIDE DEF step, m
    <3>2. k - 1 \in 0..m
      BY <3>1
    <3>3. h \in [0..m -> Nat]
      BY <1>2
    <3> QED BY <3>2, <3>3
  <2>2. h[k] = step[k][h[k-1]] /\ step[k][h[k-1]] = h[k-1] * Base + bytes[k][3]
    <3>1. h[k] = step[k][h[k-1]]
      <4> HIDE DEF step
      <4> QED BY <1>2
    <3>2. step[k][h[k-1]] = h[k-1] * Base + bytes[k][3]
      BY <1>1, <2>1
    <3> QED BY <3>1, <3>2
  <2> HIDE DEF step
  <2> QED BY <2>2
<1>4. ValueOf(bytes, h)
  BY <1>2, <1>3 DEF ValueOf
<1>5. ValueOf(bytes, value)
  BY <1>4
<1>6. Number(bytes) = value[m]
  BY DEF Number, ValueOf
<1> HIDE DEF value
<1>7. value[0] = 0 /\ \A k \in 1..m : value[k] = value[k-1] * Base + bytes[k][3]
  <2>1. m \in Nat
    OBVIOUS
  <2>2. value = [i \in 0..m |-> IF i = 0 THEN 0 ELSE value[i-1] * Base + bytes[i][3]]
    BY <1>5 DEF ValueOf
  <2> HIDE DEF m
  <2>3. 0 \in 0..m /\ \A k \in 1..m : k \in 0..m /\ k # 0
    BY <2>1
  <2>4. \A i \in 0..m : value[i] = IF i = 0 THEN 0 ELSE value[i-1] * Base + bytes[i][3]
    BY <2>2, Zenon
  <2> QED BY <2>3, <2>4
<1>8. \A k \in 0..m : value[k] \in Nat
  <2> DEFINE T == {k \in 0..m : value[k] \in Nat}
  <2>1. 0 \in T
    BY <1>7
  <2>2. ASSUME NEW k \in 1..m, k - 1 \in T PROVE k \in T
    <3>1. \A x, d \in Nat : x * Base + d \in Nat
      BY BaseIs
    <3>2. value[k-1] \in Nat /\ bytes[k][3] \in Nat
      BY <2>2
    <3>3. value[k] = value[k-1] * Base + bytes[k][3]
      BY <1>7
    <3>4. value[k] \in Nat
      BY <3>1, <3>2, <3>3
    <3> QED BY <3>4
  <2>3. \A k \in 0..m : k \in T
    <3> HIDE DEF T
    <3> QED BY <2>1, <2>2, Induction
  <2> QED BY <2>3
<1>9. value = [i \in 0..m |-> value[i]]
  BY <1>5 DEF ValueOf
<1> QED BY <1>6, <1>7, <1>8, <1>9

(* Digits are read back as the number they were written for.               *)
LEMMA NumberOfDigits ==
    ASSUME NEW n \in Nat, NEW size \in 0..7, Fits(n, size), NEW bytes, Len(bytes) = size,
           \A i \in 1..size : bytes[i] = Digits(n, size)[i]
    PROVE  Number(bytes) = n
<1> DEFINE q == Quotient(n)
<1>1. \A i \in 1..size : bytes[i][3] = q[size - i] % Base /\ bytes[i][3] \in Nat
  <2> SUFFICES ASSUME NEW i \in 1..size
               PROVE  bytes[i][3] = q[size - i] % Base /\ bytes[i][3] \in Nat
    OBVIOUS
  <2>1. size - i \in 0..7
    OBVIOUS
  <2>2. q[size - i] \in Nat
    BY <2>1, Quotients
  <2>3. bytes[i][3] = q[size - i] % Base
    BY DEF Digits, Digit
  <2> HIDE DEF q
  <2>4. q[size - i] % Base \in Nat
    BY <2>2, BaseIs
  <2> QED BY <2>3, <2>4
<1>2. PICK v \in [0..size -> Nat] :
         /\ v[0] = 0 /\ \A i \in 1..size : v[i] = v[i-1] * Base + bytes[i][3]
         /\ Number(bytes) = v[size]
  <2>1. Len(bytes) \in Nat /\ \A i \in 1..Len(bytes) : bytes[i][3] \in Nat
    BY <1>1
  <2> HIDE DEF q
  <2> QED BY <2>1, Numbers
<1> DEFINE T == {i \in 0..size : v[i] = q[size - i]}
<1>3. 0 \in T
  BY <1>2 DEF Fits
<1>4. ASSUME NEW i \in 1..size, i - 1 \in T
      PROVE  i \in T
  <2> DEFINE k == size - i + 1
  <2>1. k \in 1..7 /\ k - 1 = size - i /\ k = size - (i - 1)
    OBVIOUS
  <2>2. q[k] * Base + (q[k-1] % Base) = q[k-1]
    BY <2>1, QuotientStep
  <2>3. v[i-1] = q[k]
    BY <1>4, <2>1
  <2>4. v[i] = v[i-1] * Base + (q[k-1] % Base)
    BY <1>1, <1>2, <2>1
  <2> HIDE DEF k, q
  <2>5. v[i] = q[size - i]
    BY <2>1, <2>2, <2>3, <2>4
  <2> QED BY <2>5
<1>5. size \in T
  <2> HIDE DEF T
  <2>1. size \in Nat /\ \A i \in 1..size : i - 1 \in T => i \in T
    BY <1>4
  <2>2. \A i \in 0..size : i \in T
    BY <1>3, <2>1, Induction
  <2>3. size \in 0..size
    OBVIOUS
  <2> QED BY <2>2, <2>3
<1>6. q[0] = n
  BY Quotients
<1> QED BY <1>2, <1>5, <1>6

-----------------------------------------------------------------------------
(* What composing makes.                                                   *)

Byte == Nat \X Nat \X Nat

(* A length has as many digits as its size says.                           *)
LEMMA LengthSizes ==
    ASSUME NEW n \in Nat, Fits(n, 7)
    PROVE  LengthSize(n) \in 0..7 /\ Fits(n, LengthSize(n))
<1> DEFINE T == {k \in 0..7 : Fits(n, k)}
           Least(k) == Fits(n, k) /\ \A j \in 0..(k-1) : ~Fits(n, j)
<1>1. PICK k \in T : \A j \in T : k <= j
  <2>1. T \in SUBSET Nat /\ 7 \in T
    OBVIOUS
  <2> HIDE DEF T
  <2> QED BY <2>1, LeastExists
<1>2. k \in 0..7 /\ Least(k)
  BY <1>1
<1>3. LengthSize(n) = CHOOSE j \in 0..7 : Least(j)
  BY DEF LengthSize
<1>4. LengthSize(n) \in 0..7 /\ Least(LengthSize(n))
  <2> HIDE DEF Least
  <2> QED BY <1>2, <1>3
<1> QED BY <1>4

(* The length of a fixed value is what its exponent says.                  *)
LEMMA Exponents ==
    ASSUME NEW length \in FixedLengths
    PROVE  /\ Exponent(length) \in 0..7
           /\ length = IF Exponent(length) = 0 THEN 0 ELSE 2^(Exponent(length) - 1)
<1>1. CASE length = 0
  BY <1>1 DEF Exponent
<1>2. CASE length # 0
  <2>1. PICK e \in 0..6 : 2^e = length
    BY <1>2, FramingAssumption
  <2>2. e + 1 \in 1..7 /\ 2^((e + 1) - 1) = length
    <3>1. (e + 1) - 1 = e
      OBVIOUS
    <3> QED BY <2>1, <3>1
  <2>3. Exponent(length) \in 1..7 /\ 2^(Exponent(length) - 1) = length
    BY <1>2, <2>2 DEF Exponent
  <2> QED BY <2>3
<1> QED BY <1>1, <1>2

(* Digits are bytes, as many as asked for.                                 *)
LEMMA DigitsAre ==
    ASSUME NEW n \in Nat, NEW size \in 0..7
    PROVE  Digits(n, size) \in Seq(Byte) /\ Len(Digits(n, size)) = size
<1>1. ASSUME NEW i \in 1..size
      PROVE  Digit(Quotient(n)[size - i] % Base) \in Byte
  <2>1. size - i \in 0..7
    OBVIOUS
  <2>2. Quotient(n)[size - i] \in Nat
    BY <2>1, Quotients
  <2>3. Quotient(n)[size - i] % Base \in Nat
    BY <2>2, BaseIs
  <2> QED BY <2>3 DEF Digit, Byte
<1> QED BY <1>1 DEF Digits

(* A payload is bytes, as many as asked for.                               *)
LEMMA PayloadIs ==
    ASSUME NEW mark \in Nat, NEW length \in Nat
    PROVE  Payload(mark, length) \in Seq(Byte) /\ Len(Payload(mark, length)) = length
<1>1. ASSUME NEW i \in 1..length
      PROVE  Digit((mark + i) % Base) \in Byte
  <2>1. (mark + i) % Base \in Nat
    BY BaseIs
  <2> QED BY <2>1 DEF Digit, Byte
<1> QED BY <1>1 DEF Payload

(* Two sequences one behind the other.                                     *)
LEMMA ConcatOf ==
    ASSUME NEW S, NEW p \in Seq(S), NEW q \in Seq(S)
    PROVE  /\ p \o q \in Seq(S) /\ Len(p \o q) = Len(p) + Len(q)
           /\ \A i \in 1..Len(p) : (p \o q)[i] = p[i]
           /\ \A i \in 1..Len(q) : (p \o q)[Len(p) + i] = q[i]
  OBVIOUS

SizeDigits(v) == IF v.class = Fixed THEN 0 ELSE LengthSize(v.length)
Tdu(v, mark) == ComposeTdu(v.class, v.length, mark)

(* What the peer can send as a value.                                      *)
LEMMA Values ==
    ASSUME NEW v \in Value
    PROVE  /\ v.class \in {Fixed, Dynamic} /\ v.length \in Nat
           /\ v.class = Fixed => v.length \in FixedLengths
           /\ v.class = Dynamic => v.length \in Lengths /\ Fits(v.length, 7)
           /\ SizeDigits(v) \in 0..7
<1>1. /\ v.class \in {Fixed, Dynamic} /\ v.length \in Nat
      /\ v.class = Fixed => v.length \in FixedLengths
      /\ v.class = Dynamic => v.length \in Lengths
  BY FramingAssumption DEF Value, Fixed, Dynamic
<1>2. v.class = Dynamic => Fits(v.length, 7)
  BY <1>1, FramingAssumption
<1>3. v.class # Fixed => LengthSize(v.length) \in 0..7
  BY <1>1, <1>2, LengthSizes
<1> QED BY <1>1, <1>2, <1>3 DEF SizeDigits

(* A value is its header, the digits of its length and its payload.        *)
LEMMA TduIs ==
    ASSUME NEW v \in Value, NEW mark \in Nat
    PROVE  LET t == Tdu(v, mark) IN
           /\ t \in Seq(Byte) /\ Len(t) = 1 + SizeDigits(v) + v.length
           /\ t[1][1] = v.class
           /\ t[1][2] = IF v.class = Fixed THEN Exponent(v.length) ELSE SizeDigits(v)
           /\ \A i \in 1..SizeDigits(v) : t[1 + i] = Digits(v.length, SizeDigits(v))[i]
<1> DEFINE s == IF v.class = Fixed THEN Exponent(v.length) ELSE SizeDigits(v)
           head == <<<<v.class, s, 0>>>>
           digits == IF v.class = Fixed THEN <<>> ELSE Digits(v.length, SizeDigits(v))
           payload == Payload(mark, v.length)
           t == Tdu(v, mark)
<1>1. /\ v.class \in Nat /\ s \in Nat
      /\ digits \in Seq(Byte) /\ Len(digits) = SizeDigits(v)
      /\ payload \in Seq(Byte) /\ Len(payload) = v.length
  <2>1. /\ v.class \in {0, 1} /\ v.length \in Nat /\ SizeDigits(v) \in 0..7
        /\ v.class = Fixed => v.length \in FixedLengths
    BY Values DEF Fixed, Dynamic
  <2>2. s \in Nat
    BY <2>1, Exponents
  <2>3. payload \in Seq(Byte) /\ Len(payload) = v.length
    BY <2>1, PayloadIs
  <2>4. CASE v.class = Fixed
    <3>1. digits = <<>> /\ SizeDigits(v) = 0
      BY <2>4 DEF SizeDigits
    <3>2. <<>> \in Seq(Byte)
      OBVIOUS
    <3>3. digits \in Seq(Byte) /\ Len(digits) = SizeDigits(v)
      BY <3>1, <3>2
    <3>4. v.class \in Nat
      BY <2>1
    <3> QED BY <2>2, <2>3, <3>3, <3>4
  <2>5. CASE v.class # Fixed
    <3>1. digits \in Seq(Byte) /\ Len(digits) = SizeDigits(v)
      BY <2>1, <2>5, DigitsAre
    <3> QED BY <2>1, <2>2, <2>3, <3>1
  <2> QED BY <2>4, <2>5
<1>2. head \in Seq(Byte) /\ Len(head) = 1 /\ head[1] = <<v.class, s, 0>>
  BY <1>1 DEF Byte
<1> DEFINE front == head \o digits
<1>3. t = front \o payload
  <2>1. CASE v.class = Fixed
    <3>1. head \o <<>> = head
      BY <1>2
    <3> QED BY <2>1, <3>1 DEF Tdu, ComposeTdu, Fixed
  <2>2. CASE v.class # Fixed
    BY <2>2 DEF Tdu, ComposeTdu, FramedHeader, SizeDigits
  <2> QED BY <2>1, <2>2
<1> HIDE DEF head, digits, payload, t, s
<1>4. SizeDigits(v) \in Nat
  BY Values
<1>5. /\ front \in Seq(Byte) /\ Len(front) = Len(head) + Len(digits)
      /\ \A i \in 1..Len(head) : front[i] = head[i]
      /\ \A i \in 1..Len(digits) : front[Len(head) + i] = digits[i]
  <2>1. head \in Seq(Byte) /\ digits \in Seq(Byte)
    BY <1>1, <1>2
  <2> QED BY <2>1, ConcatOf
<1>6. /\ front \in Seq(Byte) /\ Len(front) = 1 + SizeDigits(v)
      /\ front[1] = head[1]
      /\ \A i \in 1..SizeDigits(v) : front[1 + i] = digits[i]
  BY <1>1, <1>2, <1>4, <1>5
<1> HIDE DEF front
<1>7. /\ t \in Seq(Byte) /\ Len(t) = Len(front) + Len(payload)
      /\ \A i \in 1..Len(front) : t[i] = front[i]
  <2>1. front \in Seq(Byte) /\ payload \in Seq(Byte) /\ t = front \o payload
    BY <1>1, <1>3, <1>6
  <2> QED BY <2>1, ConcatOf
<1>8. /\ t \in Seq(Byte) /\ Len(t) = 1 + SizeDigits(v) + v.length
      /\ \A i \in 1..(1 + SizeDigits(v)) : t[i] = front[i]
  BY <1>1, <1>6, <1>7
<1>9. t[1] = <<v.class, s, 0>>
  BY <1>2, <1>6, <1>4, <1>8
<1>10. ASSUME NEW i \in 1..SizeDigits(v)
      PROVE  t[1 + i] = Digits(v.length, SizeDigits(v))[i]
  <2>0. 1 + i \in 1..(1 + SizeDigits(v))
    BY <1>4
  <2>1. t[1 + i] = digits[i]
    BY <1>6, <1>8, <2>0
  <2>2. v.class # Fixed
    BY DEF SizeDigits
  <2> QED BY <2>1, <2>2 DEF digits
<1>11. t[1][1] = v.class /\ t[1][2] = s
  BY <1>9
<1> QED BY <1>8, <1>10, <1>11 DEF t, s

-----------------------------------------------------------------------------
(* What parsing finds, when the bytes at hand begin what was composed.     *)

Begins(data, f) ==
    /\ data \in Seq(Byte) /\ data # <<>>
    /\ \A i \in 1..Len(data) : i <= Len(f) => data[i] = f[i]

(* The whole of f, or what it lacks, or a refusal.                         *)
Finds(r, data, f) ==
    /\ r.kind \in {"parsed", "missing", "refused"}
    /\ r.kind = "parsed" => r.n = Len(f) /\ Len(f) <= Len(data)
    /\ r.kind = "missing" => r.n \in Nat /\ r.n > 0 /\ Len(data) + r.n <= Len(f)

(* PlainTdu.parse finds the value whose bytes it reads, or what is missing *)
(* of it.                                                                  *)
LEMMA ParseTduOn ==
    ASSUME NEW v \in Value, NEW mark \in Nat, NEW data, Begins(data, Tdu(v, mark))
    PROVE  Finds(ParseTdu(data), data, Tdu(v, mark))
<1> DEFINE t == Tdu(v, mark)
           size == SizeDigits(v)
           rest == Len(data) - 1
           declared == IF data[1][1] = Fixed
                       THEN IF data[1][2] = 0 THEN 0 ELSE 2^(data[1][2] - 1)
                       ELSE Number(SubSeq(data, 2, 1 + size))
<1>1. /\ v.class \in {Fixed, Dynamic} /\ v.length \in Nat /\ size \in 0..7
      /\ v.class = Fixed => v.length \in FixedLengths /\ size = 0
      /\ v.class = Dynamic => Fits(v.length, 7) /\ size = LengthSize(v.length)
  BY Values DEF SizeDigits, Fixed, Dynamic
<1>2. /\ Len(t) = 1 + size + v.length /\ t[1][1] = v.class
      /\ t[1][2] = IF v.class = Fixed THEN Exponent(v.length) ELSE size
      /\ \A i \in 1..size : t[1 + i] = Digits(v.length, size)[i]
  BY TduIs
<1> HIDE DEF t, size
<1>3. Len(data) \in Nat /\ Len(data) > 0 /\ rest \in Nat
  BY DEF Begins
<1>4. data[1] = t[1]
  BY <1>1, <1>2, <1>3 DEF Begins, t
<1>5. NotEnough(rest, size) = 0 => declared = v.length
  <2>1. CASE v.class = Fixed
    BY <1>1, <1>2, <1>4, <2>1, Exponents
  <2>2. CASE v.class # Fixed /\ size <= rest
    <3> DEFINE digits == SubSeq(data, 2, 1 + size)
    <3>1. digits = [i \in 1..size |-> data[1 + i]] /\ Len(digits) = size
      BY <1>1, <1>3, <2>2 DEF Begins
    <3>2. \A i \in 1..size : digits[i] = Digits(v.length, size)[i]
      <4> SUFFICES ASSUME NEW i \in 1..size PROVE digits[i] = Digits(v.length, size)[i]
        OBVIOUS
      <4>1. 1 + i \in 1..Len(data) /\ 1 + i <= Len(t)
        BY <1>1, <1>2, <1>3, <2>2
      <4>2. digits[i] = data[1 + i]
        BY <3>1
      <4> QED BY <1>2, <4>1, <4>2 DEF Begins, t
    <3>3. Fits(v.length, size)
      BY <1>1, <2>2, LengthSizes
    <3> HIDE DEF digits
    <3>4. Number(digits) = v.length
      BY <1>1, <3>1, <3>2, <3>3, NumberOfDigits
    <3> QED BY <1>2, <1>4, <2>2, <3>4 DEF digits
  <2>3. CASE size > rest
    BY <1>1, <1>3, <2>3 DEF NotEnough
  <2> QED BY <1>1, <1>3, <2>1, <2>2, <2>3
<1>6. ParseTdu(data) =
         IF NotEnough(rest, size) > 0 THEN Missing(NotEnough(rest, size))
         ELSE IF data[1][1] # Fixed /\ MaximumPayload > 0 /\ declared > MaximumPayload THEN Refused
         ELSE IF NotEnough(rest - size, declared) > 0 THEN Missing(NotEnough(rest - size, declared))
         ELSE Parsed(1 + size + declared)
  <2>1. size = IF data[1][1] = Fixed THEN 0 ELSE data[1][2]
    BY <1>1, <1>2, <1>4
  <2> QED BY <2>1 DEF ParseTdu
<1> HIDE DEF declared
<1>7. CASE size > rest
  <2>1. ParseTdu(data) = Missing(size - rest)
    BY <1>1, <1>3, <1>6, <1>7 DEF NotEnough
  <2> QED BY <1>1, <1>2, <1>3, <1>7, <2>1 DEF Finds, Missing, t
<1>8. CASE size <= rest
  <2>1. declared = v.length /\ ~(NotEnough(rest, size) > 0)
    BY <1>1, <1>3, <1>5, <1>8 DEF NotEnough
  <2>2. \/ ParseTdu(data) = Refused
        \/ rest - size < v.length /\ ParseTdu(data) = Missing(v.length - (rest - size))
        \/ rest - size >= v.length /\ ParseTdu(data) = Parsed(1 + size + v.length)
    <3>1. \/ ParseTdu(data) = Refused
          \/ /\ NotEnough(rest - size, v.length) > 0
             /\ ParseTdu(data) = Missing(NotEnough(rest - size, v.length))
          \/ /\ ~(NotEnough(rest - size, v.length) > 0)
             /\ ParseTdu(data) = Parsed(1 + size + v.length)
      BY <1>6, <2>1
    <3>2. rest - size \in Nat /\ v.length \in Nat
      BY <1>1, <1>3, <1>8
    <3> QED BY <3>1, <3>2 DEF NotEnough
  <2> QED BY <1>1, <1>2, <1>3, <1>8, <2>2 DEF Finds, Missing, Refused, Parsed, t
<1> QED BY <1>1, <1>3, <1>7, <1>8

IdOf(p, isAuth) == IF HasId(p.method, isAuth) THEN IdSize ELSE 0

(* What the peer can send as a packet.                                     *)
LEMMA Packets ==
    ASSUME NEW p \in Packet
    PROVE  /\ p.method \in Nat
           /\ p.values = <<>> => Len(p.values) = 0
           /\ p.values # <<>> => p.values[1] \in Value /\ Len(p.values) = 1
<1>1. PICK m \in Methods, w \in {<<>>} \cup {<<x>> : x \in Value} : p = [method |-> m, values |-> w]
  BY DEF Packet
<1>2. m \in 0..3
  BY FramingAssumption
<1>3. CASE w = <<>>
  BY <1>1, <1>2, <1>3
<1>4. CASE w # <<>>
  <2>1. PICK x \in Value : w = <<x>>
    BY <1>4
  <2> QED BY <1>1, <1>2, <2>1
<1> QED BY <1>3, <1>4

(* A packet is its header, its id if it is a call or an answer, and its    *)
(* value.                                                                  *)
LEMMA PacketIs ==
    ASSUME NEW p \in Packet, NEW mark \in Nat, NEW isAuth
    PROVE  LET f == ComposePacket(p, mark, isAuth)
               t == Tdu(p.values[1], mark)
               id == IdOf(p, isAuth)
           IN  /\ f \in Seq(Byte) /\ id \in {0, IdSize}
               /\ f[1][1] = p.method /\ f[1][2] = Len(p.values)
               /\ p.values = <<>> => Len(f) = 1 + id
               /\ p.values # <<>> => /\ Len(f) = 1 + id + Len(t)
                                     /\ \A i \in 1..Len(t) : f[1 + id + i] = t[i]
<1> DEFINE f == ComposePacket(p, mark, isAuth)
           t == Tdu(p.values[1], mark)
           id == IdOf(p, isAuth)
           head == <<<<p.method, Len(p.values), mark>>>>
           ids == IF HasId(p.method, isAuth) THEN Reverse(Digits(mark, IdSize)) ELSE <<>>
           tdu == IF p.values = <<>> THEN <<>> ELSE t
           front == head \o ids
<1>1. head \in Seq(Byte) /\ Len(head) = 1 /\ head[1] = <<p.method, Len(p.values), mark>>
  <2>1. p.method \in Nat /\ Len(p.values) \in Nat
    BY Packets
  <2> QED BY <2>1 DEF Byte
<1>2. ids \in Seq(Byte) /\ Len(ids) = id /\ id \in {0, IdSize}
  <2>1. CASE HasId(p.method, isAuth)
    <3> DEFINE d == Digits(mark, IdSize)
    <3>1. d \in Seq(Byte) /\ Len(d) = IdSize /\ IdSize \in Nat
      BY DigitsAre DEF IdSize
    <3>2. ids = Reverse(d) /\ id = IdSize
      BY <2>1 DEF IdOf
    <3> HIDE DEF d
    <3>3. Reverse(d) = [i \in 1..IdSize |-> d[(IdSize - i) + 1]]
      BY <3>1 DEF Reverse
    <3>4. \A i \in 1..IdSize : d[(IdSize - i) + 1] \in Byte
      BY <3>1
    <3> QED BY <3>1, <3>2, <3>3, <3>4
  <2>2. CASE ~HasId(p.method, isAuth)
    BY <2>2 DEF IdOf
  <2> QED BY <2>1, <2>2
<1>3. /\ tdu \in Seq(Byte)
      /\ p.values = <<>> => Len(tdu) = 0
      /\ p.values # <<>> => tdu = t
  <2>1. CASE p.values = <<>>
    BY <2>1
  <2>2. CASE p.values # <<>>
    BY <2>2, Packets, TduIs
  <2> QED BY <2>1, <2>2
<1>4. f = front \o tdu
  BY DEF ComposePacket, Tdu
<1> HIDE DEF f, head, ids, tdu, t, id
<1>5. /\ front \in Seq(Byte) /\ Len(front) = Len(head) + Len(ids)
      /\ \A i \in 1..Len(head) : front[i] = head[i]
  <2>1. head \in Seq(Byte) /\ ids \in Seq(Byte)
    BY <1>1, <1>2
  <2> QED BY <2>1, ConcatOf
<1> HIDE DEF front
<1>6. id \in Nat
  BY <1>2 DEF IdSize
<1>7. front \in Seq(Byte) /\ Len(front) = 1 + id /\ front[1] = head[1]
  BY <1>1, <1>2, <1>5
<1>8. /\ f \in Seq(Byte) /\ Len(f) = Len(front) + Len(tdu)
      /\ \A i \in 1..Len(front) : f[i] = front[i]
      /\ \A i \in 1..Len(tdu) : f[Len(front) + i] = tdu[i]
  <2>1. front \in Seq(Byte) /\ tdu \in Seq(Byte)
    BY <1>3, <1>7
  <2> QED BY <1>4, <2>1, ConcatOf
<1>9. f[1] = <<p.method, Len(p.values), mark>>
  BY <1>1, <1>6, <1>7, <1>8
<1>10. f[1][1] = p.method /\ f[1][2] = Len(p.values)
  BY <1>9
<1>11. p.values = <<>> => Len(f) = 1 + id
  BY <1>3, <1>6, <1>7, <1>8
<1>12. p.values # <<>> => Len(f) = 1 + id + Len(t) /\ \A i \in 1..Len(t) : f[1 + id + i] = t[i]
  BY <1>3, <1>6, <1>7, <1>8
<1> QED BY <1>2, <1>8, <1>10, <1>11, <1>12 DEF f, t, id

(* The parsers of packets find the packet they read, or what is missing of *)
(* it.                                                                     *)
LEMMA ParsePacketOn ==
    ASSUME NEW p \in Packet, NEW mark \in Nat, NEW isAuth, NEW data,
           Begins(data, ComposePacket(p, mark, isAuth))
    PROVE  Finds(ParsePacket(data, isAuth), data, ComposePacket(p, mark, isAuth))
<1> DEFINE f == ComposePacket(p, mark, isAuth)
           v == p.values[1]
           t == Tdu(v, mark)
           id == IdOf(p, isAuth)
           rest == Len(data) - 1
           inner == SubSeq(data, 2 + id, Len(data))
           tdu == ParseTdu(inner)
<1>1. /\ f \in Seq(Byte) /\ id \in Nat
      /\ f[1][1] = p.method /\ f[1][2] = Len(p.values)
      /\ p.values = <<>> => Len(f) = 1 + id
      /\ p.values # <<>> => /\ Len(f) = 1 + id + Len(t)
                            /\ \A i \in 1..Len(t) : f[1 + id + i] = t[i]
  <2>1. /\ f \in Seq(Byte) /\ id \in {0, IdSize}
        /\ f[1][1] = p.method /\ f[1][2] = Len(p.values)
        /\ p.values = <<>> => Len(f) = 1 + id
        /\ p.values # <<>> => /\ Len(f) = 1 + id + Len(t)
                              /\ \A i \in 1..Len(t) : f[1 + id + i] = t[i]
    BY PacketIs
  <2> HIDE DEF f, t, id
  <2>2. id \in Nat
    BY <2>1 DEF IdSize
  <2> QED BY <2>1, <2>2
<1>2. /\ p.values = <<>> => Len(p.values) = 0
      /\ p.values # <<>> => Len(p.values) = 1 /\ v \in Value
  BY Packets
<1>3. p.values # <<>> => Len(t) \in Nat /\ Len(t) > 0
  <2>1. p.values # <<>> => Len(t) = 1 + SizeDigits(v) + v.length /\ SizeDigits(v) \in Nat /\ v.length \in Nat
    BY <1>2, TduIs, Values
  <2> QED BY <2>1
<1> HIDE DEF t, f, v
<1>4. data \in Seq(Byte) /\ Len(data) \in Nat /\ Len(data) > 0 /\ rest \in Nat
  BY DEF Begins
<1>5. data[1] = f[1]
  BY <1>1, <1>2, <1>3, <1>4 DEF Begins, f
<1>6. id = IF HasId(data[1][1], isAuth) THEN IdSize ELSE 0
  BY <1>1, <1>5 DEF IdOf
<1>7. ParsePacket(data, isAuth) =
         IF NotEnough(rest, id) > 0 THEN Missing(NotEnough(rest, id))
         ELSE IF data[1][2] = 0 THEN Parsed(1 + id)
         ELSE IF NotEnough(rest - id, 1) > 0 THEN Missing(NotEnough(rest - id, 1))
         ELSE IF tdu.kind = "parsed" THEN Parsed(1 + id + tdu.n)
         ELSE tdu
  BY <1>6 DEF ParsePacket
<1>8. p.values # <<>> /\ rest > id => Finds(tdu, inner, t) /\ Len(inner) = rest - id
  <2> SUFFICES ASSUME p.values # <<>>, rest > id
               PROVE  Finds(tdu, inner, t) /\ Len(inner) = rest - id
    OBVIOUS
  <2>1. /\ inner \in Seq(Byte) /\ Len(inner) = rest - id
        /\ \A i \in 1..Len(inner) : inner[i] = data[1 + id + i]
    <3> DEFINE from == 2 + id
               S == SubSeq(data, from, Len(data))
    <3>1. from \in 1..Len(data)
      BY <1>1, <1>4
    <3> HIDE DEF from
    <3>2. /\ S \in Seq(Byte) /\ Len(S) = Len(data) - from + 1
          /\ \A i \in 1..Len(S) : S[i] = data[from + i - 1]
      BY <1>4, <3>1
    <3>3. Len(data) - from + 1 = rest - id /\ \A i \in Nat : from + i - 1 = 1 + id + i
      <4> DEFINE x == Len(data)
      <4>1. x \in Nat /\ id \in Nat
        BY <1>1, <1>4
      <4> HIDE DEF x, id
      <4>2. x - (2 + id) + 1 = (x - 1) - id /\ \A i \in Nat : (2 + id) + i - 1 = 1 + id + i
        BY <4>1
      <4> QED BY <4>2 DEF x, from
    <3>4. inner = S
      BY DEF from
    <3> HIDE DEF S, inner, rest
    <3>5. \A i \in 1..Len(S) : S[i] = data[1 + id + i]
      BY <3>2, <3>3
    <3> QED BY <3>2, <3>3, <3>4, <3>5
  <2> HIDE DEF inner
  <2>2. inner # <<>>
    BY <1>1, <1>4, <2>1
  <2>3. ASSUME NEW i \in 1..Len(inner), i <= Len(t)
        PROVE  inner[i] = t[i]
    <3>1. 1 + id + i \in 1..Len(data) /\ 1 + id + i <= Len(f) /\ i \in 1..Len(t)
      <4>1. /\ id \in Nat /\ rest \in Nat /\ Len(data) = rest + 1
            /\ Len(inner) = rest - id /\ Len(f) = 1 + id + Len(t) /\ Len(t) \in Nat
        BY <1>1, <1>3, <1>4, <2>1
      <4>2. i \in Nat /\ 1 <= i /\ i <= Len(inner) /\ i <= Len(t)
        BY <2>3, <4>1
      <4> HIDE DEF id, rest
      <4> QED BY <4>1, <4>2
    <3>2. data[1 + id + i] = f[1 + id + i]
      BY <3>1 DEF Begins, f
    <3> QED BY <1>1, <2>1, <3>1, <3>2
  <2>4. Begins(inner, t)
    BY <2>1, <2>2, <2>3 DEF Begins
  <2> QED BY <1>2, <2>1, <2>4, ParseTduOn DEF t
<1> HIDE DEF tdu, inner, id
<1>9. CASE rest < id
  <2>1. ParsePacket(data, isAuth) = Missing(id - rest)
    BY <1>1, <1>4, <1>7, <1>9 DEF NotEnough
  <2>2. 1 + id <= Len(f)
    BY <1>1, <1>3
  <2> QED BY <1>1, <1>4, <1>9, <2>1, <2>2 DEF Finds, Missing, f
<1>10. CASE rest >= id /\ p.values = <<>>
  <2>1. ParsePacket(data, isAuth) = Parsed(1 + id)
    BY <1>1, <1>2, <1>4, <1>5, <1>7, <1>10 DEF NotEnough
  <2> QED BY <1>1, <1>4, <1>10, <2>1 DEF Finds, Parsed, f
<1>11. CASE rest = id /\ p.values # <<>>
  <2>1. ParsePacket(data, isAuth) = Missing(1)
    BY <1>1, <1>2, <1>4, <1>5, <1>7, <1>11 DEF NotEnough
  <2> QED BY <1>1, <1>3, <1>4, <1>11, <2>1 DEF Finds, Missing, f
<1>12. CASE rest > id /\ p.values # <<>>
  <2>1. Finds(tdu, inner, t) /\ Len(inner) = rest - id
    BY <1>8, <1>12
  <2>2. ParsePacket(data, isAuth) = IF tdu.kind = "parsed" THEN Parsed(1 + id + tdu.n) ELSE tdu
    BY <1>1, <1>2, <1>4, <1>5, <1>7, <1>12 DEF NotEnough
  <2>3. /\ Len(f) = 1 + id + Len(t) /\ Len(data) = 1 + id + Len(inner)
        /\ id \in Nat /\ Len(t) \in Nat /\ Len(inner) \in Nat
    <3>1. Len(f) = 1 + id + Len(t) /\ id \in Nat /\ Len(t) \in Nat
      BY <1>1, <1>3, <1>12
    <3> DEFINE x == Len(data)
               y == Len(inner)
    <3>2. x \in Nat /\ (x - 1) - id = y /\ x - 1 > id /\ id \in Nat
      BY <1>4, <1>12, <2>1, <3>1
    <3> HIDE DEF x, y
    <3>3. x = 1 + id + y /\ y \in Nat
      BY <3>2
    <3> QED BY <3>1, <3>3 DEF x, y
  <2> DEFINE x == Len(f)
             y == Len(t)
             z == Len(data)
             u == Len(inner)
  <2>4. x = 1 + id + y /\ z = 1 + id + u /\ id \in Nat /\ y \in Nat /\ u \in Nat
    BY <2>3
  <2>5. CASE tdu.kind = "parsed"
    <3>1. tdu.n = y /\ y <= u
      BY <2>1, <2>5 DEF Finds
    <3>2. ParsePacket(data, isAuth) = Parsed(1 + id + tdu.n)
      BY <2>2, <2>5
    <3> HIDE DEF x, y, z, u
    <3>3. 1 + id + tdu.n = x /\ x <= z
      BY <2>4, <3>1
    <3> QED BY <3>2, <3>3 DEF Finds, Parsed, x, z, f
  <2>6. CASE tdu.kind = "missing"
    <3>1. tdu.n \in Nat /\ tdu.n > 0 /\ u + tdu.n <= y
      BY <2>1, <2>6 DEF Finds
    <3>2. ParsePacket(data, isAuth) = tdu
      BY <2>2, <2>6
    <3> HIDE DEF x, y, z, u
    <3>3. z + tdu.n <= x
      BY <2>4, <3>1
    <3> QED BY <2>6, <3>1, <3>2, <3>3 DEF Finds, x, z, f
  <2>7. CASE tdu.kind = "refused"
    BY <2>2, <2>7 DEF Finds
  <2> QED BY <2>1, <2>5, <2>6, <2>7 DEF Finds
<1> QED BY <1>1, <1>4, <1>9, <1>10, <1>11, <1>12

(* The length of a packet is one the header of a record has room for.      *)
LEMMA PacketFits ==
    ASSUME NEW p \in Packet, NEW mark \in Nat, NEW isAuth
    PROVE  LET f == ComposePacket(p, mark, isAuth) IN
           /\ f \in Seq(Byte) /\ Len(f) > 0 /\ Fits(Len(f) + Overhead, HeaderSize)
<1> DEFINE f == ComposePacket(p, mark, isAuth)
           t == Tdu(p.values[1], mark)
           id == IdOf(p, isAuth)
           length == IF p.values = <<>> THEN 0 ELSE p.values[1].length
<1>1. /\ f \in Seq(Byte) /\ id \in {0, IdSize}
      /\ p.values = <<>> => Len(f) = 1 + id
      /\ p.values # <<>> => Len(f) = 1 + id + Len(t)
  BY PacketIs
<1>2. p.values # <<>> => /\ length \in FixedLengths \cup Lengths /\ length \in Nat
                         /\ Len(t) \in (1 + length)..(1 + 7 + length)
  <2> SUFFICES ASSUME p.values # <<>>
               PROVE  /\ length \in FixedLengths \cup Lengths /\ length \in Nat
                      /\ Len(t) \in (1 + length)..(1 + 7 + length)
    OBVIOUS
  <2>1. p.values[1] \in Value /\ length = p.values[1].length
    BY Packets
  <2>2. /\ length \in Nat /\ length \in FixedLengths \cup Lengths /\ SizeDigits(p.values[1]) \in 0..7
    BY <2>1, Values
  <2>3. Len(t) = 1 + SizeDigits(p.values[1]) + length
    BY <2>1, TduIs
  <2> HIDE DEF t, length
  <2> QED BY <2>2, <2>3
<1> HIDE DEF f, t, id
<1>3. /\ length \in {0} \cup FixedLengths \cup Lengths /\ length \in Nat
      /\ Len(f) \in 1..LargestPacket(length)
  <2>1. CASE p.values = <<>>
    <3>1. length = 0
      BY <2>1
    <3> HIDE DEF length
    <3>2. LargestPacket(length) = 13 /\ Len(f) \in {1, 5}
      BY <1>1, <2>1, <3>1 DEF LargestPacket, IdSize
    <3>3. Len(f) \in 1..LargestPacket(length)
      BY <3>2
    <3> QED BY <3>1, <3>3
  <2>2. CASE p.values # <<>>
    <3>1. length \in Nat /\ length \in FixedLengths \cup Lengths
      BY <1>2, <2>2
    <3> HIDE DEF length
    <3>2. Len(f) \in 1..LargestPacket(length)
      BY <1>1, <1>2, <2>2, <3>1 DEF LargestPacket, IdSize
    <3> QED BY <3>1, <3>2
  <2> QED BY <2>1, <2>2
<1> HIDE DEF length
<1>4. Fits(Len(f) + Overhead, HeaderSize)
  BY <1>3, FramingAssumption
<1> QED BY <1>1, <1>3, <1>4 DEF f

(* A record is its length, then what it protects, which opening it gives   *)
(* back.                                                                   *)
LEMMA RecordIs ==
    ASSUME NEW b \in Seq(Byte)
    PROVE  LET f == Record(b) IN
           /\ f \in Seq(Byte) /\ Len(f) = HeaderSize + Len(b) + Overhead
           /\ \A i \in 1..HeaderSize : f[i] = Digits(Len(b) + Overhead, HeaderSize)[i]
           /\ Plaintext(f) = b
<1> DEFINE head == Digits(Len(b) + Overhead, HeaderSize)
           pad == [i \in 1..Overhead |-> Digit(0)]
           front == head \o b
           f == Record(b)
<1>1. HeaderSize = 4 /\ Overhead \in Nat /\ Len(b) \in Nat
  BY FramingAssumption DEF HeaderSize
<1>2. head \in Seq(Byte) /\ Len(head) = HeaderSize
  <2> DEFINE n == Len(b) + Overhead
  <2>1. n \in Nat /\ HeaderSize \in 0..7
    BY <1>1
  <2> HIDE DEF n
  <2>2. Digits(n, HeaderSize) \in Seq(Byte) /\ Len(Digits(n, HeaderSize)) = HeaderSize
    BY <2>1, DigitsAre
  <2> QED BY <2>2 DEF n
<1>3. pad \in Seq(Byte) /\ Len(pad) = Overhead
  <2>1. Digit(0) \in Byte
    BY DEF Digit, Byte
  <2> QED BY <1>1, <2>1
<1>4. f = front \o pad
  BY DEF Record
<1> HIDE DEF head, pad, f
<1>5. /\ front \in Seq(Byte) /\ Len(front) = Len(head) + Len(b)
      /\ \A i \in 1..Len(head) : front[i] = head[i]
      /\ \A i \in 1..Len(b) : front[Len(head) + i] = b[i]
  <2>1. head \in Seq(Byte) /\ b \in Seq(Byte)
    BY <1>2
  <2> QED BY <2>1, ConcatOf
<1> HIDE DEF front
<1>6. /\ f \in Seq(Byte) /\ Len(f) = Len(front) + Len(pad)
      /\ \A i \in 1..Len(front) : f[i] = front[i]
  <2>1. front \in Seq(Byte) /\ pad \in Seq(Byte)
    BY <1>3, <1>5
  <2> QED BY <1>4, <2>1, ConcatOf
<1>7. Len(f) = HeaderSize + Len(b) + Overhead
  BY <1>1, <1>2, <1>3, <1>5, <1>6
<1>8. \A i \in 1..HeaderSize : f[i] = head[i]
  BY <1>1, <1>2, <1>5, <1>6
<1>9. \A i \in 1..Len(b) : f[HeaderSize + i] = b[i]
  BY <1>1, <1>2, <1>5, <1>6
<1>10. Plaintext(f) = b
  <2>1. Plaintext(f) = SubSeq(f, HeaderSize + 1, HeaderSize + Len(b))
    BY <1>1, <1>7 DEF Plaintext
  <2>2. /\ SubSeq(f, HeaderSize + 1, HeaderSize + Len(b)) \in Seq(Byte)
        /\ Len(SubSeq(f, HeaderSize + 1, HeaderSize + Len(b))) = Len(b)
        /\ \A i \in 1..Len(b) : SubSeq(f, HeaderSize + 1, HeaderSize + Len(b))[i] = f[HeaderSize + i]
    BY <1>1, <1>6, <1>7
  <2>3. Plaintext(f) \in Seq(Byte) /\ Len(Plaintext(f)) = Len(b)
        /\ \A i \in 1..Len(b) : b[i] = Plaintext(f)[i]
    BY <1>9, <2>1, <2>2
  <2> QED BY <2>3, SeqEqual
<1> QED BY <1>6, <1>7, <1>8, <1>10 DEF f, head

(* The loop of dataReceived finds the record it reads, or what is missing  *)
(* of it.                                                                  *)
LEMMA ParseRecordOn ==
    ASSUME NEW b \in Seq(Byte), Fits(Len(b) + Overhead, HeaderSize),
           NEW data, Begins(data, Record(b))
    PROVE  Finds(ParseRecord(data), data, Record(b))
<1> DEFINE f == Record(b)
           n == Len(b) + Overhead
           digits == SubSeq(data, 1, HeaderSize)
<1>1. /\ HeaderSize = 4 /\ Overhead \in Nat /\ n \in Nat
  BY FramingAssumption DEF HeaderSize
<1>2. Len(f) = HeaderSize + n /\ \A i \in 1..HeaderSize : f[i] = Digits(n, HeaderSize)[i]
  BY <1>1, RecordIs
<1> HIDE DEF f, n
<1>3. data \in Seq(Byte) /\ Len(data) \in Nat
  BY DEF Begins
<1>4. Len(data) >= HeaderSize => Number(digits) = n
  <2> SUFFICES ASSUME Len(data) >= HeaderSize PROVE Number(digits) = n
    OBVIOUS
  <2>1. Len(digits) = HeaderSize /\ \A i \in 1..HeaderSize : digits[i] = data[i]
    BY <1>1, <1>3
  <2>2. \A i \in 1..HeaderSize : digits[i] = Digits(n, HeaderSize)[i]
    BY <1>1, <1>2, <1>3, <2>1 DEF Begins, f
  <2>3. HeaderSize \in 0..7 /\ Fits(n, HeaderSize)
    BY <1>1 DEF n
  <2> HIDE DEF digits
  <2> QED BY <1>1, <2>1, <2>2, <2>3, NumberOfDigits
<1>5. CASE Len(data) < HeaderSize
  <2>1. ParseRecord(data) = Missing(HeaderSize - Len(data))
    BY <1>5 DEF ParseRecord
  <2> QED BY <1>1, <1>2, <1>3, <1>5, <2>1 DEF Finds, Missing, f
<1>6. CASE Len(data) >= HeaderSize
  <2>1. \/ ParseRecord(data) = Refused
        \/ Len(data) < HeaderSize + n /\ ParseRecord(data) = Missing(HeaderSize + n - Len(data))
        \/ Len(data) >= HeaderSize + n /\ ParseRecord(data) = Parsed(HeaderSize + n)
    BY <1>1, <1>3, <1>4, <1>6 DEF ParseRecord
  <2> QED BY <1>1, <1>2, <1>3, <1>6, <2>1 DEF Finds, Missing, Refused, Parsed, f
<1> QED BY <1>1, <1>3, <1>5, <1>6

-----------------------------------------------------------------------------
(* The stream.                                                             *)

Whole(s) ==
    /\ s.sealed \in BOOLEAN /\ s.auth \in Nat
    /\ Len(s.frames) \in Nat
    /\ s.packets \in Seq(Seq(Byte)) /\ Len(s.packets) = Len(s.frames)
    /\ s.frames \in Seq(Seq(Byte))
    /\ \A i \in 1..Len(s.frames) :
          /\ \E p \in Packet : s.packets[i] = ComposePacket(p, i, i <= s.auth)
          /\ Len(s.frames[i]) > 0
          /\ s.frames[i] = IF s.sealed THEN Record(s.packets[i]) ELSE s.packets[i]

(* ... whose packets and frames are bytes.                                 *)
LEMMA FramesOf ==
    ASSUME Whole(stream)
    PROVE  /\ stream.packets \in Seq(Seq(Byte)) /\ Len(stream.packets) = Len(stream.frames)
           /\ stream.frames \in Seq(Seq(Byte)) /\ Len(stream.frames) \in Nat
           /\ \A i \in 1..Len(stream.frames) :
                 stream.frames[i] \in Seq(Byte) /\ Len(stream.frames[i]) \in Nat
<1>1. /\ stream.packets \in Seq(Seq(Byte)) /\ Len(stream.packets) = Len(stream.frames)
      /\ stream.frames \in Seq(Seq(Byte)) /\ Len(stream.frames) \in Nat
  BY DEF Whole
<1>2. \A i \in 1..Len(stream.frames) : stream.frames[i] \in Seq(Byte)
  BY <1>1, ElementOfSeq
<1>3. \A x \in Seq(Byte) : Len(x) \in Nat
  OBVIOUS
<1> QED BY <1>1, <1>2, <1>3

(* Every stream the peer can send is of that form.                         *)
LEMMA StreamIsWhole ==
    ASSUME NEW s \in ByteStream
    PROVE  Whole(s)
<1>1. PICK sealed \in BOOLEAN, auth \in Nat, p \in SeqOf(Packet, MaxPacket) : s = Compose(sealed, auth, p)
  <2>1. MaxPacket \in Nat /\ \A a \in 0..MaxPacket : a \in Nat
    BY FramingAssumption
  <2> QED BY <2>1 DEF ByteStream
<1>2. PICK m \in Nat : p \in [1..m -> Packet]
  BY FramingAssumption DEF SeqOf
<1> DEFINE bytes == [i \in DOMAIN p |-> ComposePacket(p[i], i, i <= auth)]
           frames == IF sealed THEN [i \in DOMAIN bytes |-> Record(bytes[i])] ELSE bytes
<1>3. s.sealed = sealed /\ s.auth = auth /\ s.packets = bytes /\ s.frames = frames
  BY <1>1 DEF Compose
<1>4. \A i \in 1..m : /\ p[i] \in Packet /\ i \in Nat
                      /\ bytes[i] = ComposePacket(p[i], i, i <= auth)
                      /\ bytes[i] \in Seq(Byte) /\ Len(bytes[i]) > 0
  BY <1>2, PacketFits
<1>5. bytes \in [1..m -> Seq(Byte)]
  BY <1>2, <1>4
<1> HIDE DEF bytes
<1>6. \A i \in 1..m : /\ frames[i] = IF sealed THEN Record(bytes[i]) ELSE bytes[i]
                      /\ frames[i] \in Seq(Byte) /\ Len(frames[i]) > 0
  <2> SUFFICES ASSUME NEW i \in 1..m
               PROVE  /\ frames[i] = IF sealed THEN Record(bytes[i]) ELSE bytes[i]
                      /\ frames[i] \in Seq(Byte) /\ Len(frames[i]) > 0
    OBVIOUS
  <2>1. frames[i] = IF sealed THEN Record(bytes[i]) ELSE bytes[i]
    BY <1>5
  <2>2. /\ Record(bytes[i]) \in Seq(Byte)
        /\ Len(Record(bytes[i])) = HeaderSize + Len(bytes[i]) + Overhead
    BY <1>4, RecordIs
  <2>3. Len(Record(bytes[i])) > 0
    BY <1>4, <2>2, FramingAssumption DEF HeaderSize
  <2> QED BY <1>4, <2>1, <2>2, <2>3
<1>7. frames \in [1..m -> Seq(Byte)]
  BY <1>5, <1>6
<1> HIDE DEF frames
<1>8. /\ bytes \in Seq(Seq(Byte)) /\ Len(bytes) = m /\ frames \in Seq(Seq(Byte)) /\ Len(frames) = m
  BY <1>2, <1>5, <1>7
<1> QED BY <1>3, <1>4, <1>6, <1>8 DEF Whole

(* Bytes adds one packet after the other.                                  *)
LEMMA BytesAre ==
    ASSUME Whole(stream)
    PROVE  /\ Bytes \in [0..Len(stream.frames) -> Seq(Byte)] /\ Bytes[0] = <<>>
           /\ \A k \in 1..Len(stream.frames) : Bytes[k] = Bytes[k-1] \o stream.frames[k]
<1> DEFINE m == Len(stream.frames)
           step == [k \in 1..m |-> [x \in Seq(Byte) |-> x \o stream.frames[k]]]
           Is(b) == b = [k \in 0..m |-> IF k = 0 THEN <<>> ELSE b[k-1] \o stream.frames[k]]
<1>1. m \in Nat /\ \A k \in 1..m : stream.frames[k] \in Seq(Byte)
  BY DEF Whole
<1>2. \A x \in Seq(Byte), k \in 1..m :
         step[k][x] = x \o stream.frames[k] /\ step[k][x] \in Seq(Byte)
  BY <1>1, ConcatProperties
<1>3. PICK h \in [0..m -> Seq(Byte)] : h[0] = <<>> /\ \A k \in 1..m : h[k] = step[k][h[k-1]]
  <2>1. StaysIn(m, Seq(Byte), step)
    BY <1>2 DEF StaysIn
  <2>2. Iterates(m, Seq(Byte), <<>>, step)
    <3>1. <<>> \in Seq(Byte)
      OBVIOUS
    <3> HIDE DEF step
    <3> QED BY <1>1, <2>1, <3>1, Iterated
  <2> QED BY <2>2 DEF Iterates
<1>4. \A k \in 1..m : h[k] = h[k-1] \o stream.frames[k]
  <2> SUFFICES ASSUME NEW k \in 1..m PROVE h[k] = h[k-1] \o stream.frames[k]
    OBVIOUS
  <2>1. h[k-1] \in Seq(Byte)
    BY <1>1, <1>3
  <2> HIDE DEF step
  <2> QED BY <1>2, <1>3, <2>1
<1>5. Is(h)
  BY <1>3, <1>4
<1>6. Bytes = CHOOSE b : Is(b)
  BY DEF Bytes
<1>7. Is(Bytes)
  <2> HIDE DEF Is
  <2> QED BY <1>5, <1>6
<1> DEFINE b == Bytes
<1> HIDE DEF b
<1>8. b[0] = <<>> /\ \A k \in 1..m : b[k] = b[k-1] \o stream.frames[k]
  <2>1. \A k \in 0..m : b[k] = IF k = 0 THEN <<>> ELSE b[k-1] \o stream.frames[k]
    BY <1>7 DEF b
  <2>2. 0 \in 0..m /\ \A k \in 1..m : k \in 0..m /\ k # 0
    BY <1>1
  <2> QED BY <2>1, <2>2
<1>9. \A k \in 0..m : b[k] \in Seq(Byte)
  <2> DEFINE T == {k \in 0..m : b[k] \in Seq(Byte)}
  <2>1. 0 \in T
    BY <1>1, <1>8
  <2>2. ASSUME NEW k \in 1..m, k - 1 \in T PROVE k \in T
    <3>1. b[k-1] \in Seq(Byte) /\ stream.frames[k] \in Seq(Byte)
      BY <1>1, <2>2
    <3>2. b[k] \in Seq(Byte)
      BY <1>8, <3>1, ConcatProperties
    <3> QED BY <3>2
  <2>3. \A k \in 0..m : k \in T
    <3> HIDE DEF T
    <3> QED BY <1>1, <2>1, <2>2, Induction
  <2> QED BY <2>3
<1>10. b = [k \in 0..m |-> b[k]]
  BY <1>7 DEF b
<1> QED BY <1>8, <1>9, <1>10 DEF b

(* The bytes of the first packets begin those of all of them.              *)
LEMMA BytesBegin ==
    ASSUME Whole(stream), NEW k \in 0..Len(stream.frames)
    PROVE  /\ Bytes[k] \in Seq(Byte) /\ Written \in Seq(Byte)
           /\ Len(Bytes[k]) <= Len(Written)
           /\ \A i \in 1..Len(Bytes[k]) : Written[i] = Bytes[k][i]
<1> DEFINE m == Len(stream.frames)
           Begun(j) == /\ Len(Bytes[k]) <= Len(Bytes[j])
                       /\ \A i \in 1..Len(Bytes[k]) : Bytes[j][i] = Bytes[k][i]
           T == {j \in 0..m : k <= j => Begun(j)}
<1>1. m \in Nat /\ \A j \in 1..m : stream.frames[j] \in Seq(Byte)
  BY DEF Whole
<1>2. /\ \A j \in 0..m : Bytes[j] \in Seq(Byte)
      /\ \A j \in 1..m : Bytes[j] = Bytes[j-1] \o stream.frames[j]
  BY BytesAre
<1>3. Begun(k)
  BY <1>1, <1>2
<1>4. 0 \in T
  <2>1. k <= 0 => k = 0
    BY <1>1
  <2> HIDE DEF Begun
  <2> QED BY <1>1, <1>3, <2>1
<1>5. ASSUME NEW j \in 1..m, j - 1 \in T
      PROVE  j \in T
  <2>1. CASE j <= k
    <3>1. k <= j => k = j
      BY <1>1, <2>1
    <3> HIDE DEF Begun
    <3> QED BY <1>1, <1>3, <3>1
  <2>2. CASE k < j
    <3>1. Begun(j - 1)
      BY <1>1, <1>5, <2>2
    <3>2. /\ Bytes[j-1] \in Seq(Byte) /\ stream.frames[j] \in Seq(Byte) /\ Bytes[k] \in Seq(Byte)
          /\ Bytes[j] = Bytes[j-1] \o stream.frames[j]
      <4>1. j - 1 \in 0..m /\ k \in 0..m
        BY <1>1
      <4> QED BY <1>1, <1>2, <4>1
    <3>3. /\ Len(Bytes[j]) = Len(Bytes[j-1]) + Len(stream.frames[j])
          /\ \A i \in 1..Len(Bytes[j-1]) : Bytes[j][i] = Bytes[j-1][i]
      <4> DEFINE p == Bytes[j-1]
                 q == stream.frames[j]
      <4>1. p \in Seq(Byte) /\ q \in Seq(Byte) /\ Bytes[j] = p \o q
        BY <3>2
      <4> HIDE DEF p, q
      <4>2. /\ Len(p \o q) = Len(p) + Len(q)
            /\ \A i \in 1..Len(p) : (p \o q)[i] = p[i]
        BY <4>1, ConcatOf
      <4> QED BY <4>1, <4>2 DEF p, q
    <3>4. Begun(j)
      <4>0. Len(Bytes[k]) \in Nat /\ Len(Bytes[j-1]) \in Nat /\ Len(stream.frames[j]) \in Nat
        BY <3>2, LenProperties
      <4>1. Len(Bytes[k]) <= Len(Bytes[j])
        <5>1. Len(Bytes[k]) <= Len(Bytes[j-1])
          BY <3>1
        <5>2. Len(Bytes[j]) = Len(Bytes[j-1]) + Len(stream.frames[j])
          BY <3>3
        <5> DEFINE x == Len(Bytes[k])
                   y == Len(Bytes[j-1])
                   z == Len(stream.frames[j])
        <5>3. x \in Nat /\ y \in Nat /\ z \in Nat /\ x <= y /\ Len(Bytes[j]) = y + z
          BY <4>0, <5>1, <5>2
        <5> HIDE DEF x, y, z
        <5>4. x <= y + z
          BY <5>3
        <5> QED BY <5>3, <5>4 DEF x
      <4>2. ASSUME NEW i \in 1..Len(Bytes[k]) PROVE Bytes[j][i] = Bytes[k][i]
        <5>1. i \in 1..Len(Bytes[j-1])
          BY <3>1, <3>2
        <5> QED BY <3>1, <3>3, <5>1
      <4> QED BY <4>1, <4>2
    <3> HIDE DEF Begun
    <3> QED BY <3>4
  <2> QED BY <1>1, <2>1, <2>2
<1>6. Begun(m)
  <2>1. m \in T
    <3> HIDE DEF T
    <3>1. \A j \in 0..m : j \in T
      BY <1>1, <1>4, <1>5, Induction
    <3> QED BY <1>1, <3>1
  <2> HIDE DEF Begun
  <2> QED BY <1>1, <2>1
<1> QED BY <1>1, <1>2, <1>6 DEF Written

-----------------------------------------------------------------------------
(* The invariant.  The bytes read are aligned with what was sent while the *)
(* connection is open; and in plaintext as long as the drain runs, for     *)
(* there a refusal ends the drain too.                                     *)

Aligned == open \/ (receiving /\ ~stream.sealed)

(* What is at hand continues what was dispatched, and the buffer does not  *)
(* wait for more than the next packet.                                     *)
Continues ==
    /\ Bytes[Len(dispatched)] \o msg \o buffer = SubSeq(Written, 1, arrived)
    /\ needed \in Nat /\ (msg # <<>> => needed = 0)
    /\ Len(dispatched) < Len(stream.frames) => needed <= Len(stream.frames[Len(dispatched) + 1])

FramingInv ==
    /\ Whole(stream)
    /\ arrived \in 0..Len(Written) /\ msg \in Seq(Byte) /\ buffer \in Seq(Byte)
    /\ receiving \in BOOLEAN /\ open \in BOOLEAN
    /\ Len(dispatched) \in 0..Len(stream.frames)
    /\ dispatched = SubSeq(stream.packets, 1, Len(dispatched))
    /\ Aligned => Continues
    /\ ~receiving => msg = <<>>
    /\ open /\ ~receiving => ~Readable(buffer)

(* The stream does not change.                                             *)
LEMMA SameStream ==
    ASSUME stream' = stream
    PROVE  Bytes' = Bytes /\ Written' = Written /\ (Whole(stream)' <=> Whole(stream))
  BY DEF Bytes, Written, Whole

(* What has been read and not yet parsed begins the next packet.           *)
LEMMA AtHand ==
    ASSUME FramingInv, Continues
    PROVE  LET k == Len(dispatched)
               n == Len(stream.frames)
           IN  /\ k \in Nat /\ n \in Nat /\ k <= n
               /\ Len(Bytes[k]) \in Nat
               /\ Len(Bytes[k]) + (Len(msg) + Len(buffer)) = arrived
               /\ k < n => /\ k + 1 \in 1..n
                           /\ stream.frames[k+1] \in Seq(Byte) /\ Len(stream.frames[k+1]) > 0
                           /\ Len(Bytes[k+1]) = Len(Bytes[k]) + Len(stream.frames[k+1])
               /\ msg # <<>> => k < n /\ Begins(msg, stream.frames[k+1])
<1> DEFINE k == Len(dispatched)
           n == Len(stream.frames)
           b == Bytes[k]
           frame == stream.frames[k+1]
           whole == b \o msg \o buffer
<1>1. /\ k \in Nat /\ n \in Nat /\ k <= n /\ k \in 0..n
      /\ b \in Seq(Byte) /\ Written \in Seq(Byte) /\ Len(b) <= Len(Written)
      /\ msg \in Seq(Byte) /\ buffer \in Seq(Byte)
      /\ arrived \in 0..Len(Written) /\ whole = SubSeq(Written, 1, arrived)
  <2>1. Whole(stream) /\ n \in Nat /\ k \in 0..n
    BY DEF FramingInv, Whole
  <2>2. b \in Seq(Byte) /\ Written \in Seq(Byte) /\ Len(b) <= Len(Written)
    BY <2>1, BytesBegin
  <2> QED BY <2>1, <2>2 DEF FramingInv, Continues
<1>2. /\ Len(whole) = Len(b) + Len(msg) + Len(buffer)
      /\ \A i \in 1..Len(msg) : whole[Len(b) + i] = msg[i]
  <2> DEFINE front == b \o msg
  <2> HIDE DEF b, front
  <2>1. /\ front \in Seq(Byte) /\ Len(front) = Len(b) + Len(msg)
        /\ \A i \in 1..Len(msg) : front[Len(b) + i] = msg[i]
    BY <1>1, ConcatOf DEF front
  <2>2. /\ Len(front \o buffer) = Len(front) + Len(buffer)
        /\ \A i \in 1..Len(front) : (front \o buffer)[i] = front[i]
    BY <1>1, <2>1, ConcatOf
  <2>3. Len(b) \in Nat /\ Len(msg) \in Nat /\ Len(buffer) \in Nat
    BY <1>1
  <2>4. ASSUME NEW i \in 1..Len(msg) PROVE (front \o buffer)[Len(b) + i] = msg[i]
    <3>1. Len(b) + i \in 1..Len(front)
      BY <2>1, <2>3
    <3> QED BY <2>1, <2>2, <3>1
  <2> QED BY <2>1, <2>2, <2>4 DEF front
<1>3. Len(whole) = arrived /\ \A i \in 1..arrived : whole[i] = Written[i]
  BY <1>1
<1>4. k < n => /\ k + 1 \in 1..n /\ k + 1 \in 0..n /\ Whole(stream)
               /\ frame \in Seq(Byte) /\ Len(frame) > 0
               /\ Bytes[k+1] = b \o frame
  <2> SUFFICES ASSUME k < n
               PROVE  /\ k + 1 \in 1..n /\ k + 1 \in 0..n /\ Whole(stream)
                      /\ frame \in Seq(Byte) /\ Len(frame) > 0
                      /\ Bytes[k+1] = b \o frame
    OBVIOUS
  <2>1. k + 1 \in 1..n /\ k + 1 \in 0..n /\ (k + 1) - 1 = k /\ Whole(stream)
    BY <1>1 DEF FramingInv
  <2>2. Bytes[k+1] = Bytes[(k+1)-1] \o frame
    BY <2>1, BytesAre
  <2> QED BY <2>1, <2>2 DEF Whole
<1> HIDE DEF whole
<1>5. Len(b) + (Len(msg) + Len(buffer)) = arrived
  <2>1. Len(b) \in Nat /\ Len(msg) \in Nat /\ Len(buffer) \in Nat
    BY <1>1
  <2> HIDE DEF b
  <2> QED BY <1>2, <1>3, <2>1
<1>6. k < n => Len(Bytes[k+1]) = Len(b) + Len(frame)
  <2> SUFFICES ASSUME k < n PROVE Len(Bytes[k+1]) = Len(b) + Len(frame)
    OBVIOUS
  <2>1. b \in Seq(Byte) /\ frame \in Seq(Byte) /\ Bytes[k+1] = b \o frame
    BY <1>1, <1>4
  <2> HIDE DEF b, frame
  <2>2. Len(b \o frame) = Len(b) + Len(frame)
    BY <2>1, ConcatOf
  <2> QED BY <2>1, <2>2
<1>7. ASSUME msg # <<>> PROVE k < n /\ Begins(msg, frame)
  <2>1. Len(msg) > 0 /\ Len(b) \in Nat /\ Len(msg) \in Nat /\ Len(buffer) \in Nat
    BY <1>1, <1>7
  <2>2. k < n
    <3> SUFFICES ASSUME k = n PROVE FALSE
      BY <1>1
    <3>1. Len(b) = Len(Written)
      BY DEF Written
    <3> HIDE DEF b
    <3> QED BY <1>1, <1>5, <2>1, <3>1
  <2>3. ASSUME NEW i \in 1..Len(msg), i <= Len(frame) PROVE msg[i] = frame[i]
    <3> DEFINE j == Len(b) + i
    <3>1. i \in 1..Len(frame) /\ j \in 1..arrived /\ j \in 1..Len(Bytes[k+1])
      <4>1. Len(frame) \in Nat /\ Len(Bytes[k+1]) = Len(b) + Len(frame)
        <5> HIDE DEF b, frame
        <5> QED BY <1>4, <1>6, <2>2
      <4> HIDE DEF b, frame
      <4> QED BY <1>5, <2>1, <2>3, <4>1
    <3>2. Written[j] = Bytes[k+1][j]
      BY <1>4, <2>2, <3>1, BytesBegin
    <3>3. (b \o frame)[j] = frame[i]
      <4> HIDE DEF b, frame
      <4> QED BY <1>1, <1>4, <2>2, <3>1, ConcatOf
    <3> HIDE DEF b, frame
    <3>4. whole[j] = msg[i] /\ whole[j] = Written[j]
      BY <1>2, <1>3, <3>1
    <3> QED BY <1>4, <2>2, <3>2, <3>3, <3>4
  <2> QED BY <1>1, <1>7, <2>2, <2>3 DEF Begins
<1>8. /\ k \in Nat /\ n \in Nat /\ k <= n /\ Len(b) \in Nat
  BY <1>1
<1>9. k < n => /\ k + 1 \in 1..n /\ frame \in Seq(Byte) /\ Len(frame) > 0
               /\ Len(Bytes[k+1]) = Len(b) + Len(frame)
  <2> HIDE DEF b, frame
  <2> QED BY <1>4, <1>6
<1>10. msg # <<>> => k < n /\ Begins(msg, frame)
  BY <1>7
<1> QED BY <1>5, <1>8, <1>9, <1>10

-----------------------------------------------------------------------------
(* Bytes put together in either order.                                     *)
LEMMA Reassociated ==
    ASSUME NEW s \in Seq(Byte), NEW t \in Seq(Byte), NEW u \in Seq(Byte)
    PROVE  (s \o t) \o u = s \o (t \o u)
  BY ConcatAssociative

(* A new connection has received nothing.                                  *)
LEMMA FramingInvInit ==
    FramingInit => FramingInv
<1> SUFFICES ASSUME FramingInit PROVE FramingInv
  OBVIOUS
<1>1. /\ arrived = 0 /\ buffer = <<>> /\ needed = 0 /\ msg = <<>>
      /\ receiving = FALSE /\ open = TRUE /\ dispatched = <<>>
  BY DEF FramingInit
<1>2. Whole(stream)
  BY StreamIsWhole DEF FramingInit
<1>3. Len(stream.frames) \in Nat /\ 0 \in 0..Len(stream.frames) /\ stream.packets \in Seq(Seq(Byte))
  BY <1>2 DEF Whole
<1>4. Written \in Seq(Byte) /\ Len(Written) \in Nat
  BY <1>2, <1>3, BytesBegin
<1>5. <<>> \in Seq(Byte) /\ Len(<<>>) = 0
  OBVIOUS
<1>6. SubSeq(stream.packets, 1, 0) = <<>> /\ SubSeq(Written, 1, 0) = <<>>
  BY SubSeqEmpty
<1>7. Bytes[0] = <<>>
  BY <1>2, BytesAre
<1>8. Continues
  <2>1. Bytes[0] \o <<>> \o <<>> = <<>>
    BY <1>5, <1>7, ConcatEmptySeq
  <2>2. 0 < Len(stream.frames) => 0 <= Len(stream.frames[0 + 1])
    <3> SUFFICES ASSUME 0 < Len(stream.frames) PROVE 0 <= Len(stream.frames[0 + 1])
      OBVIOUS
    <3>1. 0 + 1 \in 1..Len(stream.frames)
      BY <1>3
    <3>2. stream.frames[0 + 1] \in Seq(Byte)
      BY <1>2, <3>1 DEF Whole
    <3> QED BY <3>2
  <2> QED BY <1>1, <1>5, <1>6, <2>1, <2>2 DEF Continues
<1>9. arrived \in 0..Len(Written) /\ msg \in Seq(Byte) /\ buffer \in Seq(Byte)
  BY <1>1, <1>4, <1>5
<1>10. Len(dispatched) \in 0..Len(stream.frames)
  BY <1>1, <1>3, <1>5
<1>11. dispatched = SubSeq(stream.packets, 1, Len(dispatched))
  BY <1>1, <1>5, <1>6
<1>12. ~Readable(buffer)
  BY <1>1 DEF Readable
<1> QED BY <1>1, <1>2, <1>8, <1>9, <1>10, <1>11, <1>12 DEF FramingInv

(* A chunk arrives: what is at hand is one chunk longer.                   *)
LEMMA ArriveKeeps ==
    ASSUME FramingInv, NEW n \in 1..(Len(Written) - arrived), Arrive(n)
    PROVE  FramingInv'
<1> DEFINE chunk == SubSeq(Written, arrived + 1, arrived + n)
<1>1. /\ open \/ receiving
      /\ arrived + n <= Len(Written) /\ arrived' = arrived + n
      /\ buffer' = buffer \o chunk
      /\ receiving' = (receiving \/ (open /\ Readable(buffer')))
      /\ stream' = stream /\ needed' = needed /\ msg' = msg /\ open' = open /\ dispatched' = dispatched
  BY DEF Arrive, Write
<1>2. Bytes' = Bytes /\ Written' = Written /\ Whole(stream)' /\ Whole(stream)
  BY <1>1, SameStream DEF FramingInv
<1>3. /\ Written \in Seq(Byte) /\ Len(Written) \in Nat
      /\ arrived \in Nat /\ arrived <= Len(Written) /\ n \in Nat
      /\ msg \in Seq(Byte) /\ buffer \in Seq(Byte)
  <2>1. Len(stream.frames) \in Nat
    BY <1>2 DEF Whole
  <2>2. Len(stream.frames) \in 0..Len(stream.frames)
    BY <2>1
  <2>3. Written \in Seq(Byte)
    BY <1>2, <2>2, BytesBegin
  <2>4. Len(Written) \in Nat
    BY <2>3
  <2> QED BY <2>3, <2>4 DEF FramingInv
<1>4. chunk \in Seq(Byte) /\ SubSeq(Written, 1, arrived) \in Seq(Byte)
  <2>1. /\ arrived + 1 \in Int /\ arrived + n \in Int /\ 1 \in Int /\ arrived \in Int
        /\ \A i \in (arrived + 1)..(arrived + n) : i \in 1..Len(Written)
        /\ \A i \in 1..arrived : i \in 1..Len(Written)
    BY <1>1, <1>3
  <2>2. \A i \in 1..Len(Written) : Written[i] \in Byte
    BY <1>3, ElementOfSeq
  <2> QED BY <2>1, <2>2, SubSeqProperties
<1>5. SubSeq(Written, 1, arrived) \o chunk = SubSeq(Written, 1, arrived')
  <2>1. /\ 1 \in 1..(Len(Written) + 1) /\ arrived \in (1 - 1)..Len(Written)
        /\ arrived + n \in arrived..Len(Written)
    BY <1>1, <1>3
  <2> QED BY <1>1, <1>3, <2>1, ConcatAdjacentSubSeq
<1> HIDE DEF chunk
<1>6. buffer' \in Seq(Byte) /\ arrived' \in 0..Len(Written)
  <2>1. buffer \o chunk \in Seq(Byte)
    BY <1>3, <1>4, ConcatProperties
  <2> QED BY <1>1, <1>3, <2>1
<1>7. Continues => Continues'
  <2> SUFFICES ASSUME Continues PROVE Continues'
    OBVIOUS
  <2> DEFINE b == Bytes[Len(dispatched)]
  <2>1. b \in Seq(Byte)
    BY <1>2, BytesBegin DEF FramingInv
  <2> HIDE DEF b
  <2> DEFINE front == b \o msg
  <2>2. front \in Seq(Byte)
    BY <1>3, <2>1, ConcatProperties
  <2> HIDE DEF front
  <2>3. (front \o buffer) \o chunk = front \o (buffer \o chunk)
    <3>1. front \in Seq(Byte) /\ buffer \in Seq(Byte) /\ chunk \in Seq(Byte)
      BY <1>3, <1>4, <2>2
    <3> QED BY <3>1, Reassociated
  <2>4. front \o buffer = SubSeq(Written, 1, arrived)
    BY DEF Continues, b, front
  <2>5. front \o buffer' = SubSeq(Written, 1, arrived')
    BY <1>1, <1>5, <2>3, <2>4
  <2> QED BY <1>1, <1>2, <2>5 DEF Continues, b, front
<1>8. Aligned' => Aligned
  BY <1>1 DEF Aligned
<1>9. receiving' \in BOOLEAN /\ (~receiving' => ~receiving) /\ (open /\ ~receiving' => ~Readable(buffer'))
  BY <1>1 DEF FramingInv
<1> QED BY <1>1, <1>2, <1>3, <1>6, <1>7, <1>8, <1>9 DEF FramingInv, Readable

(* The types, by the invariant.                                            *)
LEMMA FramingTypes ==
    ASSUME FramingInv
    PROVE  /\ Whole(stream) /\ Len(stream.frames) \in Nat
           /\ Len(dispatched) \in Nat /\ Len(dispatched) <= Len(stream.frames)
           /\ Bytes[Len(dispatched)] \in Seq(Byte)
           /\ msg \in Seq(Byte) /\ buffer \in Seq(Byte)
<1>1. Whole(stream) /\ Len(stream.frames) \in Nat /\ Len(dispatched) \in 0..Len(stream.frames)
  BY DEF FramingInv, Whole
<1>2. Bytes[Len(dispatched)] \in Seq(Byte)
  BY <1>1, BytesBegin
<1> QED BY <1>1, <1>2 DEF FramingInv

(* The drain takes the buffer.                                             *)
LEMMA ReadKeeps ==
    ASSUME FramingInv, Read
    PROVE  FramingInv'
<1>1. /\ receiving /\ msg = <<>>
      /\ msg' = buffer /\ buffer' = <<>> /\ needed' = 0
      /\ stream' = stream /\ arrived' = arrived /\ receiving' = receiving /\ open' = open
      /\ dispatched' = dispatched
  BY DEF Read
<1>2. Bytes' = Bytes /\ Written' = Written /\ Whole(stream)'
  BY <1>1, SameStream DEF FramingInv
<1>3. /\ Bytes[Len(dispatched)] \in Seq(Byte) /\ buffer \in Seq(Byte) /\ <<>> \in Seq(Byte)
      /\ Len(stream.frames) \in Nat /\ Len(dispatched) \in Nat
  BY FramingTypes
<1>4. Continues => Continues'
  <2> SUFFICES ASSUME Continues PROVE Continues'
    OBVIOUS
  <2> DEFINE b == Bytes[Len(dispatched)]
  <2> HIDE DEF b
  <2>1. b \in Seq(Byte)
    BY <1>3 DEF b
  <2>2. b \o <<>> = b
    BY <2>1, ConcatEmptySeq
  <2>3. b \o buffer \in Seq(Byte)
    BY <1>3, <2>1, ConcatProperties
  <2>4. (b \o buffer) \o <<>> = b \o buffer
    BY <2>3, ConcatEmptySeq
  <2>5. b \o msg' \o buffer' = b \o msg \o buffer
    BY <1>1, <2>2, <2>4
  <2>6. needed' \in Nat /\ needed' <= needed
    BY <1>1 DEF Continues
  <2>7. Bytes'[Len(dispatched')] \o msg' \o buffer' = SubSeq(Written', 1, arrived')
    BY <1>1, <1>2, <2>5 DEF Continues, b
  <2>8. Len(dispatched) < Len(stream.frames) => 0 <= Len(stream.frames[Len(dispatched) + 1])
    <3> SUFFICES ASSUME Len(dispatched) < Len(stream.frames)
                 PROVE  0 <= Len(stream.frames[Len(dispatched) + 1])
      OBVIOUS
    <3> DEFINE j == Len(dispatched) + 1
    <3>1. j \in 1..Len(stream.frames) /\ Whole(stream)
      BY <1>3 DEF FramingInv
    <3> HIDE DEF j
    <3>2. Len(stream.frames[j]) \in Nat
      BY <3>1, FramesOf
    <3> QED BY <3>2 DEF j
  <2> QED BY <1>1, <2>6, <2>7, <2>8 DEF Continues
<1>5. Aligned' <=> Aligned
  BY <1>1 DEF Aligned
<1> QED BY <1>1, <1>2, <1>3, <1>4, <1>5 DEF FramingInv, Readable

(* The drain ends, for want of bytes.                                      *)
LEMMA DrainedKeeps ==
    ASSUME FramingInv, Drained
    PROVE  FramingInv'
<1>1. /\ msg = <<>> /\ ~Readable(buffer) /\ receiving' = FALSE
      /\ stream' = stream /\ arrived' = arrived /\ buffer' = buffer /\ needed' = needed
      /\ msg' = msg /\ open' = open /\ dispatched' = dispatched
  BY DEF Drained
<1>2. Bytes' = Bytes /\ Written' = Written /\ Whole(stream)'
  BY <1>1, SameStream DEF FramingInv
<1>3. Continues => Continues'
  BY <1>1, <1>2 DEF Continues
<1>4. Aligned' => Aligned
  BY <1>1 DEF Aligned
<1> QED BY <1>1, <1>2, <1>3, <1>4 DEF FramingInv, Readable

(* Closing the connection, whatever is being read; a step of no action.    *)
LEMMA CloseKeeps ==
    ASSUME FramingInv, CloseConnection
    PROVE  FramingInv'
<1>1. /\ open /\ open' = FALSE
      /\ stream' = stream /\ arrived' = arrived /\ buffer' = buffer /\ needed' = needed
      /\ msg' = msg /\ receiving' = receiving /\ dispatched' = dispatched
  BY DEF CloseConnection
<1>2. Bytes' = Bytes /\ Written' = Written /\ Whole(stream)'
  BY <1>1, SameStream DEF FramingInv
<1>3. Continues /\ Continues'
  BY <1>1, <1>2 DEF FramingInv, Aligned, Continues
<1> QED BY <1>1, <1>2, <1>3 DEF FramingInv

(* A step of no action.                                                    *)
LEMMA IdleKeeps ==
    ASSUME FramingInv, UNCHANGED framingVars
    PROVE  FramingInv'
<1>1. /\ stream' = stream /\ arrived' = arrived /\ buffer' = buffer /\ needed' = needed
      /\ msg' = msg /\ receiving' = receiving /\ open' = open /\ dispatched' = dispatched
  BY DEF framingVars
<1>2. Bytes' = Bytes /\ Written' = Written /\ Whole(stream)'
  BY <1>1, SameStream DEF FramingInv
<1>3. (Continues' <=> Continues) /\ (Aligned' <=> Aligned)
  BY <1>1, <1>2 DEF Aligned, Continues
<1> QED BY <1>1, <1>2, <1>3 DEF FramingInv, Readable

(* A tail is pushed back for bytes of the packet it begins.                *)
LEMMA HoldForKeeps ==
    ASSUME FramingInv, receiving, NEW k, HoldFor(k),
           Aligned => /\ Len(dispatched) < Len(stream.frames)
                      /\ k \in Nat
                      /\ Len(msg) + k <= Len(stream.frames[Len(dispatched) + 1])
    PROVE  FramingInv'
<1>1. /\ buffer' = msg \o buffer /\ needed' = Len(msg) + k /\ msg' = <<>>
      /\ stream' = stream /\ arrived' = arrived /\ receiving' = receiving /\ open' = open
      /\ dispatched' = dispatched
  BY DEF HoldFor
<1>2. Bytes' = Bytes /\ Written' = Written /\ Whole(stream)'
  BY <1>1, SameStream DEF FramingInv
<1>3. /\ Bytes[Len(dispatched)] \in Seq(Byte) /\ msg \in Seq(Byte) /\ buffer \in Seq(Byte)
      /\ <<>> \in Seq(Byte)
  BY FramingTypes
<1>4. buffer' \in Seq(Byte)
  BY <1>1, <1>3, ConcatProperties
<1>5. Aligned /\ Continues => Continues'
  <2> SUFFICES ASSUME Aligned, Continues PROVE Continues'
    OBVIOUS
  <2> DEFINE b == Bytes[Len(dispatched)]
  <2> HIDE DEF b
  <2>1. b \in Seq(Byte) /\ msg \in Seq(Byte) /\ buffer \in Seq(Byte)
    BY <1>3 DEF b
  <2>2. b \o <<>> = b
    BY <2>1, ConcatEmptySeq
  <2>3. (b \o msg) \o buffer = b \o (msg \o buffer)
    BY <2>1, Reassociated
  <2>4. b \o msg' \o buffer' = b \o msg \o buffer
    BY <1>1, <2>2, <2>3
  <2>5. Bytes'[Len(dispatched')] \o msg' \o buffer' = SubSeq(Written', 1, arrived')
    BY <1>1, <1>2, <2>4 DEF Continues, b
  <2>6. needed' \in Nat /\ needed' <= Len(stream.frames[Len(dispatched) + 1])
    BY <1>1, <1>3
  <2> QED BY <1>1, <2>5, <2>6 DEF Continues
<1>6. Aligned' <=> Aligned
  BY <1>1 DEF Aligned
<1> QED BY <1>1, <1>2, <1>3, <1>4, <1>5, <1>6 DEF FramingInv

(* The connection is closed by what it receives.                           *)
LEMMA RefuseKeeps ==
    ASSUME FramingInv, Refuse \/ (stream.sealed /\ RefuseRecord)
    PROVE  FramingInv'
<1>1. /\ open' = FALSE /\ msg' = <<>>
      /\ receiving' \in BOOLEAN /\ (receiving' => stream.sealed)
      /\ stream' = stream /\ arrived' = arrived /\ buffer' = buffer /\ needed' = needed
      /\ dispatched' = dispatched
  BY DEF Refuse, RefuseRecord, FramingInv
<1>2. Bytes' = Bytes /\ Written' = Written /\ Whole(stream)'
  BY <1>1, SameStream DEF FramingInv
<1>3. ~Aligned'
  BY <1>1 DEF Aligned
<1>4. <<>> \in Seq(Byte)
  OBVIOUS
<1> QED BY <1>1, <1>2, <1>3, <1>4 DEF FramingInv

(* The next packet is dispatched, and what it spans is taken off.          *)
LEMMA DispatchKeeps ==
    ASSUME FramingInv, receiving, msg # <<>>, Len(dispatched) < Len(stream.frames),
           NEW size \in Nat, Dispatch(stream.packets[Len(dispatched) + 1], size),
           Aligned => size = Len(stream.frames[Len(dispatched) + 1]) /\ size <= Len(msg)
    PROVE  FramingInv'
<1> DEFINE k == Len(dispatched)
           n == Len(stream.frames)
           packet == stream.packets[k+1]
           frame == stream.frames[k+1]
           b == Bytes[k]
           tail == SubSeq(msg, size + 1, Len(msg))
<1>1. /\ dispatched' = Append(dispatched, packet) /\ msg' = tail
      /\ stream' = stream /\ arrived' = arrived /\ buffer' = buffer /\ needed' = needed
      /\ receiving' = receiving /\ open' = open
  BY DEF Dispatch
<1>2. Bytes' = Bytes /\ Written' = Written /\ Whole(stream)'
  BY <1>1, SameStream DEF FramingInv
<1>3. /\ Whole(stream) /\ n \in Nat /\ k \in Nat /\ k < n /\ k + 1 \in 1..n
      /\ b \in Seq(Byte) /\ msg \in Seq(Byte) /\ buffer \in Seq(Byte)
  BY FramingTypes
<1>4. /\ stream.packets \in Seq(Seq(Byte)) /\ Len(stream.packets) = n
      /\ packet \in Seq(Byte) /\ frame \in Seq(Byte)
  <2>1. stream.packets \in Seq(Seq(Byte)) /\ Len(stream.packets) = n /\ frame \in Seq(Byte)
    BY <1>3, FramesOf
  <2> QED BY <1>3, <2>1, ElementOfSeq
<1>5. dispatched' = SubSeq(stream.packets, 1, k + 1) /\ Len(dispatched') = k + 1
  <2> DEFINE s == stream.packets
  <2> HIDE DEF s, packet
  <2>1. dispatched = SubSeq(s, 1, k)
    BY DEF FramingInv, s
  <2>2. /\ s \in Seq(Seq(Byte)) /\ Len(s) = n /\ packet = s[k+1] /\ packet \in Seq(Byte)
        /\ 1 \in 1..Len(s) /\ k + 1 \in 1..Len(s) /\ (k + 1) - 1 = k
        /\ \A i \in 1..k : i \in 1..Len(s)
    <3>1. s \in Seq(Seq(Byte)) /\ Len(s) = n /\ packet = s[k+1] /\ packet \in Seq(Byte)
      BY <1>4 DEF s, packet
    <3>2. k \in Nat /\ n \in Nat /\ k < n
      BY <1>3
    <3> HIDE DEF k, n
    <3>3. 1 \in 1..n /\ k + 1 \in 1..n /\ (k + 1) - 1 = k /\ \A i \in 1..k : i \in 1..n
      BY <3>2
    <3> QED BY <3>1, <3>3
  <2>3. dispatched \in Seq(Seq(Byte))
    <3>1. \A i \in 1..k : s[i] \in Seq(Byte)
      BY <2>2, ElementOfSeq
    <3>2. 1 \in Int /\ k \in Int
      BY <1>3
    <3>3. SubSeq(s, 1, k) \in Seq(Seq(Byte))
      BY <3>1, <3>2, SubSeqProperties
    <3> QED BY <2>1, <3>3
  <2>4. dispatched' = dispatched \o <<packet>>
    BY <1>1, <2>2, <2>3, AppendIsConcat
  <2>5. SubSeq(s, 1, k + 1) = SubSeq(s, 1, k) \o <<s[k+1]>>
    <3>1. k + 1 \in 1..Len(s)
      BY <2>2
    <3>2. SubSeq(s, 1, k + 1) = SubSeq(s, 1, (k + 1) - 1) \o <<s[k+1]>>
      BY <2>2, <3>1, SubSeqRecursiveSecond
    <3> QED BY <2>2, <3>2
  <2>6. Len(dispatched') = k + 1
    BY <1>1, <2>2, <2>3, AppendProperties
  <2> QED BY <2>1, <2>2, <2>4, <2>5, <2>6 DEF s
<1>6. msg' \in Seq(Byte)
  <2>1. /\ \A i \in (size + 1)..Len(msg) : i \in 1..Len(msg)
        /\ size + 1 \in Int /\ Len(msg) \in Int
    BY <1>3
  <2>2. \A i \in (size + 1)..Len(msg) : msg[i] \in Byte
    BY <1>3, <2>1, ElementOfSeq
  <2>3. tail \in Seq(Byte)
    BY <2>1, <2>2, SubSeqProperties
  <2> QED BY <1>1, <2>3
<1>7. Aligned /\ Continues => Continues'
  <2> SUFFICES ASSUME Aligned, Continues PROVE Continues'
    OBVIOUS
  <2>1. /\ Begins(msg, frame) /\ Len(frame) > 0
        /\ size = Len(frame) /\ size <= Len(msg) /\ size \in Nat /\ Len(msg) \in Nat
    <3>1. Begins(msg, frame) /\ frame \in Seq(Byte) /\ Len(frame) > 0
      BY <1>3, AtHand
    <3>2. size = Len(frame) /\ size <= Len(msg)
      OBVIOUS
    <3> HIDE DEF frame
    <3> QED BY <1>3, <3>1, <3>2
  <2>2. SubSeq(msg, 1, size) = frame
    <3>1. /\ SubSeq(msg, 1, size) \in Seq(Byte) /\ Len(SubSeq(msg, 1, size)) = size
          /\ \A i \in 1..size : SubSeq(msg, 1, size)[i] = msg[i]
      <4> HIDE DEF frame
      <4> QED BY <1>3, <2>1
    <3>2. \A i \in 1..size : msg[i] = frame[i]
      <4> HIDE DEF frame
      <4> QED BY <1>3, <2>1 DEF Begins
    <3> HIDE DEF frame
    <3> QED BY <1>4, <2>1, <3>1, <3>2, SeqEqual
  <2>3. frame \o tail = msg
    <3>1. /\ 1 \in 1..(Len(msg) + 1) /\ size \in (1 - 1)..Len(msg)
          /\ Len(msg) \in size..Len(msg)
      BY <2>1
    <3>2. SubSeq(msg, 1, size) \o SubSeq(msg, size + 1, Len(msg)) = SubSeq(msg, 1, Len(msg))
      BY <1>3, <3>1, ConcatAdjacentSubSeq
    <3>3. SubSeq(msg, 1, Len(msg)) = msg
      BY <1>3, SubSeqFull
    <3> QED BY <2>2, <3>2, <3>3
  <2>4. Bytes[k+1] = b \o frame
    <3>1. Bytes[k+1] = Bytes[(k+1)-1] \o frame
      BY <1>3, BytesAre
    <3>2. (k + 1) - 1 = k
      BY <1>3
    <3> QED BY <3>1, <3>2
  <2>5. Bytes[k+1] \o msg' \o buffer' = b \o msg \o buffer
    <3> HIDE DEF b, frame, tail
    <3>1. tail \in Seq(Byte)
      BY <1>1, <1>6
    <3>2. (b \o frame) \o tail = b \o (frame \o tail)
      <4>1. b \in Seq(Byte) /\ frame \in Seq(Byte) /\ tail \in Seq(Byte)
        BY <1>3, <1>4, <3>1
      <4> QED BY <4>1, Reassociated
    <3> QED BY <1>1, <2>3, <2>4, <3>2
  <2>6. Bytes'[Len(dispatched')] \o msg' \o buffer' = SubSeq(Written', 1, arrived')
    BY <1>1, <1>2, <1>5, <2>5 DEF Continues
  <2>7. needed' = 0
    BY <1>1 DEF Continues
  <2>8. k + 1 < n => 0 <= Len(stream.frames[(k + 1) + 1])
    <3> SUFFICES ASSUME k + 1 < n PROVE 0 <= Len(stream.frames[(k + 1) + 1])
      OBVIOUS
    <3> DEFINE j == (k + 1) + 1
    <3>1. j \in 1..n
      BY <1>3
    <3> HIDE DEF j
    <3>2. stream.frames[j] \in Seq(Byte)
      <4>1. stream.frames \in Seq(Seq(Byte))
        BY <1>3 DEF Whole
      <4> QED BY <1>3, <3>1, <4>1, ElementOfSeq
    <3> QED BY <3>2 DEF j
  <2> QED BY <1>1, <1>5, <2>6, <2>7, <2>8 DEF Continues
<1>8. Aligned' <=> Aligned
  BY <1>1 DEF Aligned
<1>9. /\ arrived' \in 0..Len(Written') /\ buffer' \in Seq(Byte)
      /\ receiving' \in BOOLEAN /\ open' \in BOOLEAN /\ receiving'
  BY <1>1, <1>2 DEF FramingInv
<1>10. /\ Len(dispatched') \in 0..Len(stream'.frames)
       /\ dispatched' = SubSeq(stream'.packets, 1, Len(dispatched'))
  BY <1>1, <1>3, <1>5
<1>11. Aligned' => Continues'
  BY <1>7, <1>8 DEF FramingInv
<1> QED BY <1>2, <1>6, <1>9, <1>10, <1>11 DEF FramingInv

(* What is to be dispatched next.                                          *)
LEMMA NextPacket ==
    ASSUME FramingInv, Len(dispatched) < Len(stream.frames)
    PROVE  LET k == Len(dispatched) + 1 IN
           /\ \E p \in Packet : stream.packets[k] = ComposePacket(p, k, ~Authenticated)
           /\ stream.packets[k] \in Seq(Byte) /\ Len(stream.packets[k]) > 0
           /\ Fits(Len(stream.packets[k]) + Overhead, HeaderSize)
           /\ stream.frames[k] = IF stream.sealed THEN Record(stream.packets[k]) ELSE stream.packets[k]
<1> DEFINE k == Len(dispatched) + 1
<1>1. k \in 1..Len(stream.frames) /\ k \in Nat /\ Len(dispatched) \in Nat /\ Whole(stream)
  BY FramingTypes
<1>2. stream.auth \in Nat
  BY <1>1 DEF Whole
<1>3. PICK p \in Packet : stream.packets[k] = ComposePacket(p, k, k <= stream.auth)
  BY <1>1 DEF Whole
<1>4. k <= stream.auth <=> ~Authenticated
  BY <1>1, <1>2 DEF Authenticated
<1>5. stream.packets[k] = ComposePacket(p, k, ~Authenticated)
  <2>1. CASE Authenticated
    <3>1. (k <= stream.auth) = FALSE /\ (~Authenticated) = FALSE
      BY <1>4, <2>1
    <3> QED BY <1>3, <3>1
  <2>2. CASE ~Authenticated
    <3>1. (k <= stream.auth) = TRUE /\ (~Authenticated) = TRUE
      BY <1>4, <2>2
    <3> QED BY <1>3, <3>1
  <2> QED BY <2>1, <2>2
<1>6. /\ stream.packets[k] \in Seq(Byte) /\ Len(stream.packets[k]) > 0
      /\ Fits(Len(stream.packets[k]) + Overhead, HeaderSize)
  <2> HIDE DEF k
  <2> QED BY <1>1, <1>3, PacketFits
<1>7. stream.frames[k] = IF stream.sealed THEN Record(stream.packets[k]) ELSE stream.packets[k]
  <2> HIDE DEF k
  <2> QED BY <1>1 DEF Whole
<1> QED BY <1>5, <1>6, <1>7

(* A turn of the loop of a plain transport.                                *)
LEMMA ParseNextKeeps ==
    ASSUME FramingInv, ParseNext
    PROVE  FramingInv'
<1> DEFINE k == Len(dispatched) + 1
           frame == stream.frames[k]
           auth == ~Authenticated
           next == ParsePacket(msg, auth)
<1>1. receiving /\ msg # <<>> /\ ~stream.sealed
  BY DEF ParseNext
<1>2. \/ next.kind = "missing" /\ HoldFor(next.n)
      \/ next.kind = "refused" /\ Refuse
      \/ next.kind = "parsed" /\ Dispatch(SubSeq(msg, 1, next.n), next.n)
  BY DEF ParseNext
<1>3. Aligned /\ Continues
  BY <1>1 DEF FramingInv, Aligned
<1>4. Len(dispatched) < Len(stream.frames) /\ Begins(msg, frame)
  BY <1>1, <1>3, AtHand
<1>5. PICK p \in Packet : /\ stream.packets[k] = ComposePacket(p, k, auth)
                          /\ frame = stream.packets[k]
  BY <1>1, <1>4, NextPacket
<1>6. k \in Nat /\ msg \in Seq(Byte)
  BY FramingTypes
<1>7. Finds(next, msg, frame)
  <2> HIDE DEF k, frame, auth
  <2>1. Begins(msg, ComposePacket(p, k, auth))
    BY <1>4, <1>5
  <2>2. Finds(next, msg, ComposePacket(p, k, auth))
    BY <1>6, <2>1, ParsePacketOn
  <2> QED BY <1>5, <2>2
<1> HIDE DEF next
<1>8. CASE next.kind = "missing" /\ HoldFor(next.n)
  <2>1. next.n \in Nat /\ Len(msg) + next.n <= Len(frame)
    BY <1>7, <1>8 DEF Finds
  <2> QED BY <1>1, <1>4, <1>8, <2>1, HoldForKeeps
<1>9. CASE next.kind = "refused" /\ Refuse
  BY <1>9, RefuseKeeps
<1>10. CASE next.kind = "parsed" /\ Dispatch(SubSeq(msg, 1, next.n), next.n)
  <2>1. next.n = Len(frame) /\ Len(frame) <= Len(msg)
    BY <1>7, <1>10 DEF Finds
  <2>2. frame \in Seq(Byte) /\ Len(frame) \in Nat
    BY <1>4, <1>5, NextPacket
  <2>3. SubSeq(msg, 1, next.n) = stream.packets[k]
    <3> DEFINE size == next.n
               front == SubSeq(msg, 1, size)
    <3> HIDE DEF frame, size
    <3>0. size = Len(frame) /\ size \in Nat /\ size <= Len(msg)
      BY <2>1, <2>2 DEF size
    <3>1. /\ front \in Seq(Byte) /\ Len(front) = size
          /\ \A i \in 1..size : front[i] = msg[i]
      BY <1>6, <3>0
    <3>2. \A i \in 1..size : msg[i] = frame[i]
      BY <1>4, <1>6, <3>0 DEF Begins
    <3> HIDE DEF front
    <3>3. front = frame
      BY <2>2, <3>0, <3>1, <3>2, SeqEqual
    <3> QED BY <1>5, <3>3 DEF front, size
  <2>4. next.n \in Nat /\ Dispatch(stream.packets[k], next.n)
    BY <1>10, <2>1, <2>2, <2>3
  <2> HIDE DEF frame
  <2> QED BY <1>1, <1>4, <2>1, <2>4, DispatchKeeps DEF frame
<1> QED BY <1>2, <1>8, <1>9, <1>10

(* A turn of the loop of an encrypted one.                                 *)
LEMMA ParseNextRecordKeeps ==
    ASSUME FramingInv, ParseNextRecord
    PROVE  FramingInv'
<1> DEFINE k == Len(dispatched) + 1
           frame == stream.frames[k]
           packet == stream.packets[k]
           auth == ~Authenticated
           next == ParseRecord(msg)
           record == SubSeq(msg, 1, next.n)
<1>1. receiving /\ msg # <<>> /\ stream.sealed
  BY DEF ParseNextRecord
<1>2. \/ next.kind = "missing" /\ HoldFor(next.n)
      \/ next.kind = "refused" /\ RefuseRecord
      \/ next.kind = "parsed" /\ Opens(record) /\ OpenRecord(record)
      \/ next.kind = "parsed" /\ ~Opens(record) /\ RefuseRecord
  BY DEF ParseNextRecord
<1>3. /\ Whole(stream) /\ k \in Nat /\ msg \in Seq(Byte)
      /\ Len(dispatched) \in Nat /\ Len(stream.frames) \in Nat
  BY FramingTypes
<1>4. Len(dispatched) < Len(stream.frames) =>
         /\ packet \in Seq(Byte) /\ Len(packet) > 0 /\ frame = Record(packet)
         /\ Fits(Len(packet) + Overhead, HeaderSize)
         /\ \E p \in Packet : packet = ComposePacket(p, k, auth)
  BY <1>1, NextPacket
<1>5. Aligned => /\ Len(dispatched) < Len(stream.frames)
                 /\ Finds(next, msg, frame)
  <2> SUFFICES ASSUME Aligned
               PROVE  Len(dispatched) < Len(stream.frames) /\ Finds(next, msg, frame)
    OBVIOUS
  <2>1. Len(dispatched) < Len(stream.frames) /\ Begins(msg, frame)
    BY <1>1, AtHand DEF FramingInv
  <2> HIDE DEF packet, frame
  <2>2. Finds(next, msg, Record(packet))
    BY <1>4, <2>1, ParseRecordOn
  <2> QED BY <1>4, <2>1, <2>2
<1> HIDE DEF next
<1>6. CASE next.kind = "missing" /\ HoldFor(next.n)
  <2>1. Aligned => next.n \in Nat /\ Len(msg) + next.n <= Len(frame)
    BY <1>5, <1>6 DEF Finds
  <2> QED BY <1>1, <1>5, <1>6, <2>1, HoldForKeeps
<1>7. CASE next.kind = "refused" /\ RefuseRecord
  BY <1>1, <1>7, RefuseKeeps
<1>8. CASE next.kind = "parsed" /\ ~Opens(record) /\ RefuseRecord
  BY <1>1, <1>8, RefuseKeeps
<1>9. CASE next.kind = "parsed" /\ Opens(record) /\ OpenRecord(record)
  <2>1. record = frame /\ Len(dispatched) < Len(stream.frames)
    <3>1. stream.frames \in Seq(Seq(Byte))
      BY <1>3 DEF Whole
    <3>2. DOMAIN stream.frames = 1..Len(stream.frames)
      BY <3>1
    <3>3. k \in 1..Len(stream.frames) /\ record = frame
      BY <1>9, <3>2 DEF Opens
    <3> QED BY <1>3, <3>3
  <2>2. PICK p \in Packet : packet = ComposePacket(p, k, auth)
    BY <1>4, <2>1
  <2>3. /\ packet \in Seq(Byte) /\ Len(packet) > 0 /\ packet # <<>>
        /\ Plaintext(record) = packet /\ Len(record) \in Nat
    <3>1. packet \in Seq(Byte) /\ Len(packet) > 0 /\ frame = Record(packet)
      BY <1>4, <2>1
    <3> HIDE DEF packet, frame, record
    <3>2. Plaintext(frame) = packet /\ frame \in Seq(Byte)
      BY <3>1, RecordIs
    <3> QED BY <2>1, <3>1, <3>2
  <2> DEFINE inner == ParsePacket(packet, auth)
  <2>4. Finds(inner, packet, packet)
    <3> HIDE DEF packet, auth, k
    <3>1. Begins(packet, ComposePacket(p, k, auth))
      BY <2>2, <2>3 DEF Begins
    <3> QED BY <1>3, <2>2, <3>1, ParsePacketOn
  <2>5. \/ inner.kind = "refused" /\ Refuse
        \/ inner.kind = "parsed" /\ Dispatch(SubSeq(packet, 1, inner.n), Len(record))
    <3> HIDE DEF packet, record
    <3> QED BY <1>9, <2>3 DEF OpenRecord
  <2> HIDE DEF inner
  <2>6. CASE inner.kind = "refused" /\ Refuse
    BY <2>6, RefuseKeeps
  <2>7. CASE inner.kind = "parsed" /\ Dispatch(SubSeq(packet, 1, inner.n), Len(record))
    <3>1. SubSeq(packet, 1, inner.n) = packet
      <4>1. inner.n = Len(packet)
        BY <2>4, <2>7 DEF Finds
      <4> HIDE DEF packet
      <4> QED BY <2>3, <4>1, SubSeqFull
    <3>2. Dispatch(packet, Len(record))
      BY <2>7, <3>1
    <3>3. Aligned => Len(record) = Len(frame) /\ Len(record) <= Len(msg)
      <4> HIDE DEF record, frame
      <4> QED BY <1>5, <1>9, <2>1 DEF Finds
    <3> HIDE DEF record
    <3> QED BY <1>1, <2>1, <2>3, <3>2, <3>3, DispatchKeeps
  <2> QED BY <2>5, <2>6, <2>7
<1> QED BY <1>2, <1>6, <1>7, <1>8, <1>9

(* The invariant holds of every stream, however it is cut into chunks,     *)
(* whatever arrives inside a handler and whenever the connection is closed *)
(* (NetworkConnection.networkReceive, EpConnection.dataReceived).          *)
THEOREM FramingInvariance ==
    FramingSpec => []FramingInv
<1>1. ASSUME FramingInv, [FramingNext]_framingVars
      PROVE  FramingInv'
  <2>1. ASSUME NEW n \in 1..(Len(Written) - arrived), Arrive(n) PROVE FramingInv'
    BY <1>1, <2>1, ArriveKeeps
  <2>2. CASE Read
    BY <1>1, <2>2, ReadKeeps
  <2>3. CASE Drained
    BY <1>1, <2>3, DrainedKeeps
  <2>4. CASE ParseNext
    BY <1>1, <2>4, ParseNextKeeps
  <2>5. CASE ParseNextRecord
    BY <1>1, <2>5, ParseNextRecordKeeps
  <2>6. CASE CloseConnection
    BY <1>1, <2>6, CloseKeeps
  <2>7. CASE UNCHANGED framingVars
    BY <1>1, <2>7, IdleKeeps
  <2> QED BY <1>1, <2>1, <2>2, <2>3, <2>4, <2>5, <2>6, <2>7 DEF FramingNext
<1> QED BY <1>1, FramingInvInit, PTL DEF FramingSpec

(* What the handlers are given is what the peer composed, whole, once and  *)
(* in order; and while the connection is open no byte is lost, duplicated  *)
(* or moved (NetworkBuffer.holdFor, EpConnection.dataReceived).            *)
THEOREM FramesIntactAlways ==
    FramingSpec => []FramesIntact
<1>1. FramingInv => FramesIntact
  <2> SUFFICES ASSUME FramingInv PROVE FramesIntact
    OBVIOUS
  <2> DEFINE k == Len(dispatched)
  <2>1. Whole(stream) /\ k \in Nat /\ k <= Len(stream.frames)
    BY FramingTypes
  <2>2. stream.packets \in Seq(Seq(Byte)) /\ Len(stream.packets) = Len(stream.frames)
    BY <2>1 DEF Whole
  <2>3. dispatched = SubSeq(stream.packets, 1, k)
    BY DEF FramingInv
  <2>4. dispatched \in Seq(Seq(Byte))
    <3>1. \A i \in 1..k : i \in 1..Len(stream.packets)
      BY <2>1, <2>2
    <3>2. \A i \in 1..k : stream.packets[i] \in Seq(Byte)
      BY <2>2, <3>1, ElementOfSeq
    <3>3. 1 \in Int /\ k \in Int
      BY <2>1
    <3>4. SubSeq(stream.packets, 1, k) \in Seq(Seq(Byte))
      <4> HIDE DEF k
      <4> QED BY <3>2, <3>3, SubSeqProperties
    <3> QED BY <2>3, <3>4
  <2>5. SubSeq(dispatched, 1, k) = dispatched
    BY <2>4, SubSeqFull
  <2>6. IsPrefix(dispatched, stream.packets)
    BY <2>1, <2>2, <2>3, <2>5 DEF IsPrefix
  <2>7. open => Continues
    BY DEF FramingInv, Aligned
  <2> QED BY <2>6, <2>7 DEF FramesIntact, Continues
<1> QED BY <1>1, FramingInvariance, PTL

(* When the drain has ended on an open connection the next packet is not   *)
(* complete: no packet waits for bytes it does not need (notEnough,        *)
(* PlainTdu.invalid, NetworkBuffer.protected_).                            *)
THEOREM NothingHeldBackAlways ==
    FramingSpec => []NothingHeldBack
<1>1. FramingInv => NothingHeldBack
  <2> SUFFICES ASSUME FramingInv, open, ~receiving, Len(dispatched) < Len(stream.frames)
               PROVE  arrived < Len(Bytes[Len(dispatched) + 1])
    BY DEF NothingHeldBack
  <2> DEFINE k == Len(dispatched)
             frame == stream.frames[k+1]
  <2>1. Continues /\ msg = <<>> /\ ~Readable(buffer)
    BY DEF FramingInv, Aligned
  <2>2. /\ Len(Bytes[k]) \in Nat /\ Len(Bytes[k]) + (Len(msg) + Len(buffer)) = arrived
        /\ frame \in Seq(Byte) /\ Len(frame) > 0
        /\ Len(Bytes[k+1]) = Len(Bytes[k]) + Len(frame)
    BY <2>1, AtHand
  <2>3. Len(msg) = 0 /\ buffer \in Seq(Byte)
    BY <2>1, FramingTypes
  <2>4. needed \in Nat /\ needed <= Len(frame)
    BY <2>1 DEF Continues
  <2>5. Len(buffer) \in Nat /\ Len(frame) \in Nat /\ Len(buffer) < Len(frame)
    <3> HIDE DEF frame
    <3>1. buffer = <<>> \/ Len(buffer) < needed
      BY <2>1, <2>3, <2>4 DEF Readable
    <3>2. buffer = <<>> => Len(buffer) = 0
      OBVIOUS
    <3> QED BY <2>2, <2>3, <2>4, <3>1, <3>2
  <2> DEFINE x == Len(Bytes[k])
             y == Len(buffer)
             z == Len(frame)
  <2>6. x \in Nat /\ y \in Nat /\ z \in Nat /\ y < z /\ x + (0 + y) = arrived /\ Len(Bytes[k+1]) = x + z
    BY <2>2, <2>3, <2>5
  <2> HIDE DEF x, y, z
  <2>7. arrived < x + z
    BY <2>6
  <2> QED BY <2>6, <2>7
<1> QED BY <1>1, FramingInvariance, PTL

-----------------------------------------------------------------------------
(* The lifecycle of a connection.                                          *)

USE ConnectionLifecycleAssumption

(* A socket that dials is the current one, and the attempt awaits it.      *)
DiallingIsAwaited ==
    \A s \in Socket : wire[s] = "dialling" => s = socket /\ Awaiting("dialling")

(* A socket still to be created has its number.                            *)
CreatingHasRoom ==
    attempt.at = "creating" => attempt.outcome = "ok" /\ opened < MaxSocket

(* Until its socket is open the reply of the handshake is pending, unless  *)
(* a stream request already counted a socket as closed.                    *)
DiallingIsPending ==
    (/\ attempt.at = "creating" \/ \E s \in Socket : wire[s] = "dialling"
     /\ "disconnect" \notin tooEarly) => readyReply = "pending"

OpenIsEstablished == \A s \in Socket : wire[s] = "open" => state[s] = "Established"

UnopenedIsUnused == \A s \in Socket : s > opened => wire[s] = "unused"

AttemptHasReply == attempt \in Attempt => readyReply # "none"

(* ClosedStaysClosed is not inductive: a current socket that still dialled *)
(* could open, and one still to be created could be dialled.               *)
ClosedIsInert ==
    manualClose =>
      /\ ~reconnectTimer
      /\ \/ "close" \in tooEarly
         \/ /\ attempt.at # "creating"
            /\ socket # 0 => state[socket] # "Established" /\ wire[socket] # "dialling"

(* AuthenticatedAtRest, with where the attempt is before authentication.   *)
HandshakeIsAwaited ==
    (/\ socket # 0 /\ state[socket] = "Established"
     /\ "disconnect" \notin tooEarly /\ ~authenticated)
      => /\ readyReply = "pending"
         /\ \/ attempt.at = "creating"
            \/ attempt.at = "dialling" /\ attempt.outcome = "ok"
            \/ Awaiting("handshake")

IInv == /\ TypeOK
        /\ CreatingHasRoom
        /\ DiallingIsAwaited /\ DiallingIsPending
        /\ OpenIsEstablished /\ UnopenedIsUnused
        /\ AttemptHasReply
        /\ ClosedIsInert
        /\ HandshakeIsAwaited

USE DEF Socket, Wire, socketVars, authVars, lifeVars, requestVars

-----------------------------------------------------------------------------
(* The initial states satisfy the invariant.                               *)
LEMMA InitIInv == Init => IInv
  <1> SUFFICES ASSUME Init PROVE IInv
    OBVIOUS
  <1>1. FlagsOK
    BY DEF Init, FlagsOK
  <1>2. TypeOK
    BY <1>1 DEF Init, TypeOK
  <1>3. DiallingIsAwaited /\ DiallingIsPending /\ OpenIsEstablished /\ UnopenedIsUnused
    BY DEF Init, DiallingIsAwaited, DiallingIsPending, OpenIsEstablished, UnopenedIsUnused,
           NoAttempt
  <1>4. AttemptHasReply
    BY DEF Init, AttemptHasReply, Attempt, NoAttempt
  <1>5. ClosedIsInert /\ HandshakeIsAwaited /\ CreatingHasRoom
    BY DEF Init, ClosedIsInert, HandshakeIsAwaited, CreatingHasRoom, NoAttempt
  <1> QED BY <1>2, <1>3, <1>4, <1>5 DEF IInv

(* Settling what an attempt awaits keeps its type.                         *)
LEMMA SettlesType ==
  ASSUME attempt \in Attempt, NEW outcome \in {"ok", "failed"}, Settles(outcome)
  PROVE  /\ attempt' \in Attempt /\ attempt'.outcome = outcome
         /\ attempt'.kind = attempt.kind /\ attempt'.at = attempt.at
  BY DEF Settles, Attempt

(* What awaits is an attempt.                                              *)
LEMMA AwaitingIsAttempt ==
  ASSUME TypeOK, NEW place \in {"dialling", "handshake", "restoring"}, Awaiting(place)
  PROVE  attempt \in Attempt
  BY DEF TypeOK, Awaiting, NoAttempt

(* Closing a socket keeps the types of the sockets.                        *)
LEMMA CloseSocketType ==
  ASSUME TypeOK, NEW s \in Socket, CloseSocket(s)
  PROVE  /\ wire' \in [Socket -> Wire]
         /\ state' \in [Socket -> {"Initial", "Connecting", "Established", "Closed"}]
  BY DEF TypeOK, CloseSocket

(* Beginning to open a socket, when no other is dialling.                  *)
LEMMA OpenKeepsIInv ==
  ASSUME IInv, \A s \in Socket : wire[s] # "dialling",
         NEW kind \in {"connect", "reconnect", "retry"}, OpenClientSocket(kind),
         reconnectTimer' \in BOOLEAN
  PROVE  IInv'
  <1>1. attempt' \in Attempt /\ attempt'.at = "creating" /\ attempt'.outcome = "ok"
    BY DEF OpenClientSocket, Attempt
  <1>2. FlagsOK'
    BY DEF IInv, TypeOK, FlagsOK, OpenClientSocket
  <1>3. TypeOK'
    BY <1>1, <1>2 DEF IInv, TypeOK, OpenClientSocket
  <1>4. CreatingHasRoom' /\ DiallingIsAwaited' /\ DiallingIsPending'
    BY <1>1 DEF IInv, TypeOK, CreatingHasRoom, DiallingIsAwaited, DiallingIsPending,
                OpenClientSocket
  <1>5. OpenIsEstablished' /\ UnopenedIsUnused' /\ AttemptHasReply'
    BY DEF IInv, OpenIsEstablished, UnopenedIsUnused, AttemptHasReply, OpenClientSocket
  <1>6. ClosedIsInert' /\ HandshakeIsAwaited'
    BY <1>1 DEF ClosedIsInert, HandshakeIsAwaited, OpenClientSocket
  <1> QED BY <1>3, <1>4, <1>5, <1>6 DEF IInv

(* A socket opens.                                                         *)
LEMMA SocketOpensIInv ==
  ASSUME IInv, NEW s \in Socket, SocketOpens(s)
  PROVE  IInv'
  <1>1. attempt \in Attempt /\ s = socket /\ Awaiting("dialling")
    BY AwaitingIsAttempt DEF IInv, DiallingIsAwaited, SocketOpens
  <1>2. attempt' \in Attempt /\ attempt'.at = "dialling" /\ attempt'.outcome = "ok"
    BY <1>1, SettlesType DEF SocketOpens, Awaiting
  <1>3. FlagsOK'
    BY <1>1, <1>2 DEF IInv, TypeOK, FlagsOK, SocketOpens, Settles, Due,
                      DiallingIsAwaited, DiallingIsPending
  <1>4. TypeOK'
    BY <1>1, <1>2, <1>3 DEF IInv, TypeOK, SocketOpens, Settles, Due,
                            DiallingIsAwaited, DiallingIsPending
  <1>5. DiallingIsAwaited' /\ CreatingHasRoom'
    BY <1>1, <1>2 DEF IInv, TypeOK, DiallingIsAwaited, CreatingHasRoom, Awaiting, SocketOpens,
                      Settles, Due, DiallingIsAwaited, DiallingIsPending
  <1>6. DiallingIsPending'
    BY <1>1, <1>2 DEF IInv, TypeOK, DiallingIsPending,
                      SocketOpens, Settles, Due, DiallingIsAwaited,
                      DiallingIsPending
  <1>7. OpenIsEstablished'
    BY <1>1, <1>2 DEF IInv, TypeOK, OpenIsEstablished, SocketOpens, Settles,
                      Due, DiallingIsAwaited, DiallingIsPending
  <1>8. UnopenedIsUnused'
    BY <1>1, <1>2 DEF IInv, TypeOK, UnopenedIsUnused, SocketOpens, Settles,
                      Due, DiallingIsAwaited, DiallingIsPending
  <1>9. AttemptHasReply'
    BY <1>1, <1>2 DEF IInv, TypeOK, AttemptHasReply, SocketOpens, Settles, Due,
                      DiallingIsAwaited, DiallingIsPending
  <1>10. ClosedIsInert'
    BY <1>1, <1>2 DEF IInv, TypeOK, ClosedIsInert, SocketOpens, Settles, Due,
                      DiallingIsAwaited, DiallingIsPending
  <1>11. HandshakeIsAwaited'
    BY <1>1, <1>2 DEF IInv, TypeOK, HandshakeIsAwaited, Awaiting, SocketOpens,
                      Settles, Due, DiallingIsAwaited, DiallingIsPending
  <1> QED BY <1>4, <1>5, <1>6, <1>7, <1>8, <1>9, <1>10, <1>11 DEF IInv

(* A socket fails to open.                                                 *)
LEMMA SocketErrorIInv ==
  ASSUME IInv, NEW s \in Socket, SocketError(s)
  PROVE  IInv'
  <1>1. attempt \in Attempt /\ s = socket /\ Awaiting("dialling")
    BY AwaitingIsAttempt DEF IInv, DiallingIsAwaited, SocketError
  <1>2. attempt' \in Attempt /\ attempt'.at = "dialling"
    BY <1>1, SettlesType DEF SocketError, Awaiting
  <1>3. FlagsOK'
    BY <1>1, <1>2 DEF IInv, TypeOK, FlagsOK, SocketError, Settles, Due
  <1>4. TypeOK'
    BY <1>1, <1>2, <1>3 DEF IInv, TypeOK, SocketError, Settles, Due
  <1>5. DiallingIsAwaited' /\ CreatingHasRoom'
    BY <1>1, <1>2 DEF IInv, TypeOK, DiallingIsAwaited, CreatingHasRoom, Awaiting, SocketError,
                      Settles, Due
  <1>6. DiallingIsPending'
    BY <1>1, <1>2 DEF IInv, TypeOK, DiallingIsPending,
                      SocketError, Settles, Due
  <1>7. OpenIsEstablished'
    BY <1>1, <1>2 DEF IInv, TypeOK, OpenIsEstablished, SocketError, Settles,
                      Due
  <1>8. UnopenedIsUnused'
    BY <1>1, <1>2 DEF IInv, TypeOK, UnopenedIsUnused, SocketError, Settles, Due
  <1>9. AttemptHasReply'
    BY <1>1, <1>2 DEF IInv, TypeOK, AttemptHasReply, SocketError, Settles, Due
  <1>10. ClosedIsInert'
    BY <1>1, <1>2 DEF IInv, TypeOK, ClosedIsInert, SocketError, Settles, Due
  <1>11. HandshakeIsAwaited'
    BY <1>1, <1>2 DEF IInv, TypeOK, HandshakeIsAwaited, Awaiting, SocketError,
                      Settles, Due
  <1> QED BY <1>4, <1>5, <1>6, <1>7, <1>8, <1>9, <1>10, <1>11 DEF IInv

(* Requests come and go.                                                   *)
LEMMA OnlyRequestsIInv ==
  ASSUME IInv, request' \in [Request -> {"new", "pending", "answered", "failed"}],
         sentOn' \in [Request -> 0 .. MaxSocket],
         UNCHANGED <<socketVars, socket, opened, attempt, authVars, reconnectTimer, lifeVars,
                     tooEarly>>
  PROVE  IInv'
  <1>1. FlagsOK'
    BY DEF IInv, TypeOK, FlagsOK
  <1>2. TypeOK'
    BY <1>1 DEF IInv, TypeOK
  <1>3. DiallingIsAwaited' /\ CreatingHasRoom'
    BY DEF IInv, TypeOK, DiallingIsAwaited, CreatingHasRoom, Awaiting
  <1>4. DiallingIsPending'
    BY DEF IInv, TypeOK, DiallingIsPending, DiallingIsAwaited
  <1>5. OpenIsEstablished'
    BY DEF IInv, TypeOK, OpenIsEstablished
  <1>6. UnopenedIsUnused'
    BY DEF IInv, TypeOK, UnopenedIsUnused
  <1>7. AttemptHasReply'
    BY DEF IInv, TypeOK, AttemptHasReply
  <1>8. ClosedIsInert'
    BY DEF IInv, TypeOK, ClosedIsInert
  <1>9. HandshakeIsAwaited'
    BY DEF IInv, TypeOK, HandshakeIsAwaited, Awaiting
  <1> QED BY <1>2, <1>3, <1>4, <1>5, <1>6, <1>7, <1>8, <1>9 DEF IInv

(* A native socket ends.                                                   *)
LEMMA NetworkDropsIInv ==
  ASSUME IInv, NEW s \in Socket, NetworkDrops(s)
  PROVE  IInv'
  <1>1. FlagsOK'
    BY DEF IInv, TypeOK, FlagsOK, NetworkDrops
  <1>2. TypeOK'
    BY <1>1 DEF IInv, TypeOK, NetworkDrops
  <1>3. DiallingIsAwaited' /\ CreatingHasRoom'
    BY DEF IInv, TypeOK, DiallingIsAwaited, CreatingHasRoom, Awaiting, NetworkDrops
  <1>4. DiallingIsPending'
    BY DEF IInv, TypeOK, DiallingIsPending, NetworkDrops
  <1>5. OpenIsEstablished'
    BY DEF IInv, TypeOK, OpenIsEstablished, NetworkDrops
  <1>6. UnopenedIsUnused'
    BY DEF IInv, TypeOK, UnopenedIsUnused, NetworkDrops
  <1>7. AttemptHasReply'
    BY DEF IInv, TypeOK, AttemptHasReply, NetworkDrops
  <1>8. ClosedIsInert'
    BY DEF IInv, TypeOK, ClosedIsInert, NetworkDrops
  <1>9. HandshakeIsAwaited'
    BY DEF IInv, TypeOK, HandshakeIsAwaited, Awaiting, NetworkDrops
  <1> QED BY <1>2, <1>3, <1>4, <1>5, <1>6, <1>7, <1>8, <1>9 DEF IInv

(* The application closes the connection.                                  *)
LEMMA CloseIInv ==
  ASSUME IInv, Close
  PROVE  IInv'
  <1>1. socket # 0 => socket \in Socket
    BY DEF IInv, TypeOK
  <1>2. /\ wire' \in [Socket -> Wire]
        /\ state' \in [Socket -> {"Initial", "Connecting", "Established", "Closed"}]
    BY <1>1, CloseSocketType DEF IInv, TypeOK, Close
  <1>3. FlagsOK'
    BY <1>1, <1>2 DEF IInv, TypeOK, FlagsOK, Close, CloseSocket
  <1>4. TypeOK'
    BY <1>1, <1>2, <1>3 DEF IInv, TypeOK, Close, CloseSocket,
                      MayAct, Due, Creating, ClosesWhatThereIs
  <1>5. DiallingIsAwaited' /\ CreatingHasRoom'
    BY <1>1, <1>2 DEF IInv, TypeOK, DiallingIsAwaited, CreatingHasRoom, Awaiting, Close, CloseSocket,
                      MayAct, Due, Creating, ClosesWhatThereIs
  <1>6. DiallingIsPending'
    BY <1>1, <1>2 DEF IInv, TypeOK, DiallingIsPending, Close, CloseSocket,
                      MayAct, Due, Creating, ClosesWhatThereIs
  <1>7. OpenIsEstablished'
    BY <1>1, <1>2 DEF IInv, TypeOK, OpenIsEstablished, Close, CloseSocket
  <1>8. UnopenedIsUnused'
    BY <1>1, <1>2 DEF IInv, TypeOK, UnopenedIsUnused, Close, CloseSocket
  <1>9. AttemptHasReply'
    BY <1>1, <1>2 DEF IInv, TypeOK, AttemptHasReply, Close, CloseSocket
  <1>10. ClosedIsInert'
    <2>1. attempt.at = "creating" => "close" \in tooEarly'
      BY DEF IInv, CreatingHasRoom, Close, MayAct, Due, Creating, ClosesWhatThereIs
    <2>2. socket' # 0 => state'[socket'] # "Established" /\ wire'[socket'] # "dialling"
      BY <1>1 DEF IInv, TypeOK, Close, CloseSocket
    <2> QED BY <2>1, <2>2 DEF ClosedIsInert, Close
  <1>11. HandshakeIsAwaited'
    BY <1>1, <1>2 DEF IInv, TypeOK, HandshakeIsAwaited, Awaiting, Close, CloseSocket,
                      MayAct, Due, Creating, ClosesWhatThereIs
  <1> QED BY <1>4, <1>5, <1>6, <1>7, <1>8, <1>9, <1>10, <1>11 DEF IInv

(* The application destroys the connection.                                *)
LEMMA DestroyIInv ==
  ASSUME IInv, Destroy
  PROVE  IInv'
  <1>1. socket # 0 => socket \in Socket
    BY DEF IInv, TypeOK
  <1>2. /\ wire' \in [Socket -> Wire]
        /\ state' \in [Socket -> {"Initial", "Connecting", "Established", "Closed"}]
    BY <1>1, CloseSocketType DEF IInv, TypeOK, Destroy
  <1>3. FlagsOK'
    BY <1>1, <1>2 DEF IInv, TypeOK, FlagsOK, Destroy, CloseSocket
  <1>4. TypeOK'
    BY <1>1, <1>2, <1>3 DEF IInv, TypeOK, Destroy, CloseSocket,
                      MayAct, Due, Creating, ClosesWhatThereIs
  <1>5. DiallingIsAwaited' /\ CreatingHasRoom'
    BY <1>1, <1>2 DEF IInv, TypeOK, DiallingIsAwaited, CreatingHasRoom, Awaiting, Destroy, CloseSocket,
                      MayAct, Due, Creating, ClosesWhatThereIs
  <1>6. DiallingIsPending'
    BY <1>1, <1>2 DEF IInv, TypeOK, DiallingIsPending, Destroy, CloseSocket,
                      MayAct, Due, Creating, ClosesWhatThereIs
  <1>7. OpenIsEstablished'
    BY <1>1, <1>2 DEF IInv, TypeOK, OpenIsEstablished, Destroy, CloseSocket
  <1>8. UnopenedIsUnused'
    BY <1>1, <1>2 DEF IInv, TypeOK, UnopenedIsUnused, Destroy, CloseSocket
  <1>9. AttemptHasReply'
    BY <1>1, <1>2 DEF IInv, TypeOK, AttemptHasReply, Destroy, CloseSocket
  <1>10. ClosedIsInert'
    <2>1. attempt.at = "creating" => "close" \in tooEarly'
      BY DEF IInv, CreatingHasRoom, Destroy, MayAct, Due, Creating, ClosesWhatThereIs
    <2>2. socket' # 0 => state'[socket'] # "Established" /\ wire'[socket'] # "dialling"
      BY <1>1 DEF IInv, TypeOK, Destroy, CloseSocket
    <2> QED BY <2>1, <2>2 DEF ClosedIsInert, Destroy
  <1>11. HandshakeIsAwaited'
    BY <1>1, <1>2 DEF IInv, TypeOK, HandshakeIsAwaited, Awaiting, Destroy, CloseSocket,
                      MayAct, Due, Creating, ClosesWhatThereIs
  <1> QED BY <1>4, <1>5, <1>6, <1>7, <1>8, <1>9, <1>10, <1>11 DEF IInv

(* The handshake fails.                                                    *)
LEMMA FailAuthenticationIInv ==
  ASSUME IInv, FailAuthentication, socket # 0, ~Due
  PROVE  IInv'
  <1>1. socket \in Socket
    BY DEF IInv, TypeOK
  <1>2. attempt' = attempt \/ (/\ attempt \in Attempt /\ attempt' \in Attempt
                               /\ Awaiting("handshake") /\ attempt'.at = "handshake")
    BY SettlesType, AwaitingIsAttempt DEF IInv, FailAuthentication, Awaiting
  <1>3. attempt' \in Attempt \cup {NoAttempt}
    BY <1>2 DEF IInv, TypeOK
  <1>4. FlagsOK'
    BY <1>1, <1>2, <1>3 DEF IInv, TypeOK, FlagsOK, FailAuthentication,
                            CloseSocket
  <1>5. TypeOK'
    BY <1>1, <1>2, <1>3, <1>4 DEF IInv, TypeOK, FailAuthentication, CloseSocket,
                            Due, Creating, ClosesWhatThereIs
  <1>6. DiallingIsAwaited' /\ CreatingHasRoom'
    BY <1>1, <1>2, <1>3 DEF IInv, TypeOK, DiallingIsAwaited, CreatingHasRoom, Awaiting,
                            FailAuthentication, CloseSocket,
                            Due, Creating, ClosesWhatThereIs
  <1>7. DiallingIsPending'
    <2>1. attempt'.at # "creating"
      BY <1>2 DEF IInv, CreatingHasRoom, Due
    <2>2. \A s \in Socket : wire'[s] # "dialling"
      BY <1>1 DEF IInv, TypeOK, DiallingIsAwaited, FailAuthentication, CloseSocket
    <2> QED BY <2>1, <2>2 DEF DiallingIsPending
  <1>8. OpenIsEstablished'
    BY <1>1, <1>2, <1>3 DEF IInv, TypeOK, OpenIsEstablished,
                            FailAuthentication, CloseSocket
  <1>9. UnopenedIsUnused'
    BY <1>1, <1>2, <1>3 DEF IInv, TypeOK, UnopenedIsUnused, FailAuthentication,
                            CloseSocket
  <1>10. AttemptHasReply'
    BY <1>1, <1>2, <1>3 DEF IInv, TypeOK, AttemptHasReply, FailAuthentication,
                            CloseSocket
  <1>11. ClosedIsInert'
    <2>1. attempt'.at # "creating"
      BY <1>2 DEF IInv, CreatingHasRoom, Due
    <2>2. state'[socket'] = "Closed" /\ wire'[socket'] # "dialling"
      BY <1>1 DEF IInv, TypeOK, FailAuthentication, CloseSocket
    <2> QED BY <2>1, <2>2 DEF ClosedIsInert, FailAuthentication
  <1>12. HandshakeIsAwaited'
    BY <1>1, <1>2, <1>3 DEF IInv, TypeOK, HandshakeIsAwaited, Awaiting,
                            FailAuthentication, CloseSocket,
                            Due, Creating, ClosesWhatThereIs
  <1> QED BY <1>5, <1>6, <1>7, <1>8, <1>9, <1>10, <1>11, <1>12 DEF IInv

(* The handshake succeeds.                                                 *)
LEMMA SessionEstablishedIInv ==
  ASSUME IInv, SessionEstablished
  PROVE  IInv'
  <1>1. attempt' = attempt \/ (/\ attempt \in Attempt /\ attempt' \in Attempt
                               /\ Awaiting("handshake") /\ attempt'.at = "handshake")
    BY SettlesType, AwaitingIsAttempt DEF IInv, SessionEstablished, Awaiting
  <1>2. FlagsOK'
    BY <1>1 DEF IInv, TypeOK, FlagsOK, SessionEstablished, InHandshake
  <1>3. TypeOK'
    BY <1>1, <1>2 DEF IInv, TypeOK, SessionEstablished, InHandshake
  <1>4. DiallingIsAwaited' /\ CreatingHasRoom'
    BY <1>1 DEF IInv, TypeOK, DiallingIsAwaited, CreatingHasRoom, Awaiting, SessionEstablished,
                InHandshake
  <1>5. DiallingIsPending'
    BY <1>1 DEF IInv, TypeOK, CreatingHasRoom, DiallingIsAwaited, DiallingIsPending, Due,
                SessionEstablished, InHandshake
  <1>6. OpenIsEstablished'
    BY <1>1 DEF IInv, TypeOK, OpenIsEstablished, SessionEstablished,
                InHandshake
  <1>7. UnopenedIsUnused'
    BY <1>1 DEF IInv, TypeOK, UnopenedIsUnused, SessionEstablished, InHandshake
  <1>8. AttemptHasReply'
    BY <1>1 DEF IInv, TypeOK, AttemptHasReply, SessionEstablished, InHandshake
  <1>9. ClosedIsInert'
    BY <1>1 DEF IInv, TypeOK, ClosedIsInert, SessionEstablished, InHandshake
  <1>10. HandshakeIsAwaited'
    BY <1>1 DEF IInv, TypeOK, HandshakeIsAwaited, Awaiting, SessionEstablished,
                InHandshake
  <1> QED BY <1>3, <1>4, <1>5, <1>6, <1>7, <1>8, <1>9, <1>10 DEF IInv

(* The restore loop ends.                                                  *)
LEMMA RestoreEndsIInv ==
  ASSUME IInv, NEW outcome \in {"ok", "failed"}, RestoreEnds(outcome)
  PROVE  IInv'
  <1>1. /\ attempt \in Attempt /\ attempt' \in Attempt
        /\ Awaiting("restoring") /\ attempt'.at = "restoring"
    BY SettlesType, AwaitingIsAttempt DEF IInv, RestoreEnds, Awaiting
  <1>2. FlagsOK'
    BY <1>1 DEF IInv, TypeOK, FlagsOK, RestoreEnds
  <1>3. TypeOK'
    BY <1>1, <1>2 DEF IInv, TypeOK, RestoreEnds
  <1>4. DiallingIsAwaited' /\ CreatingHasRoom'
    BY <1>1 DEF IInv, TypeOK, DiallingIsAwaited, CreatingHasRoom, Awaiting, RestoreEnds
  <1>5. DiallingIsPending'
    BY <1>1 DEF IInv, TypeOK, DiallingIsPending, RestoreEnds
  <1>6. OpenIsEstablished'
    BY <1>1 DEF IInv, TypeOK, OpenIsEstablished, RestoreEnds
  <1>7. UnopenedIsUnused'
    BY <1>1 DEF IInv, TypeOK, UnopenedIsUnused, RestoreEnds
  <1>8. AttemptHasReply'
    BY <1>1 DEF IInv, TypeOK, AttemptHasReply, RestoreEnds
  <1>9. ClosedIsInert'
    BY <1>1 DEF IInv, TypeOK, ClosedIsInert, RestoreEnds
  <1>10. HandshakeIsAwaited'
    BY <1>1 DEF IInv, TypeOK, HandshakeIsAwaited, Awaiting, RestoreEnds
  <1> QED BY <1>3, <1>4, <1>5, <1>6, <1>7, <1>8, <1>9, <1>10 DEF IInv

(* What disconnected() does to the state it shares with an attempt.        *)
LEMMA DisconnectedFacts ==
  ASSUME IInv, NEW unsent \in SUBSET Request, Disconnected(unsent)
  PROVE  /\ request' \in [Request -> {"new", "pending", "answered", "failed"}]
         /\ readyReply' \in {"none", "pending", "ok", "failed"}
         /\ readyReply # "none" => readyReply' # "none"
         /\ \/ attempt' = attempt
            \/ /\ attempt \in Attempt /\ attempt' \in Attempt
               /\ attempt.at \in {"handshake", "restoring"} /\ attempt'.at = attempt.at
         /\ attempt' \in Attempt \cup {NoAttempt}
         /\ deadline' \in BOOLEAN /\ reconnectTimer' \in BOOLEAN
         /\ manualClose => ~reconnectTimer'
         /\ authenticated' = authenticated
         /\ tooEarly' = IF BeforeOpen THEN tooEarly \cup {"disconnect"} ELSE tooEarly
  <1>1. request' \in [Request -> {"new", "pending", "answered", "failed"}]
    BY DEF IInv, TypeOK, Disconnected
  <1>2. /\ readyReply' \in {"none", "pending", "ok", "failed"}
        /\ readyReply # "none" => readyReply' # "none"
    BY DEF IInv, TypeOK, Disconnected
  <1>3. \/ attempt' = attempt
        \/ /\ attempt \in Attempt /\ attempt' \in Attempt
           /\ attempt.at \in {"handshake", "restoring"} /\ attempt'.at = attempt.at
    BY SettlesType, AwaitingIsAttempt DEF IInv, Disconnected, Awaiting
  <1>4. attempt' \in Attempt \cup {NoAttempt}
    BY <1>3 DEF IInv, TypeOK
  <1>5. deadline' \in BOOLEAN /\ reconnectTimer' \in BOOLEAN
    BY DEF IInv, TypeOK, FlagsOK, Disconnected, ScheduleReconnect
  <1>6. /\ (manualClose => ~reconnectTimer') /\ authenticated' = authenticated
        /\ tooEarly' = IF BeforeOpen THEN tooEarly \cup {"disconnect"} ELSE tooEarly
    BY DEF IInv, ClosedIsInert, Disconnected, ScheduleReconnect, ShouldAutoReconnect
  <1> QED BY <1>1, <1>2, <1>3, <1>4, <1>5, <1>6

(* A socket is counted as closed, and the connection may hear of it.       *)
HeardOrNot(s) ==
    /\ s \in Socket
    /\ state' = [state EXCEPT ![s] = "Closed"]
    /\ closeNotified' = closeNotified \cup {s}
    /\ \/ Hears(s) /\ \E unsent \in SUBSET Request : Disconnected(unsent)
       \/ ~Hears(s) /\ UNCHANGED <<attempt, authVars, reconnectTimer, tooEarly>>
    /\ UNCHANGED <<socket, opened, lifeVars>>

(* Whether the connection hears of the close or not.                       *)
LEMMA HeardOrNotIInv ==
  ASSUME IInv, NEW s \in Socket, HeardOrNot(s),
         wire' = wire \/ (wire[s] # "unused" /\ wire' = [wire EXCEPT ![s] = "closed"]),
         wire[s] # "open",
         request' \in [Request -> {"new", "pending", "answered", "failed"}],
         sentOn' \in [Request -> 0 .. MaxSocket]
  PROVE  IInv'
  <1>1. /\ readyReply' \in {"none", "pending", "ok", "failed"}
        /\ readyReply # "none" => readyReply' # "none"
        /\ \/ attempt' = attempt
           \/ /\ attempt \in Attempt /\ attempt' \in Attempt
              /\ attempt.at \in {"handshake", "restoring"} /\ attempt'.at = attempt.at
        /\ attempt' \in Attempt \cup {NoAttempt}
        /\ deadline' \in BOOLEAN /\ reconnectTimer' \in BOOLEAN
        /\ manualClose => ~reconnectTimer'
        /\ authenticated' = authenticated
        /\ ~Hears(s) => UNCHANGED <<attempt, readyReply, tooEarly>>
        /\ Hears(s) => tooEarly' = IF BeforeOpen THEN tooEarly \cup {"disconnect"} ELSE tooEarly
    BY DisconnectedFacts DEF IInv, TypeOK, FlagsOK, ClosedIsInert, HeardOrNot
  <1>2. FlagsOK'
    BY <1>1 DEF IInv, TypeOK, FlagsOK, HeardOrNot, Hears
  <1>3. TypeOK'
    BY <1>1, <1>2 DEF IInv, TypeOK, HeardOrNot, Hears, BeforeOpen
  <1>4. DiallingIsAwaited' /\ CreatingHasRoom'
    BY <1>1 DEF IInv, TypeOK, DiallingIsAwaited, CreatingHasRoom, Awaiting, HeardOrNot, Hears
  <1>5. DiallingIsPending'
    <2>1. \A t \in Socket : wire'[t] = "dialling" => wire[t] = "dialling"
      BY DEF IInv, TypeOK
    <2>2. CASE Hears(s) /\ BeforeOpen
      BY <1>1, <2>2 DEF DiallingIsPending
    <2>3. CASE ~BeforeOpen
      BY <1>1, <2>1, <2>3 DEF IInv, DiallingIsAwaited, DiallingIsPending, Awaiting, BeforeOpen
    <2>4. CASE ~Hears(s)
      BY <1>1, <2>1, <2>4 DEF IInv, DiallingIsPending
    <2> QED BY <2>2, <2>3, <2>4
  <1>6. OpenIsEstablished'
    BY <1>1 DEF IInv, TypeOK, OpenIsEstablished, HeardOrNot, Hears
  <1>7. UnopenedIsUnused'
    BY <1>1 DEF IInv, TypeOK, UnopenedIsUnused, HeardOrNot, Hears
  <1>8. AttemptHasReply'
    BY <1>1 DEF IInv, TypeOK, AttemptHasReply, HeardOrNot, Hears
  <1>9. ClosedIsInert'
    BY <1>1 DEF IInv, TypeOK, ClosedIsInert, HeardOrNot, Hears, BeforeOpen
  <1>10. HandshakeIsAwaited'
    BY <1>1 DEF IInv, TypeOK, HandshakeIsAwaited, Awaiting, HeardOrNot, Hears, BeforeOpen
  <1> QED BY <1>3, <1>4, <1>5, <1>6, <1>7, <1>8, <1>9, <1>10 DEF IInv

(* The body of an attempt goes on: nothing dials, since it does not await  *)
(* that.                                                                   *)
LEMMA ResumeIInv ==
  ASSUME IInv, Resume
  PROVE  IInv'
  <1>1. attempt \in Attempt /\ readyReply # "none" /\ ~Awaiting("dialling")
    BY DEF IInv, TypeOK, Resume, Due, NoAttempt, AttemptHasReply, Awaiting
  <1>2. \A s \in Socket : wire[s] # "dialling"
    BY <1>1 DEF IInv, DiallingIsAwaited
  <1>3. reconnectTimer' \in BOOLEAN /\ inApplication' \in BOOLEAN
    <2>1. CASE Fail /\ UNCHANGED inApplication
      BY <2>1 DEF IInv, TypeOK, FlagsOK, Fail, ScheduleReconnect
    <2>2. CASE Resolve \/ \E place, outcome : Advance(place, outcome)
      BY <2>2 DEF IInv, TypeOK, FlagsOK, Resolve, Advance
    <2>3. (Fail /\ UNCHANGED inApplication) \/ Resolve \/ \E place, outcome : Advance(place, outcome)
      <3>1. CASE attempt.outcome = "failed"
        BY <3>1 DEF Resume, Continue
      <3>2. CASE attempt.outcome = "ok" /\ attempt.at = "creating"
        BY <3>2 DEF Resume, Continue
      <3>3. CASE attempt.outcome = "ok" /\ attempt.at = "dialling"
        BY <3>3 DEF Resume, Continue
      <3>4. CASE attempt.outcome = "ok" /\ attempt.at = "handshake" /\ Reconnecting
        BY <3>4 DEF Resume, Continue
      <3> QED BY <3>1, <3>2, <3>3, <3>4 DEF Resume, Continue
    <2> QED BY <2>1, <2>2, <2>3
  <1>4. manualClose => ~reconnectTimer'
    BY DEF IInv, ClosedIsInert, Resume, Continue, Fail, ScheduleReconnect,
           ShouldAutoReconnect, Resolve, Advance
  <1>5. FlagsOK'
    BY <1>3 DEF IInv, TypeOK, FlagsOK, Resume
  <1>6. CASE attempt.at = "creating"
    <2>1. opened' = opened + 1 /\ opened' \in Socket /\ socket' = opened' /\ AssignSocket
      BY <1>6 DEF IInv, TypeOK, CreatingHasRoom, Resume, AssignSocket
    <2>2. attempt' \in Attempt /\ attempt'.at = "dialling" /\ attempt'.outcome = "waiting"
      BY <1>1, <1>6 DEF IInv, CreatingHasRoom, Resume, Continue, Advance, Attempt
    <2>3. TypeOK'
      BY <1>5, <2>1, <2>2 DEF IInv, TypeOK, Resume, AssignSocket
    <2>4. CreatingHasRoom' /\ DiallingIsAwaited'
      BY <1>2, <2>1, <2>2 DEF IInv, TypeOK, CreatingHasRoom, DiallingIsAwaited, Awaiting,
                              AssignSocket
    <2>5. DiallingIsPending'
      BY <1>6 DEF IInv, DiallingIsPending, Resume
    <2>6. OpenIsEstablished'
      BY <2>1 DEF IInv, TypeOK, OpenIsEstablished, AssignSocket
    <2>7. UnopenedIsUnused' /\ AttemptHasReply'
      BY <1>1, <2>1 DEF IInv, TypeOK, UnopenedIsUnused, AttemptHasReply, Resume, AssignSocket
    <2>8. ClosedIsInert'
      BY <1>4, <1>6 DEF IInv, ClosedIsInert, Resume
    <2>9. HandshakeIsAwaited'
      BY <2>1 DEF IInv, TypeOK, HandshakeIsAwaited, AssignSocket
    <2> QED BY <2>3, <2>4, <2>5, <2>6, <2>7, <2>8, <2>9 DEF IInv
  <1>7. CASE attempt.at # "creating"
    <2>1. UNCHANGED <<wire, state, socket, opened>>
      BY <1>7 DEF Resume
    <2>2. attempt' = NoAttempt \/ (attempt' \in Attempt /\ attempt'.at # "creating")
      <3>1. CASE Fail \/ Resolve
        BY <3>1 DEF Fail, Resolve
      <3>2. CASE \E place \in {"handshake", "restoring"} :
                   \E outcome \in {"waiting", "ok", "failed"} : Advance(place, outcome)
        BY <1>1, <3>2 DEF Advance, Attempt
      <3> QED BY <1>1, <1>7, <3>1, <3>2 DEF IInv, TypeOK, Resume, Continue
    <2>3. TypeOK'
      BY <1>5, <2>1, <2>2 DEF IInv, TypeOK, Resume
    <2>4. CreatingHasRoom' /\ DiallingIsAwaited' /\ DiallingIsPending'
      BY <1>2, <2>1, <2>2 DEF CreatingHasRoom, DiallingIsAwaited, DiallingIsPending, NoAttempt
    <2>5. OpenIsEstablished' /\ UnopenedIsUnused' /\ AttemptHasReply'
      BY <1>1, <2>1 DEF IInv, OpenIsEstablished, UnopenedIsUnused, AttemptHasReply, Resume
    <2>6. ClosedIsInert'
      BY <1>4, <1>7, <2>1, <2>2 DEF IInv, ClosedIsInert, Resume, NoAttempt
    <2>7. HandshakeIsAwaited'
      <3> SUFFICES ASSUME socket # 0, state[socket] = "Established",
                          "disconnect" \notin tooEarly, ~authenticated
                   PROVE  readyReply' = "pending" /\ Awaiting("handshake")'
        BY <2>1 DEF HandshakeIsAwaited, Resume
      <3>1. readyReply = "pending" /\ attempt.at = "dialling" /\ attempt.outcome = "ok"
        BY <1>7 DEF IInv, HandshakeIsAwaited, Resume, Due, Awaiting
      <3>2. Advance("handshake", "waiting")
        BY <3>1 DEF Resume, Continue
      <3> QED BY <1>1, <3>1, <3>2 DEF Advance, Awaiting, Attempt, Resume
    <2> QED BY <2>3, <2>4, <2>5, <2>6, <2>7 DEF IInv
  <1> QED BY <1>6, <1>7

-----------------------------------------------------------------------------
(* The actions that open a socket find none dialling.                      *)
LEMMA OpeningIInv ==
  ASSUME IInv, Connect \/ Reconnect \/ ReconnectTimerFires
  PROVE  IInv'
  <1>1. CASE attempt = NoAttempt
    <2>1. \A s \in Socket : wire[s] # "dialling"
      BY <1>1 DEF IInv, DiallingIsAwaited, Awaiting, NoAttempt
    <2> QED BY <1>1, <2>1, OpenKeepsIInv
            DEF IInv, TypeOK, FlagsOK, Connect, Reconnect, ReconnectTimerFires
  <1>2. CASE attempt # NoAttempt /\ ReconnectTimerFires
    <2>1. FlagsOK'
      BY <1>2 DEF IInv, TypeOK, FlagsOK, ReconnectTimerFires
    <2>2. TypeOK'
      BY <1>2, <2>1 DEF IInv, TypeOK, ReconnectTimerFires
    <2> QED BY <1>2, <2>2
            DEF IInv, CreatingHasRoom, DiallingIsAwaited, DiallingIsPending,
                OpenIsEstablished, UnopenedIsUnused, AttemptHasReply, ClosedIsInert,
                HandshakeIsAwaited, Awaiting, ReconnectTimerFires
  <1> QED BY <1>1, <1>2 DEF Connect, Reconnect

(* The close event of any socket, current or replaced.                     *)
LEMMA CloseEventIInv ==
  ASSUME IInv, NEW s \in Socket, CloseEvent(s)
  PROVE  IInv'
  <1>1. HeardOrNot(s)
    BY DEF HeardOrNot, CloseEvent
  <1>2. wire[s] \notin {"open", "unused"} /\ wire' = [wire EXCEPT ![s] = "closed"]
    BY DEF CloseEvent
  <1>3. /\ request' \in [Request -> {"new", "pending", "answered", "failed"}]
        /\ sentOn' \in [Request -> 0 .. MaxSocket]
    BY DisconnectedFacts DEF IInv, TypeOK, CloseEvent
  <1> QED BY <1>1, <1>2, <1>3, HeardOrNotIInv

(* A send leaves the sockets alone, or finds the current one not open.     *)
LEMMA SendIInv ==
  ASSUME IInv, NEW r \in Request, socket # 0, Send(r), UNCHANGED <<socket, opened, lifeVars>>
  PROVE  IInv'
  <1>1. socket \in Socket /\ sentOn' \in [Request -> 0 .. MaxSocket]
    BY DEF IInv, TypeOK, Send
  <1>2. request' \in [Request -> {"new", "pending", "answered", "failed"}]
    BY DisconnectedFacts DEF IInv, TypeOK, Send
  <1>3. CASE wire[socket] = "open" /\ IsConnected
    BY <1>1, <1>2, <1>3, OnlyRequestsIInv DEF Send
  <1>4. CASE wire[socket] # "open" \/ ~IsConnected
    <2>1. wire[socket] # "open"
      BY <1>1, <1>4 DEF IInv, OpenIsEstablished, IsConnected
    <2>2. HeardOrNot(socket) /\ UNCHANGED wire
      BY <1>1, <1>4 DEF HeardOrNot, Send
    <2> QED BY <1>1, <1>2, <2>1, <2>2, HeardOrNotIInv
  <1> QED BY <1>3, <1>4

(* Requests: sent, refused at once, or answered.                           *)
LEMMA SendingIInv ==
  ASSUME IInv, NEW r \in Request,
         SendRequest(r) \/ SendStreamRequest(r) \/ PeerAnswers(r)
  PROVE  IInv'
  <1>1. CASE socket # 0 /\ Send(r) /\ UNCHANGED <<socket, opened, lifeVars>>
    BY <1>1, SendIInv
  <1>2. CASE /\ \E outcome \in {"failed", "pending", "answered"} :
                  request' = [request EXCEPT ![r] = outcome]
             /\ UNCHANGED <<socketVars, socket, opened, attempt, authVars, reconnectTimer,
                            lifeVars, tooEarly, sentOn>>
    <2>1. request' \in [Request -> {"new", "pending", "answered", "failed"}]
      BY <1>2 DEF IInv, TypeOK
    <2> QED BY <1>2, <2>1, OnlyRequestsIInv DEF IInv, TypeOK
  <1> QED BY <1>1, <1>2 DEF SendRequest, SendStreamRequest, PeerAnswers, IsConnected

(* Every step keeps the invariant.                                         *)
LEMMA NextIInv == IInv /\ [Next]_vars => IInv'
  <1> SUFFICES ASSUME IInv, [Next]_vars PROVE IInv'
    OBVIOUS
  <1>1. CASE Application
    BY <1>1, OpeningIInv, CloseIInv, DestroyIInv, SendingIInv DEF Application
  <1>2. CASE Platform
    <2>1. CASE DeadlineFires
      BY <2>1, FailAuthenticationIInv DEF DeadlineFires
    <2> QED BY <1>2, <2>1, ResumeIInv, OpeningIInv, SocketOpensIInv, SocketErrorIInv,
               NetworkDropsIInv, CloseEventIInv DEF Platform, Dialled
  <1>3. CASE Peer
    <2>1. CASE HandshakeRefused
      BY <2>1, FailAuthenticationIInv DEF HandshakeRefused, InHandshake
    <2> QED BY <1>3, <2>1, SessionEstablishedIInv, RestoreEndsIInv, SendingIInv
            DEF Peer, Restored
  <1>4. CASE UNCHANGED vars
    <2>1. FlagsOK'
      BY <1>4 DEF vars, IInv, TypeOK, FlagsOK
    <2>2. TypeOK'
      BY <1>4, <2>1 DEF vars, IInv, TypeOK
    <2> QED BY <1>4, <2>2
            DEF vars, IInv, CreatingHasRoom, DiallingIsAwaited, DiallingIsPending,
                OpenIsEstablished, UnopenedIsUnused, AttemptHasReply, ClosedIsInert,
                HandshakeIsAwaited, Awaiting
  <1> QED BY <1>1, <1>2, <1>3, <1>4 DEF Next

(* The invariant holds in every reachable state.                           *)
THEOREM Invariance == Spec => []IInv
  BY InitIInv, NextIInv, PTL DEF Spec

(* Every variable keeps its type: in particular the reply of the handshake *)
(* is there whenever an attempt looks at it, and an event of a socket only *)
(* settles an attempt that is in progress.                                 *)
THEOREM TypeCorrect == Spec => []TypeOK
  <1>1. IInv => TypeOK
    BY DEF IInv
  <1> QED BY <1>1, Invariance, PTL

(* After close(), destroy() or a failed handshake the connection is not    *)
(* established and no reconnect is scheduled (EpConnection.close,          *)
(* shouldAutoReconnect, WSocket.close), wherever the attempt under way     *)
(* was, but for a close() or destroy() in the job that called reconnect(): *)
(* openClientSocket assigns and dials the socket it awaited all the same.  *)
THEOREM ClosedStaysClosedAlways == Spec => []ClosedStaysClosed
  <1>1. IInv => ClosedStaysClosed
    BY DEF IInv, ClosedIsInert, ClosedStaysClosed, IsConnected
  <1> QED BY <1>1, Invariance, PTL

(* When no connect() or reconnect() is in progress, an established         *)
(* connection is authenticated (openClientSocket awaits whenReady), unless *)
(* a stream request was sent on a socket that was down while the attempt   *)
(* had none open: disconnected() then fails the reply, the socket opens    *)
(* and stays Established.                                                  *)
THEOREM AuthenticatedAtRestAlways == Spec => []AuthenticatedAtRest
  <1>1. IInv => AuthenticatedAtRest
    BY DEF IInv, HandshakeIsAwaited, AuthenticatedAtRest, IsConnected, Awaiting, NoAttempt
  <1> QED BY <1>1, Invariance, PTL

-----------------------------------------------------------------------------
(* A request fails only with the socket it was sent on (networkClose       *)
(* ignores every socket but the current one), in every step.               *)
THEOREM FailsWithItsSocketAlways == Spec => FailsWithItsSocket
  <1>1. ASSUME IInv, Next, NEW r \in Request,
               request[r] = "pending", request'[r] = "failed", sentOn[r] = socket
        PROVE  wire[socket] # "open"
    <2>1. CASE Application
      <3>1. PICK q \in Request : SendRequest(q) \/ SendStreamRequest(q)
        BY <1>1, <2>1 DEF Application, Connect, Reconnect, OpenClientSocket, Close, Destroy
      <3>2. q # r
        BY <1>1, <3>1 DEF SendRequest, SendStreamRequest, MaySend
      <3>3. socket # 0 /\ (wire[socket] # "open" \/ ~IsConnected)
        BY <1>1, <3>1, <3>2 DEF IInv, TypeOK, SendRequest, SendStreamRequest, Send, IsConnected
      <3> QED BY <1>1, <3>3 DEF IInv, TypeOK, OpenIsEstablished, IsConnected
    <2>2. CASE Platform
      <3>1. PICK s \in Socket : CloseEvent(s)
        BY <1>1, <2>2 DEF Platform, Resume, ReconnectTimerFires, OpenClientSocket,
                          DeadlineFires, FailAuthentication, Dialled, SocketOpens, SocketError,
                          NetworkDrops
      <3>2. s = socket
        BY <1>1, <3>1 DEF CloseEvent, Hears
      <3> QED BY <3>1, <3>2 DEF CloseEvent
    <2>3. CASE Peer
      BY <1>1, <2>3 DEF IInv, TypeOK, Peer, SessionEstablished, HandshakeRefused,
                        FailAuthentication,
                        Restored, RestoreEnds, PeerAnswers
    <2> QED BY <1>1, <2>1, <2>2, <2>3 DEF Next
  <1>2. IInv /\ [Next]_vars =>
          [\A r \in Request : (request[r] = "pending" /\ request'[r] = "failed") =>
              \A s \in Socket : sentOn[r] = s /\ socket = s => wire[s] # "open"]_vars
    BY <1>1
  <1> QED BY <1>2, Invariance, PTL DEF Spec, FailsWithItsSocket
=============================================================================
