------------------------------ MODULE WireProofs ------------------------------
(***************************************************************************)
(* The formats on the line, for packets of every length and every change,  *)
(* and messages of every type, sequence number and number of fields.  Most *)
(* of it is about toBinary and fromBinary: where on the wire a field       *)
(* starts, and that the reader is there as long as it knows the types.     *)
(***************************************************************************)
EXTENDS Wire, FiniteSetTheorems, WellFoundedInduction, TLAPS

LEMMA BitValue == \A b \in Byte, k \in 1..8 : Bit(b, k) \in {0, 1}
BY DEF Byte, Bit, Weight

(* A byte is the sum of its bits. *)
LEMMA ByteOfBits ==
  ASSUME NEW b \in Byte
  PROVE  b = Bit(b, 1) + 2 * Bit(b, 2) + 4 * Bit(b, 3) + 8 * Bit(b, 4) + 16 * Bit(b, 5)
               + 32 * Bit(b, 6) + 64 * Bit(b, 7) + 128 * Bit(b, 8)
<1>1. /\ Bit(b, 1) = (b \div 1) % 2 /\ Bit(b, 2) = (b \div 2) % 2
      /\ Bit(b, 3) = (b \div 4) % 2 /\ Bit(b, 4) = (b \div 8) % 2
      /\ Bit(b, 5) = (b \div 16) % 2 /\ Bit(b, 6) = (b \div 32) % 2
      /\ Bit(b, 7) = (b \div 64) % 2 /\ Bit(b, 8) = (b \div 128) % 2
  BY DEF Bit, Weight
<1>2. b \in Int /\ 0 <= b /\ b <= 255
  BY DEF Byte
<1>3. /\ b = 2 * (b \div 2) + Bit(b, 1)
      /\ b \div 2 = 2 * (b \div 4) + Bit(b, 2)
      /\ b \div 4 = 2 * (b \div 8) + Bit(b, 3)
  BY <1>1, <1>2
<1>4. /\ b \div 8 = 2 * (b \div 16) + Bit(b, 4)
      /\ b \div 16 = 2 * (b \div 32) + Bit(b, 5)
  BY <1>1, <1>2
<1>5. /\ b \div 32 = 2 * (b \div 64) + Bit(b, 6)
      /\ b \div 64 = 2 * (b \div 128) + Bit(b, 7)
  BY <1>1, <1>2
<1>6. b \div 128 = Bit(b, 8)
  BY <1>1, <1>2
<1>7. /\ b \div 2 \in Int /\ b \div 4 \in Int /\ b \div 8 \in Int /\ b \div 16 \in Int
      /\ b \div 32 \in Int /\ b \div 64 \in Int /\ b \div 128 \in Int
  BY <1>2
<1>8. /\ Bit(b, 1) \in Int /\ Bit(b, 2) \in Int /\ Bit(b, 3) \in Int /\ Bit(b, 4) \in Int
      /\ Bit(b, 5) \in Int /\ Bit(b, 6) \in Int /\ Bit(b, 7) \in Int /\ Bit(b, 8) \in Int
  BY <1>1, <1>2
<1>9. QED
  BY <1>2, <1>3, <1>4, <1>5, <1>6, <1>7, <1>8

LEMMA SomeBitDiffers ==
  ASSUME NEW b \in Byte, NEW c \in Byte, b # c
  PROVE  \E k \in 1..8 : Bit(b, k) # Bit(c, k)
<1> SUFFICES ASSUME \A k \in 1..8 : Bit(b, k) = Bit(c, k) PROVE FALSE
  OBVIOUS
<1>1. /\ Bit(b, 1) = Bit(c, 1) /\ Bit(b, 2) = Bit(c, 2) /\ Bit(b, 3) = Bit(c, 3)
      /\ Bit(b, 4) = Bit(c, 4) /\ Bit(b, 5) = Bit(c, 5) /\ Bit(b, 6) = Bit(c, 6)
      /\ Bit(b, 7) = Bit(c, 7) /\ Bit(b, 8) = Bit(c, 8)
  OBVIOUS
<1>2. QED
  BY <1>1, ByteOfBits

(* A byte with another bit k changes the parity of bit k. *)
LEMMA ParityGrows ==
  ASSUME NEW p, NEW q, NEW n \in Nat, NEW k \in 1..8, NEW j \in 1..n,
         \A i \in 1..n : i # j => q[i] = p[i], Bit(p[j], k) # 1, Bit(q[j], k) = 1
  PROVE  Parity(q, n, k) # Parity(p, n, k)
<1> DEFINE A == {i \in 1..n : Bit(p[i], k) = 1}
           B == {i \in 1..n : Bit(q[i], k) = 1}
<1>1. B = A \cup {j} /\ j \notin A
  OBVIOUS
<1>2. IsFiniteSet(A)
  <2>1. IsFiniteSet(1..n)
    BY FS_Interval
  <2>2. QED
    BY <2>1, FS_Subset
<1>3. Cardinality(B) = Cardinality(A) + 1 /\ Cardinality(A) \in Nat
  BY <1>1, <1>2, FS_AddElement, FS_CardinalityType
<1>4. Parity(p, n, k) = Cardinality(A) % 2 /\ Parity(q, n, k) = Cardinality(B) % 2
  BY DEF Parity
<1> HIDE DEF A, B
<1>5. QED
  BY <1>3, <1>4

LEMMA DamagedIsUnverified ==
  ASSUME NEW p \in Seq(Byte), NEW j \in 1..Len(p), NEW b \in Byte, b # p[j], Verified(p)
  PROVE  ~Verified([p EXCEPT ![j] = b])
<1> DEFINE q == [p EXCEPT ![j] = b]
           n == Len(p) - 1
<1>1. PICK k \in 1..8 : Bit(b, k) # Bit(p[j], k)
  BY SomeBitDiffers
<1>2. /\ q \in Seq(Byte) /\ Len(q) = Len(p) /\ q[j] = b /\ Len(p) \in Nat /\ Len(p) >= 1
      /\ \A i \in 1..Len(p) : i # j => q[i] = p[i]
  OBVIOUS
<1> HIDE DEF q
<1>3. Parity(p, n, k) = Bit(p[Len(p)], k)
  BY DEF Verified
<1>4. Parity(q, n, k) # Bit(q[Len(p)], k)
  <2>1. CASE j = Len(p)
    <3>1. \A i \in 1..n : q[i] = p[i]
      BY <1>2, <2>1
    <3>2. {i \in 1..n : Bit(q[i], k) = 1} = {i \in 1..n : Bit(p[i], k) = 1}
      BY <3>1
    <3>3. Parity(q, n, k) = Parity(p, n, k)
      BY <3>2 DEF Parity
    <3>4. QED
      BY <1>1, <1>2, <1>3, <2>1, <3>3
  <2>2. CASE j # Len(p)
    <3>1. j \in 1..n /\ n \in Nat /\ \A i \in 1..n : i # j => q[i] = p[i]
      BY <1>2, <2>2
    <3>2. Bit(b, k) \in {0, 1} /\ Bit(p[j], k) \in {0, 1}
      BY BitValue
    <3>3. Parity(q, n, k) # Parity(p, n, k)
      <4>1. CASE Bit(p[j], k) = 0
        <5>1. Bit(p[j], k) # 1 /\ Bit(q[j], k) = 1
          BY <1>1, <1>2, <3>2, <4>1
        <5>2. QED
          BY <3>1, <5>1, ParityGrows
      <4>2. CASE Bit(p[j], k) = 1
        <5>1. Bit(q[j], k) # 1 /\ Bit(p[j], k) = 1
          BY <1>1, <1>2, <3>2, <4>2
        <5>2. \A i \in 1..n : i # j => p[i] = q[i]
          BY <3>1
        <5>3. QED
          BY <3>1, <5>1, <5>2, ParityGrows
      <4>3. QED
        BY <3>2, <4>1, <4>2
    <3>4. q[Len(p)] = p[Len(p)]
      BY <1>2, <2>2
    <3>5. QED
      BY <1>3, <3>3, <3>4
  <2>3. QED
    BY <2>1, <2>2
<1>5. QED
  BY <1>2, <1>4 DEF Verified, q

(* What the parser takes without an error has the checksum of its bytes. *)
LEMMA CleanIsVerified ==
  ASSUME NEW x, Clean(Parse(x))
  PROVE  Verified(x)
BY DEF Clean, Parse, Thrown
-----------------------------------------------------------------------------
(* Pieces of bytes put together.  Induction is over sets of numbers.       *)

LEMMA SetInduction ==
  ASSUME NEW S, 0 \in S, \A n \in Nat : n \in S => n + 1 \in S
  PROVE  Nat \subseteq S
<1> DEFINE T == Nat \ S
           R == OpToRel(<, Nat)
<1> SUFFICES ASSUME T # {} PROVE FALSE
  OBVIOUS
<1>1. PICK x \in T : \A y \in T : ~ (<<y, x>> \in R)
  <2>1. IsWellFoundedOn(R, Nat)
    BY NatLessThanWellFounded
  <2>2. T \subseteq Nat
    OBVIOUS
  <2> HIDE DEF T, R
  <2>3. QED
    BY <2>1, <2>2, WFMin
<1>2. x - 1 \in T /\ x - 1 < x /\ x \in Nat
  OBVIOUS
<1>3. <<x - 1, x>> \in R
  BY <1>2 DEF OpToRel
<1>4. QED
  BY <1>1, <1>2, <1>3

LEMMA SeqElement ==
  ASSUME NEW T, NEW s \in Seq(T), NEW i \in 1..Len(s)
  PROVE  s[i] \in T
OBVIOUS

LEMMA SeqIsFunction ==
  ASSUME NEW T, NEW s \in Seq(T)
  PROVE  s = [i \in 1..Len(s) |-> s[i]]
OBVIOUS

(* The first i pieces put together, as FlattenSeq does it. *)
Flattened(q) ==
  LET flatten[i \in 1..Len(q)] == IF i = 1 THEN q[i] ELSE flatten[i-1] \o q[i]
  IN  flatten
Joined(q, i) == IF i = 0 THEN <<>> ELSE Flattened(q)[i]

LEMMA FlattenedDefined ==
  ASSUME NEW T, NEW q \in Seq(T)
  PROVE  Flattened(q) = [i \in 1..Len(q) |->
                           IF i = 1 THEN q[i] ELSE Flattened(q)[i-1] \o q[i]]
<1> DEFINE Body(f, i) == IF i = 1 THEN q[i] ELSE f[i-1] \o q[i]
           Good == {n \in Nat : \E f : f = [i \in 1..n |-> Body(f, i)]}
<1>1. 0 \in Good
  <2> DEFINE f == [i \in 1..0 |-> <<>>]
  <2>1. f = [i \in 1..0 |-> Body(f, i)]
    OBVIOUS
  <2>2. QED
    BY <2>1
<1>2. ASSUME NEW n \in Nat, n \in Good PROVE n + 1 \in Good
  <2>1. PICK f : f = [i \in 1..n |-> Body(f, i)]
    BY <1>2
  <2> DEFINE g == [i \in 1..n + 1 |-> IF i = n + 1 THEN Body(f, i) ELSE f[i]]
  <2>2. ASSUME NEW i \in 1..n + 1 PROVE g[i] = Body(g, i)
    <3>1. i # 1 => g[i - 1] = f[i - 1]
      OBVIOUS
    <3>2. Body(g, i) = Body(f, i)
      BY <3>1
    <3> HIDE DEF Body
    <3>3. CASE i = n + 1
      BY <3>2, <3>3
    <3>4. CASE i \in 1..n
      <4>1. f[i] = Body(f, i)
        BY <2>1, <3>4
      <4>2. g[i] = f[i]
        BY <3>4
      <4>3. QED
        BY <3>2, <4>1, <4>2
    <3>5. QED
      BY <3>3, <3>4
  <2>3. g = [i \in 1..n + 1 |-> Body(g, i)]
    <3> HIDE DEF Body
    <3>1. QED
      BY <2>2
  <2> HIDE DEF g, Body
  <2>4. QED
    BY <2>3
<1>3. Nat \subseteq Good
  <2> HIDE DEF Good
  <2>1. QED
    BY <1>1, <1>2, SetInduction
<1>4. \E f : f = [i \in 1..Len(q) |-> Body(f, i)]
  <2>1. Len(q) \in Nat
    OBVIOUS
  <2> HIDE DEF Body
  <2>2. Len(q) \in Good
    BY <1>3, <2>1
  <2>3. QED
    BY <2>2
<1>5. QED
  BY <1>4 DEF Flattened

LEMMA ConcatParts ==
  ASSUME NEW T, NEW a \in Seq(T), NEW b \in Seq(T)
  PROVE  /\ a \o b \in Seq(T) /\ Len(a \o b) = Len(a) + Len(b)
         /\ Len(a) \in Nat /\ Len(b) \in Nat
         /\ \A k \in 1..Len(a) : (a \o b)[k] = a[k]
         /\ \A k \in 1..Len(b) : (a \o b)[Len(a) + k] = b[k]
OBVIOUS

LEMMA AppendParts ==
  ASSUME NEW T, NEW a \in Seq(T), NEW e \in T
  PROVE  /\ Append(a, e) \in Seq(T) /\ Len(Append(a, e)) = Len(a) + 1
         /\ \A k \in 1..Len(a) : Append(a, e)[k] = a[k]
OBVIOUS

LEMMA SeqWider ==
  ASSUME NEW S, NEW T, S \subseteq T, NEW s \in Seq(S)
  PROVE  s \in Seq(T)
OBVIOUS

LEMMA BytesAreNumbers ==
  ASSUME NEW s \in Seq(0..255)
  PROVE  s \in Seq(Nat) /\ Len(s) \in Nat
<1> DEFINE B == 0..255
<1>1. B \subseteq Nat /\ s \in Seq(B)
  OBVIOUS
<1> HIDE DEF B
<1>2. QED
  BY <1>1, SeqWider

(* Piece i is at its place in the whole, and the whole is of its pieces. *)
LEMMA JoinedStep ==
  ASSUME NEW T, NEW q \in Seq(Seq(T))
  PROVE  /\ Joined(q, 0) = <<>>
         /\ \A i \in 1..Len(q) : Joined(q, i) = Joined(q, i - 1) \o q[i]
         /\ \A i \in 0..Len(q) : Joined(q, i) \in Seq(T)
<1>1. Joined(q, 0) = <<>>
  BY DEF Joined
<1>2. ASSUME NEW i \in 1..Len(q) PROVE Joined(q, i) = Joined(q, i - 1) \o q[i]
  <2>1. q[i] \in Seq(T) /\ q[i] = <<>> \o q[i]
    OBVIOUS
  <2>2. Flattened(q)[i] = IF i = 1 THEN q[i] ELSE Flattened(q)[i - 1] \o q[i]
    BY FlattenedDefined
  <2>3. i # 0 /\ (i - 1 = 0 <=> i = 1)
    OBVIOUS
  <2>4. CASE i = 1
    BY <2>1, <2>2, <2>4 DEF Joined
  <2>5. CASE i # 1
    BY <2>2, <2>3, <2>5 DEF Joined
  <2>6. QED
    BY <2>4, <2>5
<1> DEFINE Good == {n \in Nat : n <= Len(q) => Joined(q, n) \in Seq(T)}
<1>3. 0 \in Good
  <2>1. <<>> \in Seq(T)
    OBVIOUS
  <2>2. QED
    BY <1>1, <2>1
<1>4. ASSUME NEW n \in Nat, n \in Good PROVE n + 1 \in Good
  <2> SUFFICES ASSUME n + 1 <= Len(q) PROVE Joined(q, n + 1) \in Seq(T)
    OBVIOUS
  <2>1. n + 1 \in 1..Len(q) /\ n <= Len(q) /\ (n + 1) - 1 = n
    OBVIOUS
  <2>2. Joined(q, n) \in Seq(T)
    BY <1>4, <2>1
  <2>3. q[n + 1] \in Seq(T)
    BY <2>1
  <2>4. Joined(q, n + 1) = Joined(q, n) \o q[n + 1]
    BY <1>2, <2>1
  <2>5. QED
    BY <2>2, <2>3, <2>4, ConcatParts
<1>5. Nat \subseteq Good
  <2> HIDE DEF Good
  <2>1. QED
    BY <1>3, <1>4, SetInduction
<1>6. \A i \in 0..Len(q) : Joined(q, i) \in Seq(T)
  <2>1. Len(q) \in Nat
    OBVIOUS
  <2>2. QED
    BY <1>5, <2>1
<1>7. QED
  BY <1>1, <1>2, <1>6

LEMMA FlattenIsJoined ==
  ASSUME NEW T, NEW q \in Seq(Seq(T))
  PROVE  FlattenSeq(q) = Joined(q, Len(q))
<1>1. CASE Len(q) = 0
  <2>1. q = <<>>
    BY <1>1
  <2>2. QED
    BY <1>1, <2>1 DEF FlattenSeq, Joined
<1>2. CASE Len(q) # 0
  BY <1>2 DEF FlattenSeq, Joined, Flattened
<1>3. QED
  BY <1>1, <1>2

(* What is put together stays where it is. *)
LEMMA JoinedGrows ==
  ASSUME NEW T, NEW q \in Seq(Seq(T)), NEW i \in 0..Len(q), NEW d \in Nat, i + d <= Len(q)
  PROVE  /\ Len(Joined(q, i)) <= Len(Joined(q, i + d))
         /\ \A k \in 1..Len(Joined(q, i)) : Joined(q, i + d)[k] = Joined(q, i)[k]
<1> DEFINE J(n) == Joined(q, n)
           Holds(n) == /\ Len(J(i)) <= Len(J(i + n))
                       /\ \A k \in 1..Len(J(i)) : J(i + n)[k] = J(i)[k]
           Good == {n \in Nat : i + n <= Len(q) => Holds(n)}
<1>1. \A n \in 0..Len(q) : J(n) \in Seq(T) /\ Len(J(n)) \in Nat
  <2>1. \A n \in 0..Len(q) : J(n) \in Seq(T)
    BY JoinedStep
  <2> HIDE DEF J
  <2>2. QED
    BY <2>1
<1>2. \A n \in 1..Len(q) : J(n) = J(n - 1) \o q[n]
  BY JoinedStep
<1> HIDE DEF J
<1>3. 0 \in Good
  <2>1. i + 0 = i
    OBVIOUS
  <2>2. QED
    BY <1>1, <2>1
<1>4. ASSUME NEW n \in Nat, n \in Good PROVE n + 1 \in Good
  <2> SUFFICES ASSUME i + (n + 1) <= Len(q) PROVE Holds(n + 1)
    BY DEF Good
  <2>1. /\ i + n \in 0..Len(q) /\ i + (n + 1) \in 1..Len(q)
        /\ (i + (n + 1)) - 1 = i + n /\ i + n <= Len(q)
    OBVIOUS
  <2>2. Holds(n)
    BY <1>4, <2>1 DEF Good
  <2>3. J(i + (n + 1)) = J(i + n) \o q[i + (n + 1)]
    BY <1>2, <2>1
  <2>4. q[i + (n + 1)] \in Seq(T) /\ J(i + n) \in Seq(T)
    BY <1>1, <2>1
  <2>5. /\ Len(J(i + n)) <= Len(J(i + (n + 1)))
        /\ \A k \in 1..Len(J(i + n)) : J(i + (n + 1))[k] = J(i + n)[k]
    <3> DEFINE a == J(i + n)
               b == q[i + (n + 1)]
    <3>1. a \in Seq(T) /\ b \in Seq(T) /\ J(i + (n + 1)) = a \o b
      BY <2>3, <2>4
    <3> HIDE DEF a, b
    <3>2. /\ Len(a) <= Len(a \o b)
          /\ \A k \in 1..Len(a) : (a \o b)[k] = a[k]
      BY <3>1, ConcatParts
    <3>3. QED
      BY <3>1, <3>2 DEF a
  <2>6. Len(J(i)) \in Nat /\ Len(J(i + n)) \in Nat /\ Len(J(i + (n + 1))) \in Nat
    BY <1>1, <2>1
  <2>7. QED
    BY <2>2, <2>5, <2>6
<1>5. Nat \subseteq Good
  <2> HIDE DEF Good
  <2>1. QED
    BY <1>3, <1>4, SetInduction
<1>6. d \in Good
  BY <1>5
<1>7. Holds(d)
  BY <1>6 DEF Good
<1>8. QED
  BY <1>7 DEF J

LEMMA FlattenParts ==
  ASSUME NEW T, NEW q \in Seq(Seq(T))
  PROVE  /\ FlattenSeq(q) \in Seq(T)
         /\ \A i \in 1..Len(q) :
              LET before == Len(Joined(q, i - 1))
              IN  /\ Len(Joined(q, i)) = before + Len(q[i])
                  /\ Len(Joined(q, i)) <= Len(FlattenSeq(q))
                  /\ \A k \in 1..Len(q[i]) : FlattenSeq(q)[before + k] = q[i][k]
<1>1. FlattenSeq(q) = Joined(q, Len(q)) /\ Len(q) \in Nat
  BY FlattenIsJoined
<1>2. \A n \in 0..Len(q) : Joined(q, n) \in Seq(T)
  BY JoinedStep
<1>3. FlattenSeq(q) \in Seq(T)
  BY <1>1, <1>2
<1>4. ASSUME NEW i \in 1..Len(q)
      PROVE  LET before == Len(Joined(q, i - 1))
             IN  /\ Len(Joined(q, i)) = before + Len(q[i])
                 /\ Len(Joined(q, i)) <= Len(FlattenSeq(q))
                 /\ \A k \in 1..Len(q[i]) : FlattenSeq(q)[before + k] = q[i][k]
  <2>1. Joined(q, i) = Joined(q, i - 1) \o q[i]
    BY JoinedStep
  <2>2. Joined(q, i - 1) \in Seq(T) /\ q[i] \in Seq(T) /\ Joined(q, i) \in Seq(T)
    BY <1>2
  <2>3. /\ Len(Joined(q, i)) = Len(Joined(q, i - 1)) + Len(q[i])
        /\ \A k \in 1..Len(q[i]) : Joined(q, i)[Len(Joined(q, i - 1)) + k] = q[i][k]
        /\ Len(Joined(q, i - 1)) \in Nat /\ Len(q[i]) \in Nat
    BY <2>1, <2>2
  <2>4. i \in 0..Len(q) /\ Len(q) - i \in Nat /\ i + (Len(q) - i) = Len(q)
    BY <1>1
  <2> DEFINE d == Len(q) - i
  <2>5. /\ Len(Joined(q, i)) <= Len(Joined(q, Len(q)))
        /\ \A k \in 1..Len(Joined(q, i)) : Joined(q, Len(q))[k] = Joined(q, i)[k]
    <3>1. d \in Nat /\ i + d = Len(q) /\ i + d <= Len(q)
      BY <1>1, <2>4
    <3> HIDE DEF d
    <3>2. /\ Len(Joined(q, i)) <= Len(Joined(q, i + d))
          /\ \A k \in 1..Len(Joined(q, i)) : Joined(q, i + d)[k] = Joined(q, i)[k]
      BY <2>4, <3>1, JoinedGrows
    <3>3. Joined(q, i + d) = Joined(q, Len(q))
      BY <3>1
    <3>4. QED
      BY <3>2, <3>3
  <2>6. ASSUME NEW k \in 1..Len(q[i])
        PROVE  FlattenSeq(q)[Len(Joined(q, i - 1)) + k] = q[i][k]
    <3>1. Len(Joined(q, i - 1)) + k \in 1..Len(Joined(q, i))
      <4> DEFINE a == Len(Joined(q, i - 1))
                 b == Len(q[i])
                 c == Len(Joined(q, i))
      <4>1. a \in Nat /\ b \in Nat /\ c = a + b /\ k \in 1..b
        BY <2>3
      <4> HIDE DEF a, b, c
      <4>2. a + k \in 1..c
        BY <4>1
      <4>3. QED
        BY <4>2 DEF a, c
    <3>2. QED
      BY <1>1, <2>3, <2>5, <3>1
  <2>7. QED
    BY <1>1, <2>3, <2>5, <2>6
<1>5. QED
  BY <1>3, <1>4

LEMMA PieceAt ==
  ASSUME NEW T, NEW q \in Seq(Seq(T)), NEW i \in 1..Len(q), NEW k \in 1..Len(q[i])
  PROVE  FlattenSeq(q)[Len(Joined(q, i - 1)) + k] = q[i][k]
BY FlattenParts

LEMMA FirstAt ==
  ASSUME NEW q \in Seq(Seq(Nat)), NEW i \in 1..Len(q), Len(q[i]) = 1
  PROVE  FlattenSeq(q)[Len(Joined(q, i - 1)) + 1] = q[i][1]
<1> DEFINE T == Nat
<1>1. q \in Seq(Seq(T)) /\ 1 \in 1..Len(q[i])
  OBVIOUS
<1> HIDE DEF T
<1>2. QED
  BY <1>1, PieceAt
-----------------------------------------------------------------------------
(* What toBinary writes, byte by byte. *)
Written(m) == [i \in DOMAIN m.fields |-> WriteField(m.fields[i])]

LEMMA FieldIsBytes ==
  ASSUME NEW field \in Seq(0..255) \X [type : 0..13, data : Seq(0..255)]
  PROVE  /\ field[1] \in Seq(0..255) /\ field[2].type \in 0..13 /\ field[2].data \in Seq(0..255)
         /\ WriteValue(field[2]) \in Seq(Nat) /\ WriteField(field) \in Seq(Nat)
<1>1. field[1] \in Seq(0..255) /\ field[2].type \in 0..13 /\ field[2].data \in Seq(0..255)
  OBVIOUS
<1> DEFINE name == field[1]
           type == field[2].type
           data == field[2].data
<1>2. name \in Seq(Nat) /\ data \in Seq(Nat) /\ type \in Nat
  <2>1. name \in Seq(Nat)
    BY <1>1, BytesAreNumbers
  <2>2. data \in Seq(Nat)
    BY <1>1, BytesAreNumbers
  <2>3. QED
    BY <1>1, <2>1, <2>2
<1>3. Len(name) % 256 \in Nat /\ Len(data) % 256 \in Nat
  <2>1. Len(name) \in Nat /\ Len(data) \in Nat
    BY <1>1, BytesAreNumbers
  <2> HIDE DEF name, data
  <2>2. QED
    BY <2>1
<1> HIDE DEF name, type, data
<1>4. <<Len(name) % 256>> \in Seq(Nat) /\ <<type>> \in Seq(Nat) /\ <<>> \in Seq(Nat)
      /\ <<type, Len(data) % 256>> \in Seq(Nat)
  BY <1>2, <1>3
<1>5. /\ <<type, Len(data) % 256>> \o data \in Seq(Nat) /\ <<type>> \o data \in Seq(Nat)
      /\ <<Len(name) % 256>> \o name \in Seq(Nat)
  BY <1>2, <1>4, ConcatParts
<1>6. WriteValue(field[2]) \in Seq(Nat)
  BY <1>4, <1>5 DEF WriteValue, type, data
<1>7. WriteField(field) = (<<Len(name) % 256>> \o name) \o WriteValue(field[2])
  BY DEF WriteField, name
<1>8. WriteField(field) \in Seq(Nat)
  BY <1>5, <1>6, <1>7, ConcatParts
<1>9. QED
  BY <1>1, <1>6, <1>8

LEMMA MessageParts ==
  ASSUME NEW m, IsMessage(m)
  PROVE  /\ m.type \in 0..255 /\ m.major \in 0..255 /\ m.minor \in 0..255
         /\ m.imei \in Seq(0..255) /\ m.sequence \in Nat /\ IsFieldMap(m.fields)
         /\ m.fields \in Seq(Seq(0..255) \X [type : 0..13, data : Seq(0..255)])
         /\ Written(m) \in Seq(Seq(Nat)) /\ Len(Written(m)) = Len(m.fields)
         /\ \A i \in 1..Len(m.fields) : Written(m)[i] = WriteField(m.fields[i])
<1>1. /\ m.type \in 0..255 /\ m.major \in 0..255 /\ m.minor \in 0..255
      /\ m.imei \in Seq(0..255) /\ m.sequence \in Nat /\ IsFieldMap(m.fields)
  BY DEF IsMessage
<1>2. m.fields \in Seq(Seq(0..255) \X [type : 0..13, data : Seq(0..255)])
  BY DEF IsMessage, Fields
<1>3. Len(m.fields) \in Nat /\ DOMAIN m.fields = 1..Len(m.fields)
  BY <1>2
<1>4. \A i \in 1..Len(m.fields) : WriteField(m.fields[i]) \in Seq(Nat)
  <2>1. \A i \in 1..Len(m.fields) :
          m.fields[i] \in Seq(0..255) \X [type : 0..13, data : Seq(0..255)]
    BY <1>2
  <2>2. QED
    BY <2>1, FieldIsBytes
<1>5. Written(m) = [i \in 1..Len(m.fields) |-> WriteField(m.fields[i])]
  BY <1>3 DEF Written
<1>6. Written(m) \in Seq(Seq(Nat)) /\ Len(Written(m)) = Len(m.fields)
  BY <1>3, <1>4, <1>5
<1>7. QED
  BY <1>1, <1>2, <1>5, <1>6

LEMMA LittleEndianIsFour ==
  ASSUME NEW n \in Nat
  PROVE  LittleEndian(n) \in Seq(Nat) /\ Len(LittleEndian(n)) = 4
<1>1. n % 256 \in Nat /\ (n \div 256) % 256 \in Nat /\ (n \div 65536) % 256 \in Nat
      /\ n \div 16777216 \in Nat
  OBVIOUS
<1>2. QED
  BY <1>1 DEF LittleEndian

HeaderAt(w, m) ==
  w[1] = 170 /\ w[2] = 187 /\ w[3] = m.type /\ w[4] = m.major /\ w[5] = m.minor
ImeiAt(w, imei) == \A i \in 1..15 : w[5 + i] = IF i <= Len(imei) THEN imei[i] ELSE 0
NumberAt(w, number) == \A i \in 1..4 : w[20 + i] = number[i]
FieldsAt(w, F) == \A k \in 1..Len(F) : w[25 + k] = F[k]

LEMMA XorIsNumber == \A bytes : Xor(bytes) \in Nat
<1> TAKE bytes
<1> DEFINE bit(weight) ==
             IF Cardinality({i \in 1..Len(bytes) : (bytes[i] \div weight) % 2 = 1}) % 2 = 1 THEN weight ELSE 0
<1>1. \A weight \in Nat : bit(weight) \in Nat
  OBVIOUS
<1>2. Xor(bytes) = bit(1) + bit(2) + bit(4) + bit(8) + bit(16) + bit(32) + bit(64) + bit(128)
  BY DEF Xor
<1> HIDE DEF bit
<1>3. QED
  BY <1>1, <1>2

LEMMA Layout ==
  ASSUME NEW m, IsMessage(m)
  PROVE  LET w == ToBinary(m)
             F == FlattenSeq(Written(m))
         IN  /\ w \in Seq(Nat) /\ \E T : w \in Seq(T)
             /\ F \in Seq(Nat) /\ Len(w) = 26 + Len(F)
             /\ HeaderAt(w, m) /\ ImeiAt(w, m.imei)
             /\ NumberAt(w, LittleEndian(m.sequence))
             /\ w[25] = Len(m.fields) % 256
             /\ FieldsAt(w, F)
<1> DEFINE F == FlattenSeq(Written(m))
           a == <<170, 187, m.type, m.major, m.minor>>
           imei == [i \in 1..15 |-> IF i <= Len(m.imei) THEN m.imei[i] ELSE 0]
           number == LittleEndian(m.sequence)
           count == <<Len(m.fields) % 256>>
           b == a \o imei
           c == b \o number
           d == c \o count
           body == d \o F
           x == Xor(body)
           w == ToBinary(m)
<1>1. w = Append(body, x)
  BY DEF ToBinary, Written
<1>2. F \in Seq(Nat) /\ Len(F) \in Nat
  <2>1. F \in Seq(Nat)
    BY MessageParts, FlattenParts
  <2> HIDE DEF F
  <2>2. QED
    BY <2>1
<1>3. a \in Seq(Nat) /\ Len(a) = 5
  <2>1. m.type \in 0..255 /\ m.major \in 0..255 /\ m.minor \in 0..255
    BY MessageParts
  <2>2. QED
    BY <2>1
<1>4. imei \in Seq(Nat) /\ Len(imei) = 15
  <2>1. m.imei \in Seq(0..255)
    BY MessageParts
  <2>2. m.imei \in Seq(Nat) /\ Len(m.imei) \in Nat
    BY <2>1, BytesAreNumbers
  <2>3. \A i \in 1..15 : (IF i <= Len(m.imei) THEN m.imei[i] ELSE 0) \in Nat
    BY <2>2
  <2>4. QED
    BY <2>3
<1>5. number \in Seq(Nat) /\ Len(number) = 4
  <2>1. m.sequence \in Nat
    BY MessageParts
  <2>2. QED
    BY <2>1, LittleEndianIsFour
<1>6. count \in Seq(Nat) /\ Len(count) = 1 /\ count[1] = Len(m.fields) % 256
  <2>1. Len(m.fields) \in Nat
    <3>1. m.fields \in Seq(Seq(0..255) \X [type : 0..13, data : Seq(0..255)])
      BY MessageParts
    <3>2. QED
      BY <3>1
  <2> DEFINE n == Len(m.fields)
  <2> HIDE DEF n
  <2>2. n % 256 \in Nat
    <3>1. n \in Nat
      BY <2>1 DEF n
    <3>2. QED
      BY <3>1
  <2>3. <<n % 256>> \in Seq(Nat) /\ Len(<<n % 256>>) = 1 /\ <<n % 256>>[1] = n % 256
    BY <2>2
  <2>4. QED
    BY <2>3 DEF n
<1>7. /\ a[1] = 170 /\ a[2] = 187 /\ a[3] = m.type /\ a[4] = m.major /\ a[5] = m.minor
      /\ \A i \in 1..15 : imei[i] = IF i <= Len(m.imei) THEN m.imei[i] ELSE 0
  OBVIOUS
<1> HIDE DEF F, a, imei, number, count
<1>8. /\ b \in Seq(Nat) /\ Len(b) = 20
      /\ \A k \in 1..5 : b[k] = a[k]
      /\ \A k \in 1..15 : b[5 + k] = imei[k]
  <2>1. b = a \o imei
    OBVIOUS
  <2> HIDE DEF b
  <2>2. a \in Seq(Nat) /\ imei \in Seq(Nat)
    BY <1>3, <1>4
  <2>3. b \in Seq(Nat) /\ Len(b) = Len(a) + Len(imei)
    BY <2>1, <2>2, ConcatParts
  <2>4. \A k \in 1..Len(a) : (a \o imei)[k] = a[k]
    BY <2>2, ConcatParts
  <2>5. \A k \in 1..Len(imei) : (a \o imei)[Len(a) + k] = imei[k]
    BY <2>2, ConcatParts
  <2>6. QED
    <3>1. \A k \in 1..Len(a) : b[k] = a[k]
      BY <2>1, <2>4
    <3>2. \A k \in 1..Len(imei) : b[Len(a) + k] = imei[k]
      BY <2>1, <2>5
    <3>3. Len(a) = 5 /\ Len(imei) = 15
      BY <1>3, <1>4
    <3>4. Len(b) = 20
      BY <2>3, <3>3
    <3>5. \A k \in 1..5 : b[k] = a[k]
      BY <3>1, <3>3
    <3>6. \A k \in 1..15 : b[5 + k] = imei[k]
      BY <3>2, <3>3
    <3>7. QED
      BY <2>3, <3>4, <3>5, <3>6
<1>9. /\ c \in Seq(Nat) /\ Len(c) = 24
      /\ \A k \in 1..20 : c[k] = b[k]
      /\ \A k \in 1..4 : c[20 + k] = number[k]
  <2>1. c = b \o number
    OBVIOUS
  <2> HIDE DEF b, c
  <2>2. b \in Seq(Nat) /\ number \in Seq(Nat)
    BY <1>8, <1>5
  <2>3. c \in Seq(Nat) /\ Len(c) = Len(b) + Len(number)
    BY <2>1, <2>2, ConcatParts
  <2>4. \A k \in 1..Len(b) : (b \o number)[k] = b[k]
    BY <2>2, ConcatParts
  <2>5. \A k \in 1..Len(number) : (b \o number)[Len(b) + k] = number[k]
    BY <2>2, ConcatParts
  <2>6. QED
    <3>1. \A k \in 1..Len(b) : c[k] = b[k]
      BY <2>1, <2>4
    <3>2. \A k \in 1..Len(number) : c[Len(b) + k] = number[k]
      BY <2>1, <2>5
    <3>3. Len(b) = 20 /\ Len(number) = 4
      BY <1>5, <1>8
    <3>4. Len(c) = 24
      BY <2>3, <3>3
    <3>5. \A k \in 1..20 : c[k] = b[k]
      BY <3>1, <3>3
    <3>6. \A k \in 1..4 : c[20 + k] = number[k]
      BY <3>2, <3>3
    <3>7. QED
      BY <2>3, <3>4, <3>5, <3>6
<1>10. /\ d \in Seq(Nat) /\ Len(d) = 25
       /\ \A k \in 1..24 : d[k] = c[k]
       /\ d[25] = count[1]
  <2>1. d = c \o count
    OBVIOUS
  <2> HIDE DEF b, c, d
  <2>2. c \in Seq(Nat) /\ count \in Seq(Nat)
    BY <1>9, <1>6
  <2>3. d \in Seq(Nat) /\ Len(d) = Len(c) + Len(count)
    BY <2>1, <2>2, ConcatParts
  <2>4. \A k \in 1..Len(c) : (c \o count)[k] = c[k]
    BY <2>2, ConcatParts
  <2>5. \A k \in 1..Len(count) : (c \o count)[Len(c) + k] = count[k]
    BY <2>2, ConcatParts
  <2>6. 1 \in 1..Len(count) /\ Len(c) + 1 = 25
    BY <1>6, <1>9
  <2>7. d[25] = count[1]
    BY <2>1, <2>5, <2>6
  <2>8. QED
    <3>1. \A k \in 1..Len(c) : d[k] = c[k]
      BY <2>1, <2>4
    <3>2. Len(c) = 24 /\ Len(count) = 1
      BY <1>6, <1>9
    <3>3. Len(d) = 25
      BY <2>3, <3>2
    <3>4. \A k \in 1..24 : d[k] = c[k]
      BY <3>1, <3>2
    <3>5. QED
      BY <2>3, <2>7, <3>3, <3>4
<1>11. /\ body \in Seq(Nat) /\ Len(body) = 25 + Len(F)
       /\ \A k \in 1..25 : body[k] = d[k]
       /\ \A k \in 1..Len(F) : body[25 + k] = F[k]
  <2>1. body = d \o F
    OBVIOUS
  <2> HIDE DEF b, c, d, body
  <2>2. d \in Seq(Nat) /\ F \in Seq(Nat)
    BY <1>10, <1>2
  <2>3. body \in Seq(Nat) /\ Len(body) = Len(d) + Len(F)
    BY <2>1, <2>2, ConcatParts
  <2>4. \A k \in 1..Len(d) : (d \o F)[k] = d[k]
    BY <2>2, ConcatParts
  <2>5. \A k \in 1..Len(F) : (d \o F)[Len(d) + k] = F[k]
    BY <2>2, ConcatParts
  <2>6. QED
    BY <1>2, <1>10, <2>1, <2>3, <2>4, <2>5
<1>a. x \in Nat
  <2> HIDE DEF body
  <2>1. QED
    BY XorIsNumber
<1> HIDE DEF b, c, d, body, x, w
<1>12. w \in Seq(Nat \cup {x}) /\ Len(w) = 26 + Len(F)
       /\ \A k \in 1..25 + Len(F) : w[k] = body[k]
  <2>1. body \in Seq(Nat \cup {x}) /\ x \in Nat \cup {x}
    BY <1>11, SeqWider
  <2>2. /\ w \in Seq(Nat \cup {x}) /\ Len(w) = Len(body) + 1
        /\ \A k \in 1..Len(body) : w[k] = body[k]
    BY <1>1, <2>1, AppendParts
  <2>3. Len(body) + 1 = 26 + Len(F)
    BY <1>2, <1>11
  <2>4. QED
    BY <1>11, <2>2, <2>3
<1>13. \A k \in 1..25 : w[k] = d[k]
  <2>1. ASSUME NEW k \in 1..25 PROVE w[k] = d[k]
    <3>1. k \in 1..25 + Len(F)
      BY <1>2
    <3>2. QED
      BY <1>11, <1>12, <3>1
  <2>2. QED
    BY <2>1
<1>14. /\ \A k \in 1..24 : w[k] = c[k]
       /\ w[25] = Len(m.fields) % 256
  <2>1. \A k \in 1..24 : w[k] = d[k]
    BY <1>13
  <2>2. w[25] = d[25]
    BY <1>13
  <2>3. QED
    BY <1>6, <1>10, <2>1, <2>2
<1>15. \A k \in 1..20 : w[k] = b[k]
  <2>1. \A k \in 1..20 : k \in 1..24
    OBVIOUS
  <2>2. QED
    BY <1>9, <1>14, <2>1
<1>16. \A i \in 1..4 : w[20 + i] = number[i]
  BY <1>9, <1>14
<1>17. \A i \in 1..15 : w[5 + i] = imei[i]
  BY <1>8, <1>15
<1>18. w[1] = a[1] /\ w[2] = a[2] /\ w[3] = a[3] /\ w[4] = a[4] /\ w[5] = a[5]
  BY <1>8, <1>15
<1>19. FieldsAt(w, F)
  <2>1. ASSUME NEW k \in 1..Len(F) PROVE w[25 + k] = F[k]
    <3>1. 25 + k \in 1..25 + Len(F)
      BY <1>2
    <3>2. QED
      BY <1>11, <1>12, <3>1
  <2>2. QED
    BY <2>1 DEF FieldsAt
<1>20. ImeiAt(w, m.imei)
  <2>1. ASSUME NEW i \in 1..15 PROVE w[5 + i] = IF i <= Len(m.imei) THEN m.imei[i] ELSE 0
    <3>1. w[5 + i] = imei[i]
      BY <1>17
    <3>2. imei[i] = IF i <= Len(m.imei) THEN m.imei[i] ELSE 0
      BY <1>7
    <3>3. QED
      BY <3>1, <3>2
  <2>2. QED
    BY <2>1 DEF ImeiAt
<1>21. NumberAt(w, number)
  BY <1>16 DEF NumberAt
<1>22. HeaderAt(w, m)
  BY <1>7, <1>18 DEF HeaderAt
<1>23. w \in Seq(Nat)
  <2>1. Nat \cup {x} = Nat
    BY <1>a
  <2>2. QED
    BY <1>12, <2>1
<1>24. QED
  BY <1>2, <1>12, <1>14, <1>19, <1>20, <1>21, <1>22, <1>23 DEF w, F, number
-----------------------------------------------------------------------------
(* What the line did to a packet, and what the parser made of it. *)
Changed ==
  \E j \in 1..Len(original), b \in Byte :
    b # original[j] /\ wire = [original EXCEPT ![j] = b]

(* A command or a message is a message written, or a first part of one. *)
CutFrom(short, long) == \E n \in Nat : n < Len(long) /\ short = SubSeq(long, 1, n)

MessageInv ==
  from # "packet" =>
    /\ IsMessage(sent.message) /\ original = ToBinary(sent.message)
    /\ wire = original \/ CutFrom(wire, original)
    /\ from = "command" => sent.type \in 1..7 /\ sent.message.type = MessageTypeOf(sent.type)

LineInv ==
  /\ damage = "none" => wire = original
  /\ from = "packet" /\ damage = "byte" => Changed
  /\ stage = "parsed" => got = Parse(wire) /\ from # "message"
  /\ stage = "decoded" => got = FromBinary(wire) /\ from # "packet"
  /\ stage = "idle" => damage = "none" /\ from = "packet"

WireInv == TypeOK /\ LineInv /\ MessageInv

LEMMA InitWireInv == Init => WireInv
<1>1. << >> \in Seq(Byte)
  OBVIOUS
<1>2. Init => TypeOK
  BY <1>1 DEF Init, TypeOK
<1>3. Init => LineInv /\ MessageInv
  BY DEF Init, LineInv, MessageInv
<1>4. QED
  BY <1>2, <1>3 DEF WireInv

LEMMA CommandTypesAreVersions == \A type \in 1..7 : MessageTypeOf(type) \in 5..8
BY DEF MessageTypeOf

LEMMA BuiltIsMessage ==
  ASSUME NEW builder \in Builders, NEW f \in Fields, IsFieldMap(f), Build(builder).fields = f
  PROVE  IsMessage(Build(builder))
<1> DEFINE m == Build(builder)
           g == Build(builder).fields
<1>1. /\ builder.type \in 1..7
      /\ builder.imei \in Seq(0..255) /\ builder.sequence \in Nat
  BY WireAssumption DEF Byte
<1>2. MessageTypeOf(builder.type) \in 5..8
  BY <1>1, CommandTypesAreVersions
<1>3. m = [type |-> MessageTypeOf(builder.type), major |-> 1, minor |-> 0, imei |-> builder.imei,
           sequence |-> builder.sequence, fields |-> g]
  BY DEF Build
<1>4. g = f
  OBVIOUS
<1> HIDE DEF m, g
<1>5. m.fields = f
  BY <1>3, <1>4
<1>6. m \in [type : 0..255, major : 0..255, minor : 0..255, imei : Seq(0..255),
             sequence : Nat, fields : Fields]
  <2>1. MessageTypeOf(builder.type) \in 0..255
    BY <1>2
  <2>2. QED
    BY <1>1, <1>3, <1>4, <2>1
<1>7. QED
  BY <1>5, <1>6 DEF IsMessage, m

(* The type of the command is one more field. *)
LEMMA BuildIsMessage ==
  ASSUME NEW builder \in Builders
  PROVE  IsMessage(Build(builder))
<1> DEFINE P == builder.parameters
           value == [type |-> UInt32, data |-> LittleEndian(builder.type)]
           first == <<CommandTypeName, value>>
           Pair == Seq(0..255) \X [type : 0..13, data : Seq(0..255)]
           m == Build(builder)
<1>1. /\ CommandTypeName \in Seq(0..255) /\ builder.type \in 1..7
      /\ builder.imei \in Seq(0..255) /\ builder.sequence \in Nat /\ IsFieldMap(P)
  BY WireAssumption DEF Byte
<1>2. P \in Seq(Pair) /\ Len(P) \in Nat /\ DOMAIN P = 1..Len(P)
  BY <1>1 DEF IsFieldMap, Fields
<1>3. value \in [type : 0..13, data : Seq(0..255)] /\ IsValue(value)
  <2> DEFINE n == builder.type
  <2>1. n \in 1..7
    BY <1>1
  <2> HIDE DEF n
  <2>2. n % 256 \in 0..255 /\ (n \div 256) % 256 \in 0..255 /\ (n \div 65536) % 256 \in 0..255
        /\ n \div 16777216 = 0
    BY <2>1
  <2>3. LittleEndian(n) \in Seq(0..255) /\ Len(LittleEndian(n)) = 4
    BY <2>2 DEF LittleEndian
  <2>4. value = [type |-> 7, data |-> LittleEndian(n)]
    BY DEF n, UInt32
  <2>5. value.type = 7 /\ value.data = LittleEndian(n)
    BY <2>4
  <2>6. value \in [type : 0..13, data : Seq(0..255)]
    BY <2>3, <2>4
  <2> HIDE DEF value
  <2>7. IsValue(value)
    <3>1. Width[7 + 1] = 4
      BY DEF Width
    <3>2. QED
      BY <2>3, <2>5, <3>1 DEF IsValue, Bool
  <2>8. QED
    BY <2>6, <2>7
<1>4. first \in Pair /\ first[1] = CommandTypeName /\ first[2] = value
  BY <1>1, <1>3
<1> HIDE DEF value, first, Pair
<1>5. CASE \E i \in DOMAIN P : P[i][1] = CommandTypeName
  <2>1. m.fields = <<>> \o P
    BY <1>5 DEF Build
  <2>2. m.fields = P
    BY <1>2, <2>1
  <2>3. P \in Fields
    BY <1>1 DEF IsFieldMap
  <2>4. QED
    BY <1>1, <2>2, <2>3, BuiltIsMessage
<1>6. CASE ~ \E i \in DOMAIN P : P[i][1] = CommandTypeName
  <2> DEFINE f == <<first>> \o P
  <2>1. m.fields = f
    BY <1>6 DEF Build, first, value
  <2>2. f \in Seq(Pair) /\ Len(f) = Len(P) + 1 /\ f[1] = first
        /\ \A i \in 1..Len(P) : f[1 + i] = P[i]
    <3>1. <<first>> \in Seq(Pair) /\ Len(<<first>>) = 1 /\ <<first>>[1] = first
      BY <1>4
    <3>2. QED
      BY <1>2, <3>1
  <2> HIDE DEF f
  <2>3. DOMAIN f = 1..Len(P) + 1
    BY <1>2, <2>2
  <2>4. \A i \in DOMAIN f : i # 1 => i - 1 \in DOMAIN P /\ f[i] = P[i - 1]
    <3>1. ASSUME NEW i \in DOMAIN f, i # 1 PROVE i - 1 \in DOMAIN P /\ f[i] = P[i - 1]
      <4>1. i - 1 \in 1..Len(P) /\ 1 + (i - 1) = i
        BY <1>2, <2>3, <3>1
      <4>2. QED
        BY <1>2, <2>2, <4>1
    <3>2. QED
      BY <3>1
  <2>5. \A i \in DOMAIN f : IsValue(f[i][2])
    <3>1. \A i \in DOMAIN P : IsValue(P[i][2])
      BY <1>1 DEF IsFieldMap
    <3>2. QED
      BY <1>3, <1>4, <2>2, <2>4, <3>1
  <2>6. ASSUME NEW i \in DOMAIN f, NEW j \in DOMAIN f, f[i][1] = f[j][1] PROVE i = j
    <3>1. \A a, b \in DOMAIN P : P[a][1] = P[b][1] => a = b
      BY <1>1 DEF IsFieldMap
    <3>2. CASE i # 1 /\ j # 1
      <4>1. i - 1 = j - 1
        BY <2>4, <2>6, <3>1, <3>2
      <4>2. QED
        BY <1>2, <2>3, <4>1
    <3>3. CASE i = 1 /\ j # 1
      BY <1>4, <1>6, <2>2, <2>4, <2>6, <3>3
    <3>4. CASE i # 1 /\ j = 1
      BY <1>4, <1>6, <2>2, <2>4, <2>6, <3>4
    <3>5. QED
      BY <3>2, <3>3, <3>4
  <2>7. f \in Fields
    BY <2>2 DEF Fields, Pair
  <2>8. IsFieldMap(f)
    BY <2>5, <2>6, <2>7 DEF IsFieldMap
  <2>9. QED
    BY <2>1, <2>7, <2>8, BuiltIsMessage
<1>7. QED
  BY <1>5, <1>6

(* A map in another order is the same map. *)
LEMMA OrdersAreMessages ==
  ASSUME NEW m, IsMessage(m), NEW o \in Orders(m)
  PROVE  IsMessage(o) /\ o.type = m.type
<1>1. PICK f \in [DOMAIN m.fields -> DOMAIN m.fields] :
        /\ \A i, j \in DOMAIN m.fields : f[i] = f[j] => i = j
        /\ o = [m EXCEPT !.fields = [i \in DOMAIN m.fields |-> m.fields[f[i]]]]
  BY DEF Orders
<1> DEFINE g == [i \in DOMAIN m.fields |-> m.fields[f[i]]]
           Pair == Seq(0..255) \X [type : 0..13, data : Seq(0..255)]
<1>2. m.fields \in Seq(Pair) /\ IsFieldMap(m.fields)
  BY DEF IsMessage, Fields
<1> HIDE DEF Pair
<1>3. Len(m.fields) \in Nat /\ DOMAIN m.fields = 1..Len(m.fields)
      /\ \A i \in DOMAIN m.fields : m.fields[i] \in Pair
  BY <1>2
<1>4. g \in Seq(Pair) /\ DOMAIN g = DOMAIN m.fields
  BY <1>1, <1>3
<1>5. g \in Fields
  BY <1>4 DEF Fields, Pair
<1>6. \A i \in DOMAIN g : g[i] = m.fields[f[i]] /\ f[i] \in DOMAIN m.fields
  BY <1>1
<1> HIDE DEF g
<1>7. IsFieldMap(g)
  <2>1. \A i \in DOMAIN g : IsValue(g[i][2])
    BY <1>2, <1>6 DEF IsFieldMap
  <2>2. ASSUME NEW i \in DOMAIN g, NEW j \in DOMAIN g, g[i][1] = g[j][1] PROVE i = j
    BY <1>1, <1>2, <1>4, <1>6, <2>2 DEF IsFieldMap
  <2>3. QED
    BY <1>5, <2>1, <2>2 DEF IsFieldMap
<1>8. o = [m EXCEPT !.fields = g]
  BY <1>1 DEF g
<1>9. QED
  BY <1>5, <1>7, <1>8 DEF IsMessage

LEMMA LaunchKeeps ==
  ASSUME WireInv, NEW kind \in {"packet", "command", "message"}, NEW message, NEW bytes,
         kind = "packet" => bytes \in Seq(Byte),
         kind # "packet" => IsMessage(message.message) /\ bytes = ToBinary(message.message),
         kind = "command" => message.type \in 1..7
                             /\ message.message.type = MessageTypeOf(message.type),
         Launch(kind, message, bytes)
  PROVE  WireInv'
<1>1. TypeOK'
  BY DEF Launch, WireInv, TypeOK
<1>2. LineInv' /\ MessageInv'
  BY DEF Launch, LineInv, MessageInv
<1>3. QED
  BY <1>1, <1>2 DEF WireInv

LEMMA DamageByteKeeps == ASSUME WireInv, DamageByte PROVE WireInv'
<1>1. PICK i \in 1..Len(wire), b \in Damage : b # wire[i] /\ wire' = [wire EXCEPT ![i] = b]
  BY DEF DamageByte
<1>2. wire = original /\ wire \in Seq(Byte) /\ b \in Byte
  BY WireAssumption DEF DamageByte, WireInv, TypeOK, LineInv
<1>3. wire' \in Seq(Byte)
  BY <1>1, <1>2
<1>4. TypeOK'
  BY <1>3 DEF DamageByte, WireInv, TypeOK
<1>5. Changed'
  BY <1>1, <1>2 DEF DamageByte, Changed
<1>6. LineInv'
  BY <1>5 DEF DamageByte, LineInv
<1>7. MessageInv'
  BY DEF DamageByte, MessageInv
<1>8. QED
  BY <1>4, <1>6, <1>7 DEF WireInv

LEMMA CutKeeps == ASSUME WireInv, Cut PROVE WireInv'
<1>1. PICK n \in Cuts : n < Len(wire) /\ wire' = SubSeq(wire, 1, n)
  BY DEF Cut
<1>2. from = "packet" => wire' \in Seq(Byte)
  <2>1. SUFFICES ASSUME from = "packet" PROVE SubSeq(wire, 1, n) \in Seq(Byte)
    BY <1>1
  <2>2. wire \in Seq(Byte) /\ n \in Nat
    BY <2>1, WireAssumption DEF WireInv, TypeOK
  <2>3. QED
    BY <1>1, <2>2
<1>3. TypeOK'
  BY <1>2 DEF Cut, WireInv, TypeOK
<1>4. LineInv'
  BY DEF Cut, WireInv, LineInv
<1>5. MessageInv'
  <2>1. wire = original /\ n \in Nat
    BY WireAssumption DEF Cut, WireInv, LineInv
  <2>2. CutFrom(wire, original)'
    BY <1>1, <2>1 DEF Cut, CutFrom
  <2>3. QED
    BY <2>2 DEF Cut, WireInv, MessageInv
<1>6. QED
  BY <1>3, <1>4, <1>5 DEF WireInv

LEMMA NextWireInv == WireInv /\ [Next]_vars => WireInv'
<1> SUFFICES ASSUME WireInv, [Next]_vars PROVE WireInv'
  OBVIOUS
<1>1. CASE SendPacket
  BY <1>1, LaunchKeeps, WireAssumption DEF SendPacket
<1>2. CASE SendCommand
  <2>a. PICK b \in Builders : \E m \in Orders(Build(b)) :
          Launch("command", [type |-> b.type, message |-> m],
                 ToBinary(m))
    BY <1>2 DEF SendCommand
  <2>1. PICK m \in Orders(Build(b)) :
          Launch("command", [type |-> b.type, message |-> m],
                 ToBinary(m))
    BY <2>a
  <2>2. IsMessage(m) /\ b.type \in 1..7 /\ m.type = MessageTypeOf(b.type)
    <3>1. Build(b).type = MessageTypeOf(b.type)
      BY DEF Build
    <3>2. QED
      BY <3>1, BuildIsMessage, OrdersAreMessages, WireAssumption
  <2> DEFINE s == [type |-> b.type, message |-> m]
  <2>3. s.message = m /\ s.type = b.type
    OBVIOUS
  <2> HIDE DEF s
  <2>4. Launch("command", s, ToBinary(m))
    BY <2>1 DEF s
  <2>5. QED
    BY <2>2, <2>3, <2>4, LaunchKeeps
<1>3. CASE SendMessage
  <2>a. PICK m \in Messages : \E o \in Orders(m) : Launch("message", [message |-> o], ToBinary(o))
    BY <1>3 DEF SendMessage
  <2>1. PICK o \in Orders(m) : Launch("message", [message |-> o], ToBinary(o))
    BY <2>a
  <2>2. IsMessage(o)
    BY WireAssumption, OrdersAreMessages
  <2> DEFINE s == [message |-> o]
  <2>3. s.message = o
    OBVIOUS
  <2> HIDE DEF s
  <2>4. Launch("message", s, ToBinary(o))
    BY <2>1 DEF s
  <2>5. QED
    BY <2>2, <2>3, <2>4, LaunchKeeps
<1>4. CASE DamageByte
  BY <1>4, DamageByteKeeps
<1>5. CASE Cut
  BY <1>5, CutKeeps
<1>6. CASE ParseWire
  <2>1. TypeOK'
    <3>1. lastError' \in BOOLEAN
      BY <1>6 DEF ParseWire, WireInv, TypeOK, Parse, Thrown
    <3>2. QED
      BY <1>6, <3>1 DEF ParseWire, WireInv, TypeOK
  <2>2. LineInv'
    BY <1>6 DEF ParseWire, WireInv, LineInv, Changed
  <2>3. MessageInv'
    BY <1>6 DEF ParseWire, WireInv, MessageInv
  <2>4. QED
    BY <2>1, <2>2, <2>3 DEF WireInv
<1>7. CASE DecodeWire
  BY <1>7 DEF DecodeWire, WireInv, TypeOK, LineInv, Changed, MessageInv
<1>8. CASE Finish
  <2>1. <<>> \in Seq(Byte)
    OBVIOUS
  <2>2. QED
    BY <1>8, <2>1 DEF Finish, WireInv, TypeOK, LineInv, Changed, MessageInv
<1>9. CASE UNCHANGED vars
  BY <1>9 DEF vars, WireInv, TypeOK, LineInv, Changed, MessageInv
<1>10. QED
  BY <1>1, <1>2, <1>3, <1>4, <1>5, <1>6, <1>7, <1>8, <1>9 DEF Next

LEMMA Invariance == Spec => []WireInv
BY InitWireInv, NextWireInv, PTL DEF Spec

(* The line carries packets of bytes, and the parser's error is a flag. *)
THEOREM TypeCorrect == Spec => []TypeOK
<1>1. WireInv => TypeOK
  BY DEF WireInv
<1>2. QED
  BY <1>1, Invariance, PTL

(* One changed byte of a packet that the parser took without an error, of   *)
(* any length, at any place and to any other value, is never taken so.      *)
THEOREM DamageShowsHolds == Spec => []DamageShows
<1>1. WireInv => DamageShows
  <2> SUFFICES ASSUME WireInv, stage = "parsed", from = "packet", damage = "byte",
                      Clean(Parse(original))
               PROVE  ~Clean(got)
    BY DEF DamageShows
  <2>1. original \in Seq(Byte) /\ got = Parse(wire)
    BY DEF WireInv, TypeOK, LineInv
  <2>2. PICK j \in 1..Len(original), b \in Byte :
               b # original[j] /\ wire = [original EXCEPT ![j] = b]
    BY DEF WireInv, LineInv, Changed
  <2>3. ~Verified(wire)
    BY <2>1, <2>2, CleanIsVerified, DamagedIsUnverified
  <2>4. QED
    BY <2>1, <2>3, CleanIsVerified
<1>2. QED
  BY <1>1, Invariance, PTL
-----------------------------------------------------------------------------
(* What is behind a message that the parser has no complaint about. *)
Payload(p) ==
  ParsePayload(SubSeq(p, HEADER_SIZE + 1, Len(p) - CHECKSUM_SIZE), ParseHeader(p).type)

LEMMA CleanParts ==
  ASSUME NEW p, Clean(Parse(p))
  PROVE  /\ ~(Len(p) < 25)
         /\ Parse(p).header = ParseHeader(p) /\ Parse(p).fields = Payload(p).fields
         /\ HeaderErrors(ParseHeader(p)) = {} /\ Payload(p).errors = {}
<1> DEFINE h == ParseHeader(p)
           body == Payload(p)
           sum == IF Verified(p) THEN {} ELSE {"checksum"}
<1>1. ~(Len(p) < 25 \/ p[1] # 170 \/ p[2] # 187)
  BY DEF Clean, Parse, Thrown, MINIMUM_PACKET_SIZE
<1>2. Parse(p) = [thrown |-> FALSE, header |-> h, fields |-> body.fields,
                  errors |-> HeaderErrors(h) \cup body.errors \cup sum]
  BY <1>1 DEF Parse, MINIMUM_PACKET_SIZE, Payload
<1> HIDE DEF h, body, sum
<1>3. HeaderErrors(h) \cup body.errors \cup sum = {}
  BY <1>2 DEF Clean
<1>4. Parse(p).header = h /\ Parse(p).fields = body.fields
  BY <1>2
<1>5. QED
  BY <1>1, <1>3, <1>4 DEF h, body

LEMMA HeaderParts ==
  ASSUME NEW p
  PROVE  /\ ParseHeader(p).major = p[3] /\ ParseHeader(p).minor = p[4]
         /\ ParseHeader(p).type = p[5]
BY DEF ParseHeader

(* The fields that are required are read, or the payload is refused. *)
LEMMA ReadDomain == ASSUME NEW data, NEW layout
                    PROVE  DOMAIN Read(data, layout) = {f.name : f \in layout}
BY DEF Read

LEMMA RequiredIsThere ==
  ASSUME NEW data, NEW type, ParsePayload(data, type).errors = {}
  PROVE  Required(type) \subseteq DOMAIN ParsePayload(data, type).fields
<1>1. CASE type = 1
  <2> DEFINE layout == {At("latitude", 0, 4, TRUE), At("longitude", 4, 4, TRUE),
                        At("altitude", 8, 2, TRUE), At("speed", 10, 2, FALSE),
                        At("heading", 12, 2, FALSE), At("satellites", 14, 1, FALSE),
                        At("hdop", 15, 2, FALSE), At("fix_type", 17, 1, FALSE),
                        At("gps_timestamp", 18, 4, TRUE)}
             fields == Read(data, layout)
  <2>1. ParsePayload(data, type) = ParseGPSUpdate(data)
    BY <1>1 DEF ParsePayload
  <2>2. ~(Len(data) < 32)
    BY <2>1 DEF ParseGPSUpdate, Refused
  <2>3. ParseGPSUpdate(data) = [fields |-> fields, errors |-> {}]
    BY <2>2 DEF ParseGPSUpdate, Taken
  <2>4. At("latitude", 0, 4, TRUE).name = "latitude" /\ At("longitude", 4, 4, TRUE).name = "longitude"
    BY DEF At
  <2>5. At("latitude", 0, 4, TRUE) \in layout /\ At("longitude", 4, 4, TRUE) \in layout
    OBVIOUS
  <2> HIDE DEF layout
  <2>6. DOMAIN fields = {f.name : f \in layout}
    BY ReadDomain
  <2>7. "latitude" \in DOMAIN fields /\ "longitude" \in DOMAIN fields
    BY <2>4, <2>5, <2>6
  <2> HIDE DEF fields
  <2>8. Required(type) = {"latitude", "longitude"}
    BY <1>1 DEF Required
  <2>9. QED
    BY <2>1, <2>3, <2>7, <2>8
<1>2. CASE type = 3
  <2> DEFINE length == data[2]
             fits == 2 + length <= Len(data)
             next == IF fits THEN 2 + length ELSE 2
             layout == {At("event_type", 0, 1, FALSE)}
             typed == Read(data, layout)
             full == IF fits THEN With(typed, "event_data", SubSeq(data, 3, 2 + length)) ELSE typed
             time == Signed(SubSeq(data, next + 1, next + 4))
             fields == IF next + 4 > Len(data) THEN full ELSE With(full, "event_timestamp", time)
  <2>1. ParsePayload(data, type) = ParseEventNotification(data)
    BY <1>2 DEF ParsePayload
  <2>2. ~(Len(data) < 2)
    BY <2>1 DEF ParseEventNotification, Refused
  <2>3. ParseEventNotification(data) = [fields |-> fields, errors |-> {}]
    BY <2>2 DEF ParseEventNotification, Taken
  <2>4. "event_type" \in DOMAIN typed
    <3>1. At("event_type", 0, 1, FALSE) \in layout /\ At("event_type", 0, 1, FALSE).name = "event_type"
      BY DEF At
    <3> HIDE DEF layout
    <3>2. QED
      BY <3>1, ReadDomain
  <2> HIDE DEF typed, fits, length
  <2>5. "event_type" \in DOMAIN full
    BY <2>4 DEF With
  <2> HIDE DEF full, time, next
  <2>6. "event_type" \in DOMAIN fields
    BY <2>5 DEF With
  <2> HIDE DEF fields
  <2>7. Required(type) = {"event_type"}
    BY <1>2 DEF Required
  <2>8. QED
    BY <2>1, <2>3, <2>6, <2>7
<1>3. CASE type = 4
  <2> DEFINE layout == {At("original_sequence", 0, 4, TRUE), At("result_code", 4, 1, FALSE)}
             plain == Read(data, layout)
             length == data[6]
             text == SubSeq(data, 7, 6 + length)
             fields == IF 6 + length <= Len(data) /\ length > 0
                         THEN With(plain, "error_message", text) ELSE plain
  <2>1. ParsePayload(data, type) = ParseCommandAck(data)
    BY <1>3 DEF ParsePayload
  <2>2. ~(Len(data) < 6)
    BY <2>1 DEF ParseCommandAck, Refused
  <2>3. ParseCommandAck(data) = [fields |-> fields, errors |-> {}]
    BY <2>2 DEF ParseCommandAck, Taken
  <2>4. "original_sequence" \in DOMAIN plain /\ "result_code" \in DOMAIN plain
    <3>1. /\ At("original_sequence", 0, 4, TRUE) \in layout /\ At("result_code", 4, 1, FALSE) \in layout
          /\ At("original_sequence", 0, 4, TRUE).name = "original_sequence"
          /\ At("result_code", 4, 1, FALSE).name = "result_code"
      BY DEF At
    <3> HIDE DEF layout
    <3>2. DOMAIN plain = {f.name : f \in layout}
      BY ReadDomain
    <3>3. QED
      BY <3>1, <3>2
  <2> HIDE DEF plain, length, text
  <2>5. "original_sequence" \in DOMAIN fields /\ "result_code" \in DOMAIN fields
    BY <2>4 DEF With
  <2> HIDE DEF fields
  <2>6. Required(type) = {"original_sequence", "result_code"}
    BY <1>3 DEF Required
  <2>7. QED
    BY <2>1, <2>3, <2>5, <2>6
<1>4. CASE type \notin {1, 3, 4}
  BY <1>4 DEF Required
<1>5. QED
  BY <1>1, <1>2, <1>3, <1>4

LEMMA CleanIsValid ==
  ASSUME NEW p, p[3] \in Nat, p[4] \in Nat, p[5] \in Nat, Clean(Parse(p)),
         NEW complaint \in ValidateMessage(Parse(p))
  PROVE  \/ complaint[2] \in {"value", "strict"}
         \/ complaint = <<"version", "support">>
              /\ (Parse(p).header.major = 0
                  \/ (Parse(p).header.major = 1 /\ Parse(p).header.minor > 1))
<1> DEFINE h == ParseHeader(p)
           fields == Parse(p).fields
           body == SubSeq(p, HEADER_SIZE + 1, Len(p) - CHECKSUM_SIZE)
<1>1. /\ Parse(p).header = h /\ fields = ParsePayload(body, h.type).fields
      /\ HeaderErrors(h) = {} /\ ParsePayload(body, h.type).errors = {}
  BY CleanParts DEF Payload
<1>2. h.major \in Nat /\ h.minor \in Nat /\ h.type \in Nat
  BY HeaderParts
<1> HIDE DEF h, body
<1>3. Required(h.type) \subseteq DOMAIN fields
  BY <1>1, RequiredIsThere
<1> HIDE DEF fields
<1>4. /\ ~(h.major > 2 \/ (h.major = 2 /\ h.minor > 0))
      /\ ~(h.type = 0 \/ h.type > 10)
      /\ ~(Len(h.imei) # 15)
  <2>1. \A e \in {"version", "messageType", "imei"} :
          ~ (\/ e = "version" /\ (h.major > 2 \/ (h.major = 2 /\ h.minor > 0))
             \/ e = "messageType" /\ (h.type = 0 \/ h.type > 10)
             \/ e = "imei" /\ Len(h.imei) # 15)
    BY <1>1 DEF HeaderErrors
  <2>2. QED
    BY <2>1
<1>5. CASE complaint \in ValidateHeader(h)
  <2>1. \/ complaint[1] = "imei" /\ Len(h.imei) # 15
        \/ complaint[1] = "messageType" /\ h.type \notin 1..10
        \/ complaint[1] = "version" /\ ~(h.major = 1 /\ h.minor <= 1) /\ ~(h.major = 2 /\ h.minor = 0)
    BY <1>5 DEF ValidateHeader
  <2>2. complaint \in {<<"imei", "format">>, <<"messageType", "range">>, <<"version", "support">>}
    BY <1>5 DEF ValidateHeader
  <2>3. complaint[1] = "version"
    BY <1>2, <1>4, <2>1
  <2>4. complaint = <<"version", "support">>
    BY <2>2, <2>3
  <2>5. ~(h.major = 1 /\ h.minor <= 1) /\ ~(h.major = 2 /\ h.minor = 0)
    BY <2>1, <2>3
  <2>6. h.major = 0 \/ (h.major = 1 /\ h.minor > 1)
    BY <1>2, <1>4, <2>5
  <2>7. QED
    BY <1>1, <2>4, <2>6
<1>6. CASE complaint \in ValidateFields(h.type, fields)
  BY <1>3, <1>6 DEF ValidateFields
<1>7. complaint \in ValidateHeader(h) \cup ValidateFields(h.type, fields)
  BY <1>1 DEF ValidateMessage, fields
<1>8. QED
  BY <1>5, <1>6, <1>7

LEMMA WireIsNumbers ==
  ASSUME WireInv, from # "message", ~(Len(wire) < 25)
  PROVE  /\ wire[3] \in Nat /\ wire[4] \in Nat /\ wire[5] \in Nat
         /\ from = "command" => wire[3] > 2
<1>1. CASE from = "packet"
  <2>1. wire \in Seq(Byte)
    BY <1>1 DEF WireInv, TypeOK
  <2>2. wire \in Seq(Nat) /\ Len(wire) \in Nat
    BY <2>1, BytesAreNumbers DEF Byte
  <2>3. Len(wire) >= 25
    BY <2>2
  <2>4. QED
    BY <1>1, <2>2, <2>3
<1>2. CASE from = "command"
  <2> DEFINE m == sent.message
  <2>1. /\ IsMessage(m) /\ original = ToBinary(m) /\ m.type \in 5..8
        /\ wire = original \/ CutFrom(wire, original)
    BY <1>2, CommandTypesAreVersions DEF WireInv, MessageInv
  <2> HIDE DEF m
  <2>2. /\ \E T : original \in Seq(T)
        /\ original[3] = m.type /\ original[4] = m.major /\ original[5] = m.minor
    BY <2>1, Layout DEF HeaderAt
  <2>3. wire[3] = original[3] /\ wire[4] = original[4] /\ wire[5] = original[5]
    <3>1. CASE CutFrom(wire, original)
      <4>1. PICK T : original \in Seq(T)
        BY <2>2
      <4>2. PICK n \in Nat : n < Len(original) /\ wire = SubSeq(original, 1, n)
        BY <3>1 DEF CutFrom
      <4>3. /\ Len(SubSeq(original, 1, n)) = n
            /\ \A i \in 1..n : SubSeq(original, 1, n)[i] = original[i]
        BY <4>1, <4>2
      <4>4. n >= 25
        BY <4>2, <4>3
      <4>5. QED
        BY <4>2, <4>3, <4>4
    <3>2. QED
      BY <2>1, <3>1
  <2>4. m.major \in 0..255 /\ m.minor \in 0..255
    BY <2>1, MessageParts
  <2>5. wire[3] \in 5..8 /\ wire[4] \in 0..255 /\ wire[5] \in 0..255
    BY <2>1, <2>2, <2>3, <2>4
  <2>6. \A v \in 5..8 : v \in Nat /\ v > 2
    OBVIOUS
  <2>7. \A v \in 0..255 : v \in Nat
    OBVIOUS
  <2>8. QED
    BY <2>5, <2>6, <2>7
<1>3. from \in {"packet", "command", "message"}
  BY DEF WireInv, TypeOK
<1>4. QED
  BY <1>1, <1>2, <1>3

(* A message without an error has every field that the validator asks for,  *)
(* an IMEI of 15 digits and a known type, whatever the devices send and     *)
(* whatever the line makes of it.                                           *)
THEOREM CleanIsCompleteHolds == Spec => []CleanIsComplete
<1>1. WireInv => CleanIsComplete
  <2> SUFFICES ASSUME WireInv, stage = "parsed", Clean(got),
                      NEW complaint \in ValidateMessage(got)
               PROVE  \/ complaint[2] \in {"value", "strict"}
                      \/ complaint = <<"version", "support">>
                           /\ (got.header.major = 0
                               \/ (got.header.major = 1 /\ got.header.minor > 1))
    BY DEF CleanIsComplete
  <2>1. got = Parse(wire) /\ from # "message"
    BY DEF WireInv, LineInv
  <2>2. ~(Len(wire) < 25)
    BY <2>1, CleanParts
  <2>3. wire[3] \in Nat /\ wire[4] \in Nat /\ wire[5] \in Nat
    BY <2>1, <2>2, WireIsNumbers
  <2>4. QED
    BY <2>1, <2>3, CleanIsValid
<1>2. QED
  BY <1>1, Invariance, PTL

(* The third byte of a command is its type, and a type of command, 5 to 8,  *)
(* is no version of a device: whatever command is built, with whatever      *)
(* parameters, the parser has something to say about it.                    *)
THEOREM EchoShowsHolds == Spec => []EchoShows
<1>1. WireInv => EchoShows
  <2> SUFFICES ASSUME WireInv, stage = "parsed", from = "command", Clean(got)
               PROVE  FALSE
    BY DEF EchoShows
  <2>1. got = Parse(wire)
    BY DEF WireInv, LineInv
  <2>2. ~(Len(wire) < 25) /\ HeaderErrors(ParseHeader(wire)) = {}
    BY <2>1, CleanParts
  <2>3. wire[3] \in Nat /\ wire[3] > 2
    BY <2>2, WireIsNumbers
  <2>4. ParseHeader(wire).major > 2
    BY <2>3, HeaderParts
  <2>5. "version" \in HeaderErrors(ParseHeader(wire))
    BY <2>4 DEF HeaderErrors
  <2>6. QED
    BY <2>2, <2>5
<1>2. QED
  BY <1>1, Invariance, PTL
-----------------------------------------------------------------------------
(* fromBinary reads a field as it was written, when it can. *)
IsKept(value) == value.type \in {Bool, Int8, UInt8, Float, Text} /\ Len(value.data) < 256

(* A piece of the bytes, where it is. *)
LEMMA PieceIsThere ==
  ASSUME NEW T, NEW S, NEW data \in Seq(T), NEW piece \in Seq(S), NEW o \in Nat,
         o + Len(piece) <= Len(data), \A k \in 1..Len(piece) : data[o + k] = piece[k]
  PROVE  SubSeq(data, o + 1, o + Len(piece)) = piece
<1> DEFINE part == SubSeq(data, o + 1, o + Len(piece))
           n == Len(piece)
<1>1. n \in Nat /\ Len(data) \in Nat /\ DOMAIN piece = 1..n
  OBVIOUS
<1>2. part = [k \in 1..(o + n) - (o + 1) + 1 |-> data[k + (o + 1) - 1]]
  OBVIOUS
<1> HIDE DEF n, part
<1>3. (o + n) - (o + 1) + 1 = n
  BY <1>1
<1>4. \A k \in 1..n : k + (o + 1) - 1 = o + k
  BY <1>1
<1>5. part = [k \in 1..n |-> data[o + k]]
  BY <1>2, <1>3, <1>4
<1>6. piece = [k \in 1..n |-> piece[k]]
  BY <1>1
<1>7. \A k \in 1..n : data[o + k] = piece[k]
  BY DEF n
<1>8. QED
  BY <1>5, <1>6, <1>7 DEF part

LEMMA SmallMod == \A n \in Nat : n < 256 => n % 256 = n
OBVIOUS

LEMMA ValueWritten ==
  ASSUME NEW v \in [type : 0..13, data : Seq(0..255)], IsValue(v), IsKept(v)
  PROVE  /\ v.data \in Seq(0..255) /\ Len(v.data) \in Nat
         /\ v.type # Text => /\ Len(WriteValue(v)) = 1 + Len(v.data) /\ WriteValue(v)[1] = v.type
                             /\ \A k \in 1..Len(v.data) : WriteValue(v)[1 + k] = v.data[k]
                             /\ Len(v.data) = IF v.type = Float THEN 4 ELSE 1
         /\ v.type = Text => /\ Len(WriteValue(v)) = 2 + Len(v.data) /\ WriteValue(v)[1] = v.type
                             /\ WriteValue(v)[2] = Len(v.data)
                             /\ \A k \in 1..Len(v.data) : WriteValue(v)[2 + k] = v.data[k]
<1> DEFINE d == v.data
           t == v.type
<1>1. d \in Seq(Nat) /\ d \in Seq(0..255) /\ Len(d) \in Nat /\ t \in {1, 2, 3, 10, 12}
  <2>1. d \in Seq(0..255)
    OBVIOUS
  <2>2. d \in Seq(Nat) /\ Len(d) \in Nat
    BY <2>1, BytesAreNumbers
  <2>3. QED
    BY <2>1, <2>2 DEF IsKept, Bool, Int8, UInt8, Float, Text
<1>2. t # 12 => WriteValue(v) = <<t>> \o d
  BY <1>1 DEF WriteValue, Text, Binary
<1>3. t = 12 => WriteValue(v) = <<t, Len(d) % 256>> \o d
  BY <1>1 DEF WriteValue, Text, Binary
<1>4. t # 12 => Len(d) = Width[t + 1]
  BY <1>1 DEF IsValue, Text, Binary, IsKept
<1>5. Len(d) < 256
  BY DEF IsKept
<1> HIDE DEF d, t
<1>6. t # 12 => Len(d) = IF t = 10 THEN 4 ELSE 1
  <2>1. Width[2] = 1 /\ Width[3] = 1 /\ Width[4] = 1 /\ Width[11] = 4
    BY DEF Width
  <2>2. /\ t = 1 => Len(d) = Width[2]
        /\ t = 2 => Len(d) = Width[3]
        /\ t = 3 => Len(d) = Width[4]
        /\ t = 10 => Len(d) = Width[11]
    <3>1. /\ t = 1 => t # 12 /\ t + 1 = 2
          /\ t = 2 => t # 12 /\ t + 1 = 3
          /\ t = 3 => t # 12 /\ t + 1 = 4
          /\ t = 10 => t # 12 /\ t + 1 = 11
      OBVIOUS
    <3>2. QED
      BY <1>4, <3>1
  <2>3. QED
    BY <1>1, <2>1, <2>2
<1>7. Len(d) % 256 = Len(d)
  BY <1>1, <1>5, SmallMod
<1>8. <<t>> \in Seq(Nat) /\ Len(<<t>>) = 1 /\ <<t>>[1] = t
  BY <1>1
<1>9. /\ <<t, Len(d)>> \in Seq(Nat) /\ Len(<<t, Len(d)>>) = 2
      /\ <<t, Len(d)>>[1] = t /\ <<t, Len(d)>>[2] = Len(d)
  BY <1>1
<1>10. CASE t # 12
  <2> DEFINE a == <<t>>
             w == a \o d
  <2>1. /\ Len(w) = Len(a) + Len(d)
        /\ \A k \in 1..Len(a) : w[k] = a[k]
        /\ \A k \in 1..Len(d) : w[Len(a) + k] = d[k]
    <3> HIDE DEF a
    <3>1. a \in Seq(Nat)
      BY <1>8 DEF a
    <3>2. QED
      BY <1>1, <3>1, ConcatParts
  <2>2. WriteValue(v) = w
    BY <1>2, <1>10
  <2> HIDE DEF w
  <2>3. Len(w) = 1 + Len(d) /\ w[1] = t /\ \A k \in 1..Len(d) : w[1 + k] = d[k]
    BY <1>1, <1>8, <2>1
  <2>4. QED
    BY <1>1, <1>6, <1>10, <2>2, <2>3 DEF d, t, Text, Float
<1>11. CASE t = 12
  <2> DEFINE a == <<t, Len(d)>>
             w == a \o d
  <2>1. /\ Len(w) = Len(a) + Len(d)
        /\ \A k \in 1..Len(a) : w[k] = a[k]
        /\ \A k \in 1..Len(d) : w[Len(a) + k] = d[k]
    <3> HIDE DEF a
    <3>1. a \in Seq(Nat)
      BY <1>9 DEF a
    <3>2. QED
      BY <1>1, <3>1, ConcatParts
  <2>2. WriteValue(v) = w
    BY <1>3, <1>7, <1>11
  <2> HIDE DEF w
  <2>3. Len(w) = 2 + Len(d) /\ w[1] = t /\ w[2] = Len(d) /\ \A k \in 1..Len(d) : w[2 + k] = d[k]
    BY <1>1, <1>9, <2>1
  <2>4. QED
    BY <1>1, <1>11, <2>2, <2>3 DEF d, t, Text
<1>12. QED
  BY <1>10, <1>11

(* The branches of ReadValue. *)
NumberWidth(type) == IF type = Float THEN 4 ELSE 1

LEMMA ReadNumber ==
  ASSUME NEW data, NEW e \in Nat, data[e + 1] \in {Int8, UInt8, Float},
         Len(data) - (e + 1) >= NumberWidth(data[e + 1])
  PROVE  ReadValue(data, e) =
           [offset |-> e + 1 + NumberWidth(data[e + 1]),
            value |-> {[type |-> data[e + 1],
                        data |-> SubSeq(data, e + 2, e + 1 + NumberWidth(data[e + 1]))]}]
<1> DEFINE type == data[e + 1]
           width == NumberWidth(type)
           bytes == SubSeq(data, e + 2, e + 1 + width)
           left == Len(data) - (e + 1)
           whole == [offset |-> e + 1 + width, value |-> {[type |-> type, data |-> bytes]}]
           bool == [offset |-> e + 2,
                    value |-> {[type |-> Bool, data |-> IF bytes = <<0>> THEN <<0>> ELSE <<1>>]}]
           length == bytes[1]
           text == IF length < left
                     THEN [offset |-> e + 2 + length,
                           value |-> {[type |-> Text, data |-> SubSeq(data, e + 3, e + 2 + length)]}]
                     ELSE [offset |-> e + 2, value |-> {}]
           other == [offset |-> e + 1, value |-> {}]
<1>1. ReadValue(data, e) =
        CASE type \in {Int8, UInt8, Float} /\ left >= width -> whole
          [] type = Bool /\ left >= 1 -> bool
          [] type = Text /\ left >= 1 -> text
          [] OTHER -> other
  BY DEF ReadValue, NumberWidth
<1>2. type \in {Int8, UInt8, Float} /\ left >= width /\ type # Bool /\ type # Text
  BY DEF Int8, UInt8, Float, Bool, Text
<1> HIDE DEF type, left, width, bytes, whole, bool, text, other
<1>3. ReadValue(data, e) = whole
  BY <1>1, <1>2
<1>4. QED
  BY <1>3 DEF whole, type, width, bytes

TextLength(data, e) == SubSeq(data, e + 2, e + 1 + 1)[1]

LEMMA ReadText ==
  ASSUME NEW data, NEW e \in Nat, data[e + 1] = Text,
         Len(data) - (e + 1) >= 1, TextLength(data, e) < Len(data) - (e + 1)
  PROVE  ReadValue(data, e) =
           [offset |-> e + 2 + TextLength(data, e),
            value |-> {[type |-> Text, data |-> SubSeq(data, e + 3, e + 2 + TextLength(data, e))]}]
<1> DEFINE type == data[e + 1]
           length == TextLength(data, e)
           left == Len(data) - (e + 1)
           width == 1
           bytes == SubSeq(data, e + 2, e + 1 + width)
           whole == [offset |-> e + 1 + width, value |-> {[type |-> type, data |-> bytes]}]
           bool == [offset |-> e + 2,
                    value |-> {[type |-> Bool, data |-> IF bytes = <<0>> THEN <<0>> ELSE <<1>>]}]
           found == [offset |-> e + 2 + length,
                     value |-> {[type |-> Text, data |-> SubSeq(data, e + 3, e + 2 + length)]}]
           text == IF length < left THEN found ELSE [offset |-> e + 2, value |-> {}]
           other == [offset |-> e + 1, value |-> {}]
<1>1. type # Float
  BY DEF Text, Float
<1>2. ReadValue(data, e) =
        CASE type \in {Int8, UInt8, Float} /\ left >= width -> whole
          [] type = Bool /\ left >= 1 -> bool
          [] type = Text /\ left >= 1 -> text
          [] OTHER -> other
  BY <1>1 DEF ReadValue, TextLength
<1>3. type = Text /\ left >= 1 /\ length < left
  OBVIOUS
<1>a. Text \notin {Int8, UInt8, Float} /\ Text # Bool
  BY DEF Int8, UInt8, Float, Bool, Text
<1> HIDE DEF type, left, length, width, bytes, whole, bool, found, text, other
<1>4. ReadValue(data, e) = text
  BY <1>2, <1>3, <1>a
<1>5. text = found
  BY <1>3 DEF text
<1>6. QED
  BY <1>4, <1>5 DEF found, length

LEMMA ValueReadBack ==
  ASSUME NEW T, NEW data \in Seq(T), NEW e \in Nat,
         NEW v \in [type : 0..13, data : Seq(0..255)], IsValue(v), IsKept(v),
         e + Len(WriteValue(v)) < Len(data),
         \A k \in 1..Len(WriteValue(v)) : data[e + k] = WriteValue(v)[k]
  PROVE  ReadValue(data, e) = [offset |-> e + Len(WriteValue(v)), value |-> {v}]
<1> DEFINE d == v.data
           t == v.type
           W == WriteValue(v)
           left == Len(data) - (e + 1)
<1>1. d \in Seq(0..255) /\ Len(d) \in Nat /\ Len(data) \in Nat /\ v = [type |-> t, data |-> d]
  BY ValueWritten
<1>2. t \in {Bool, Int8, UInt8, Float, Text}
  BY DEF IsKept
<1>3. CASE t # Text
  <2> DEFINE width == IF t = Float THEN 4 ELSE 1
             bytes == SubSeq(data, e + 2, e + 1 + width)
  <2>1. /\ Len(W) = 1 + Len(d) /\ W[1] = t /\ Len(d) = width
        /\ \A k \in 1..Len(d) : W[1 + k] = d[k]
    BY <1>3, ValueWritten
  <2>2. data[e + 1] = t /\ \A k \in 1..Len(d) : data[(e + 1) + k] = d[k]
    <3>1. 1 \in 1..Len(W) /\ \A k \in 1..Len(d) : 1 + k \in 1..Len(W) /\ (e + 1) + k = e + (1 + k)
      BY <1>1, <2>1
    <3> HIDE DEF W, d, t
    <3>2. data[e + 1] = W[1]
      BY <3>1 DEF W
    <3>3. \A k \in 1..Len(d) : data[e + (1 + k)] = W[1 + k]
      BY <3>1 DEF W
    <3>4. QED
      BY <2>1, <3>1, <3>2, <3>3
  <2>3. width \in {1, 4} /\ left >= width /\ (e + 1) + Len(d) <= Len(data) /\ e + 1 \in Nat
    BY <1>1, <2>1
  <2>4. SubSeq(data, (e + 1) + 1, (e + 1) + Len(d)) = d
    BY <1>1, <2>2, <2>3, PieceIsThere
  <2>5. bytes = d
    <3>1. (e + 1) + 1 = e + 2 /\ (e + 1) + Len(d) = e + 1 + width
      BY <1>1, <2>1
    <3> HIDE DEF width, d
    <3>2. QED
      BY <2>4, <3>1
  <2>6. CASE t = Bool
    <3>1. d \in {<<0>>, <<1>>}
      BY <2>6 DEF IsValue
    <3>2. (IF d = <<0>> THEN <<0>> ELSE <<1>>) = d
      BY <3>1
    <3>3. ReadValue(data, e) =
            [offset |-> e + 2, value |-> {[type |-> Bool, data |-> IF bytes = <<0>> THEN <<0>> ELSE <<1>>]}]
      BY <2>2, <2>3, <2>6 DEF ReadValue, Bool, Int8, UInt8, Float, Text
    <3>4. e + Len(W) = e + 2
      BY <2>1, <2>6 DEF Bool, Float
    <3> HIDE DEF bytes, W
    <3>5. ReadValue(data, e) = [offset |-> e + 2, value |-> {[type |-> Bool, data |-> d]}]
      BY <2>5, <3>2, <3>3
    <3>6. QED
      BY <1>1, <2>6, <3>4, <3>5 DEF W
  <2>7. CASE t \in {Int8, UInt8, Float}
    <3>1. ReadValue(data, e) = [offset |-> e + 1 + width, value |-> {[type |-> t, data |-> bytes]}]
      <4>1. data[e + 1] = t /\ left >= width
        BY <2>2, <2>3
      <4>2. NumberWidth(data[e + 1]) = width
        BY <4>1 DEF NumberWidth
      <4>3. ReadValue(data, e) =
              [offset |-> e + 1 + NumberWidth(data[e + 1]),
               value |-> {[type |-> data[e + 1],
                           data |-> SubSeq(data, e + 2, e + 1 + NumberWidth(data[e + 1]))]}]
        <5> HIDE DEF width, bytes, W, d, t
        <5>1. data[e + 1] \in {Int8, UInt8, Float}
          BY <2>7, <4>1
        <5>2. Len(data) - (e + 1) >= NumberWidth(data[e + 1])
          BY <4>1, <4>2
        <5> HIDE DEF left
        <5>3. QED
          BY ONLY <5>1, <5>2, ReadNumber
      <4>4. QED
        BY <4>1, <4>2, <4>3
    <3>2. e + Len(W) = e + 1 + width
      BY <2>1
    <3> HIDE DEF bytes, W, width
    <3>3. QED
      BY <1>1, <2>5, <3>1, <3>2 DEF W
  <2>8. QED
    BY <1>2, <1>3, <2>6, <2>7
<1>4. CASE t = Text
  <2> DEFINE n == Len(d)
             chars == SubSeq(data, e + 3, e + 2 + n)
  <2>1. /\ Len(W) = 2 + n /\ W[1] = t /\ W[2] = n
        /\ \A k \in 1..n : W[2 + k] = d[k]
    BY <1>4, ValueWritten
  <2>2. data[e + 1] = t /\ data[e + 2] = n /\ \A k \in 1..n : data[(e + 2) + k] = d[k]
    <3>1. /\ 1 \in 1..Len(W) /\ 2 \in 1..Len(W)
          /\ \A k \in 1..n : 2 + k \in 1..Len(W) /\ (e + 2) + k = e + (2 + k)
      BY <1>1, <2>1
    <3> HIDE DEF W, d, t, n
    <3>2. data[e + 1] = W[1] /\ data[e + 2] = W[2]
      BY <3>1 DEF W
    <3>3. \A k \in 1..n : data[e + (2 + k)] = W[2 + k]
      BY <3>1 DEF W
    <3>4. QED
      BY <2>1, <3>1, <3>2, <3>3
  <2>3. left >= 1 /\ n < left /\ (e + 2) + n <= Len(data) /\ e + 2 \in Nat
    BY <1>1, <2>1
  <2>4. SubSeq(data, (e + 2) + 1, (e + 2) + n) = d
    BY <1>1, <2>2, <2>3, PieceIsThere
  <2>5. chars = d
    <3>1. (e + 2) + 1 = e + 3 /\ (e + 2) + n = e + 2 + n
      BY <1>1
    <3> HIDE DEF n, d
    <3>2. QED
      BY <2>4, <3>1
  <2>6. TextLength(data, e) = n
    <3>1. data \in Seq(T) /\ e + 2 \in 1..Len(data) /\ e + 1 + 1 = e + 2
      BY <1>1, <2>3
    <3> DEFINE o == e + 2
    <3>2. o \in 1..Len(data)
      BY <3>1
    <3> HIDE DEF o
    <3>3. SubSeq(data, o, o)[1] = data[o]
      BY <3>2
    <3>4. QED
      BY <2>2, <3>1, <3>3 DEF o, TextLength
  <2>7. ReadValue(data, e) = [offset |-> e + 2 + n, value |-> {[type |-> Text, data |-> chars]}]
    <3>1. data[e + 1] = Text
      BY <1>4, <2>2
    <3> HIDE DEF d, t, W, n
    <3>2. Len(data) - (e + 1) >= 1 /\ TextLength(data, e) < Len(data) - (e + 1)
      BY <2>3, <2>6
    <3>3. ReadValue(data, e) =
            [offset |-> e + 2 + TextLength(data, e),
             value |-> {[type |-> Text, data |-> SubSeq(data, e + 3, e + 2 + TextLength(data, e))]}]
      BY <3>1, <3>2, ReadText
    <3>4. QED
      BY <2>6, <3>3
  <2>8. e + Len(W) = e + 2 + n
    BY <1>1, <2>1
  <2> HIDE DEF chars, W, n
  <2>9. QED
    BY <1>1, <1>4, <2>5, <2>7, <2>8 DEF W
<1>5. QED
  BY <1>3, <1>4

(* A value of type 0 is its type alone, and is not read. *)
LEMMA AbsentReadBack ==
  ASSUME NEW T, NEW data \in Seq(T), NEW e \in Nat, data[e + 1] = 0
  PROVE  ReadValue(data, e) = [offset |-> e + 1, value |-> {}]
BY DEF ReadValue, Bool, Int8, UInt8, Float, Text

LEMMA FieldWritten ==
  ASSUME NEW field \in Seq(0..255) \X [type : 0..13, data : Seq(0..255)],
         Len(field[1]) < 256
  PROVE  LET n == Len(field[1])
             W == WriteField(field)
             V == WriteValue(field[2])
         IN  /\ n \in Nat /\ V \in Seq(Nat) /\ W \in Seq(Nat)
             /\ Len(W) = 1 + n + Len(V) /\ W[1] = n
             /\ \A k \in 1..n : W[1 + k] = field[1][k]
             /\ \A k \in 1..Len(V) : W[1 + n + k] = V[k]
<1> DEFINE name == field[1]
           n == Len(name)
           V == WriteValue(field[2])
           a == <<n % 256>>
           b == a \o name
           W == b \o V
<1>1. name \in Seq(Nat) /\ n \in Nat /\ V \in Seq(Nat)
  BY FieldIsBytes, BytesAreNumbers
<1>2. n % 256 = n
  BY <1>1, SmallMod
<1>3. a \in Seq(Nat) /\ Len(a) = 1 /\ a[1] = n
  <2> HIDE DEF n
  <2>1. QED
    BY <1>1, <1>2
<1>4. W = WriteField(field)
  BY DEF WriteField
<1> HIDE DEF name, V, a, b, W
<1>5. b \in Seq(Nat) /\ Len(b) = 1 + n /\ b[1] = n /\ \A k \in 1..n : b[1 + k] = name[k]
  <2>1. /\ a \o name \in Seq(Nat) /\ Len(a \o name) = Len(a) + Len(name)
        /\ \A k \in 1..Len(a) : (a \o name)[k] = a[k]
        /\ \A k \in 1..Len(name) : (a \o name)[Len(a) + k] = name[k]
    <3>1. a \in Seq(Nat) /\ name \in Seq(Nat)
      BY <1>1, <1>3
    <3>2. QED
      BY <3>1, ConcatParts
  <2>2. b = a \o name
    BY DEF b
  <2>3. /\ b \in Seq(Nat) /\ Len(b) = Len(a) + n
        /\ \A k \in 1..Len(a) : b[k] = a[k]
        /\ \A k \in 1..n : b[Len(a) + k] = name[k]
    BY <2>1, <2>2
  <2> HIDE DEF n
  <2>4. QED
    BY <1>1, <1>3, <2>3
<1>6. /\ W \in Seq(Nat) /\ Len(W) = Len(b) + Len(V)
      /\ \A k \in 1..Len(b) : W[k] = b[k]
      /\ \A k \in 1..Len(V) : W[Len(b) + k] = V[k]
  <2>1. b \in Seq(Nat) /\ V \in Seq(Nat)
    BY <1>1, <1>5
  <2>2. /\ b \o V \in Seq(Nat) /\ Len(b \o V) = Len(b) + Len(V)
        /\ \A k \in 1..Len(b) : (b \o V)[k] = b[k]
        /\ \A k \in 1..Len(V) : (b \o V)[Len(b) + k] = V[k]
    BY <2>1, ConcatParts
  <2>3. W = b \o V
    BY DEF W
  <2>4. QED
    BY <2>2, <2>3
<1>7. Len(W) = 1 + n + Len(V) /\ \A k \in 1..Len(V) : W[1 + n + k] = V[k]
  BY <1>5, <1>6
<1>8. W[1] = n /\ \A k \in 1..n : W[1 + k] = name[k]
  <2> HIDE DEF n
  <2>1. 1 \in 1..Len(b) /\ \A k \in 1..n : 1 + k \in 1..Len(b)
    BY <1>1, <1>5
  <2>2. QED
    BY <1>5, <1>6, <2>1
<1>9. QED
  BY <1>1, <1>4, <1>6, <1>7, <1>8 DEF name, V

Value(field) == IF Kept(field) THEN {field[2]} ELSE {}

LEMMA FieldReadBack ==
  ASSUME NEW T, NEW data \in Seq(T), NEW sofar, ~sofar.stop, sofar.offset \in Nat,
         NEW field \in Seq(0..255) \X [type : 0..13, data : Seq(0..255)],
         IsValue(field[2]), InStep(field),
         sofar.offset + Len(WriteField(field)) < Len(data),
         \A k \in 1..Len(WriteField(field)) : data[sofar.offset + k] = WriteField(field)[k]
  PROVE  ReadField(data, sofar) =
           [stop |-> FALSE, offset |-> sofar.offset + Len(WriteField(field)),
            fields |-> AddField(sofar.fields, field[1], Value(field))]
<1> DEFINE n == Len(field[1])
           W == WriteField(field)
           V == WriteValue(field[2])
           o == sofar.offset
           e == o + 1 + n
<1>1. /\ n \in Nat /\ V \in Seq(Nat) /\ W \in Seq(Nat)
      /\ Len(W) = 1 + n + Len(V) /\ W[1] = n
      /\ \A k \in 1..n : W[1 + k] = field[1][k]
      /\ \A k \in 1..Len(V) : W[1 + n + k] = V[k]
  BY FieldWritten DEF InStep
<1>2. Len(V) \in Nat /\ Len(W) \in Nat /\ Len(data) \in Nat /\ o + Len(W) < Len(data)
      /\ o \in Nat
      /\ \A k \in 1..Len(W) : data[o + k] = W[k]
  BY <1>1
<1>3. field[1] \in Seq(0..255) /\ field[2] \in [type : 0..13, data : Seq(0..255)]
  OBVIOUS
<1>o. o = sofar.offset /\ ~sofar.stop
  OBVIOUS
<1> HIDE DEF W, V, n, o
<1>4. data[o + 1] = n
  <2>1. 1 \in 1..Len(W)
    BY <1>1, <1>2
  <2>2. QED
    BY <1>1, <1>2, <2>1
<1>5. \A k \in 1..n : data[(o + 1) + k] = field[1][k]
  <2>1. ASSUME NEW k \in 1..n PROVE 1 + k \in 1..Len(W) /\ o + (1 + k) = (o + 1) + k
    <3> DEFINE l == Len(V)
    <3>1. k \in 1..n /\ l \in Nat /\ n \in Nat /\ o \in Nat /\ Len(W) = 1 + n + l
      BY <1>1, <1>2
    <3> HIDE DEF l
    <3>2. QED
      BY <3>1
  <2>2. \A k \in 1..n : data[o + (1 + k)] = W[1 + k]
    BY <1>2, <2>1
  <2>3. QED
    BY <1>1, <2>1, <2>2
<1>6. \A k \in 1..Len(V) : data[e + k] = V[k]
  <2>1. ASSUME NEW k \in 1..Len(V) PROVE 1 + n + k \in 1..Len(W) /\ o + (1 + n + k) = e + k
    <3> DEFINE l == Len(V)
    <3>1. l \in Nat /\ n \in Nat /\ o \in Nat /\ Len(W) = 1 + n + l
      BY <1>1, <1>2
    <3> HIDE DEF l
    <3>2. k \in 1..l
      BY DEF l
    <3>3. 1 + n + k \in 1..Len(W)
      BY <3>1, <3>2
    <3>4. o + (1 + n + k) = e + k
      BY <3>1, <3>2
    <3>5. QED
      BY <3>3, <3>4
  <2>2. \A k \in 1..Len(V) : data[o + (1 + n + k)] = W[1 + n + k]
    BY <1>2, <2>1
  <2>3. QED
    BY <1>1, <2>1, <2>2
<1>7. e \in Nat /\ e + Len(V) < Len(data) /\ e + Len(V) = o + Len(W)
      /\ ~(o >= Len(data) - 1) /\ ~(e >= Len(data))
  BY <1>1, <1>2
<1>8. SubSeq(data, o + 2, e) = field[1]
  <2>1. (o + 1) + n <= Len(data) /\ o + 1 \in Nat
    BY <1>1, <1>2
  <2>2. SubSeq(data, (o + 1) + 1, (o + 1) + n) = field[1]
    BY <1>3, <1>5, <2>1, PieceIsThere DEF n
  <2>3. (o + 1) + 1 = o + 2
    BY <1>2
  <2>4. QED
    BY <2>2, <2>3
<1>9. ReadValue(data, e) = [offset |-> e + Len(V), value |-> Value(field)]
  <2> HIDE DEF e
  <2>1. CASE Kept(field)
    <3>1. IsKept(field[2])
      BY <2>1 DEF Kept, Known, IsKept
    <3>2. ReadValue(data, e) = [offset |-> e + Len(V), value |-> {field[2]}]
      BY <1>3, <1>6, <1>7, <3>1, ValueReadBack DEF V
    <3>3. QED
      BY <2>1, <3>2 DEF Value
  <2>2. CASE ~Kept(field)
    <3>1. field[2].type = 0
      BY <2>2 DEF InStep
    <3>2. Len(field[2].data) = 0
      <4>1. Width[0 + 1] = 0
        BY DEF Width
      <4>2. QED
        BY <3>1, <4>1 DEF IsValue, Text, Binary
    <3>3. field[2].data = <<>>
      BY <1>3, <3>2
    <3>4. V = <<0>> \o <<>>
      BY <3>1, <3>3 DEF V, WriteValue, Text, Binary
    <3>5. V = <<0>>
      BY <3>4
    <3>6. Len(V) = 1 /\ V[1] = 0
      BY <3>5
    <3>7. data[e + 1] = 0
      BY <1>6, <3>6
    <3>8. QED
      BY <1>7, <2>2, <3>6, <3>7, AbsentReadBack DEF Value
  <2>3. QED
    BY <2>1, <2>2
<1>10. ReadField(data, sofar) =
         [stop |-> FALSE, offset |-> ReadValue(data, e).offset,
          fields |-> AddField(sofar.fields, SubSeq(data, o + 2, e), ReadValue(data, e).value)]
  <2>1. sofar.offset + 1 + data[sofar.offset + 1] = e
    BY <1>4, <1>o
  <2> HIDE DEF e
  <2>2. QED
    BY <1>7, <1>o, <2>1 DEF ReadField
<1>11. QED
  <2> HIDE DEF e
  <2>1. QED
    <3>1. /\ ReadValue(data, e).offset = e + Len(V)
          /\ ReadValue(data, e).value = Value(field)
      BY <1>9
    <3>2. ReadField(data, sofar) =
            [stop |-> FALSE, offset |-> o + Len(W),
             fields |-> AddField(sofar.fields, field[1], Value(field))]
      BY <1>7, <1>8, <1>10, <3>1
    <3>3. QED
      BY <3>2, <1>o DEF W
-----------------------------------------------------------------------------
(* The reader's turns. *)
Start == [stop |-> FALSE, offset |-> 25, fields |-> [n \in {} |-> 0]]
IsReader(s) == s = [stop |-> s.stop, offset |-> s.offset, fields |-> s.fields]

LEMMA ReadFieldsDefined ==
  ASSUME NEW data, data[25] \in Nat
  PROVE  ReadFields(data) =
           [i \in 0..data[25] |-> IF i = 0 THEN Start ELSE ReadField(data, ReadFields(data)[i - 1])]
<1> DEFINE Body(f, i) == IF i = 0 THEN Start ELSE ReadField(data, f[i - 1])
           Good == {n \in Nat : \E f : f = [i \in 0..n |-> Body(f, i)]}
<1>1. 0 \in Good
  <2> DEFINE f == [i \in 0..0 |-> Start]
  <2> HIDE DEF Start
  <2>1. f = [i \in 0..0 |-> Body(f, i)]
    OBVIOUS
  <2>2. QED
    BY <2>1
<1>2. ASSUME NEW n \in Nat, n \in Good PROVE n + 1 \in Good
  <2>1. PICK f : f = [i \in 0..n |-> Body(f, i)]
    BY <1>2
  <2> DEFINE g == [i \in 0..n + 1 |-> IF i = n + 1 THEN ReadField(data, f[n]) ELSE f[i]]
  <2>2. ASSUME NEW i \in 0..n + 1 PROVE g[i] = Body(g, i)
    <3>1. CASE i = n + 1
      BY <3>1
    <3>2. CASE i \in 0..n
      <4>1. i # 0 => g[i - 1] = f[i - 1]
        BY <3>2
      <4>2. f[i] = Body(f, i)
        BY <2>1, <3>2
      <4>3. g[i] = f[i]
        BY <3>2
      <4>4. QED
        BY <4>1, <4>2, <4>3
    <3>3. QED
      BY <3>1, <3>2
  <2>3. g = [i \in 0..n + 1 |-> Body(g, i)]
    <3> HIDE DEF Body
    <3>1. QED
      BY <2>2
  <2> HIDE DEF g, Body
  <2>4. QED
    BY <2>3
<1>3. Nat \subseteq Good
  <2> HIDE DEF Good
  <2>1. QED
    BY <1>1, <1>2, SetInduction
<1>4. \E f : f = [i \in 0..data[25] |-> Body(f, i)]
  <2> HIDE DEF Body
  <2>1. data[25] \in Good
    BY <1>3
  <2>2. QED
    BY <2>1
<1>5. QED
  BY <1>4 DEF ReadFields, Start

LEMMA AddFieldKeeps ==
  ASSUME NEW fields, NEW name, NEW value, NEW x \in DOMAIN fields
  PROVE  x \in DOMAIN AddField(fields, name, value) /\ AddField(fields, name, value)[x] = fields[x]
BY DEF AddField

LEMMA AddFieldAdds ==
  ASSUME NEW fields, NEW name, name \notin DOMAIN fields, NEW value
  PROVE  /\ value = {} => AddField(fields, name, value) = fields
         /\ value # {} => /\ DOMAIN AddField(fields, name, value) = DOMAIN fields \cup {name}
                          /\ AddField(fields, name, value)[name] \in value
<1> DEFINE v == CHOOSE u \in value : TRUE
<1>1. value # {} => v \in value
  OBVIOUS
<1>2. value # {} => AddField(fields, name, value) =
                      [n \in DOMAIN fields \cup {name} |-> IF n = name THEN v ELSE fields[n]]
  BY DEF AddField
<1>3. value = {} => AddField(fields, name, value) = fields
  BY DEF AddField
<1> HIDE DEF v
<1>4. QED
  BY <1>1, <1>2, <1>3

(* A turn takes nothing away. *)
LEMMA ReadFieldKeeps ==
  ASSUME NEW data, NEW s, IsReader(s)
  PROVE  /\ IsReader(ReadField(data, s))
         /\ \A x \in DOMAIN s.fields :
              /\ x \in DOMAIN ReadField(data, s).fields
              /\ ReadField(data, s).fields[x] = s.fields[x]
<1> DEFINE nameEnd == s.offset + 1 + data[s.offset + 1]
           read == ReadValue(data, nameEnd)
           fields == AddField(s.fields, SubSeq(data, s.offset + 2, nameEnd), read.value)
           on == [stop |-> FALSE, offset |-> read.offset, fields |-> fields]
           over == [s EXCEPT !.stop = TRUE]
<1>1. ReadField(data, s) \in {on, over}
  BY DEF ReadField
<1>2. over = [stop |-> TRUE, offset |-> s.offset, fields |-> s.fields]
  <2> DEFINE a == s.stop
             b == s.offset
             c == s.fields
             t == [stop |-> a, offset |-> b, fields |-> c]
  <2>1. s = t
    BY DEF IsReader
  <2>2. over = [t EXCEPT !.stop = TRUE]
    BY <2>1
  <2> HIDE DEF a, b, c, over
  <2>3. over = [stop |-> TRUE, offset |-> b, fields |-> c]
    BY <2>2
  <2>4. QED
    BY <2>3 DEF b, c
<1>3. \A x \in DOMAIN s.fields : x \in DOMAIN fields /\ fields[x] = s.fields[x]
  BY AddFieldKeeps
<1> HIDE DEF nameEnd, read, fields
<1>4. IsReader(on) /\ on.fields = fields
  BY DEF IsReader
<1>5. IsReader(over) /\ over.fields = s.fields
  <2> HIDE DEF over
  <2>1. over.stop = TRUE /\ over.offset = s.offset /\ over.fields = s.fields
    BY <1>2
  <2>2. QED
    BY <1>2, <2>1 DEF IsReader
<1> HIDE DEF on, over
<1>6. QED
  BY <1>1, <1>3, <1>4, <1>5

LEMMA ReadersRead ==
  ASSUME NEW data, data[25] \in Nat, NEW n \in Nat, n <= data[25]
  PROVE  IsReader(ReadFields(data)[n])
<1> DEFINE R(k) == ReadFields(data)[k]
           last == data[25]
<1>1. R(0) = Start /\ \A k \in 1..last : R(k) = ReadField(data, R(k - 1))
  BY ReadFieldsDefined
<1> HIDE DEF R
<1>2. \A k \in Nat : k <= last => IsReader(R(k))
  <2> DEFINE Good == {k \in Nat : k <= last => IsReader(R(k))}
  <2>1. 0 \in Good
    BY <1>1 DEF Start, IsReader
  <2>2. ASSUME NEW k \in Nat, k \in Good PROVE k + 1 \in Good
    <3>1. CASE k + 1 <= last
      <4>1. k <= last /\ k + 1 \in 1..last /\ (k + 1) - 1 = k
        BY <3>1
      <4>2. R(k + 1) = ReadField(data, R(k))
        BY <1>1, <4>1
      <4>3. IsReader(R(k))
        BY <2>2, <4>1
      <4>4. QED
        BY <4>2, <4>3, ReadFieldKeeps
    <3>2. CASE ~(k + 1 <= last)
      BY <3>2
    <3>3. QED
      BY <3>1, <3>2
  <2>3. Nat \subseteq Good
    <3> HIDE DEF Good
    <3>1. QED
      BY <2>1, <2>2, SetInduction
  <2>4. QED
    BY <2>3
<1>3. QED
  BY <1>2 DEF R

LEMMA ReadStays ==
  ASSUME NEW data, data[25] \in Nat, NEW i \in 0..data[25], NEW x \in DOMAIN ReadFields(data)[i].fields
  PROVE  /\ x \in DOMAIN ReadFields(data)[data[25]].fields
         /\ ReadFields(data)[data[25]].fields[x] = ReadFields(data)[i].fields[x]
<1> DEFINE R(n) == ReadFields(data)[n]
           last == data[25]
<1>1. R(0) = Start /\ \A n \in 1..last : R(n) = ReadField(data, R(n - 1))
  BY ReadFieldsDefined
<1> HIDE DEF R
<1>2. \A n \in Nat : n <= last => IsReader(R(n))
  BY ReadersRead DEF R
<1> DEFINE Has(n) == x \in DOMAIN R(n).fields /\ R(n).fields[x] = R(i).fields[x]
           Good == {n \in Nat : i + n <= last => Has(i + n)}
<1>3. 0 \in Good
  <2>1. i + 0 = i
    OBVIOUS
  <2>2. Has(i)
    BY DEF R
  <2> HIDE DEF Has
  <2>3. QED
    BY <2>1, <2>2
<1>4. ASSUME NEW n \in Nat, n \in Good PROVE n + 1 \in Good
  <2>1. CASE i + (n + 1) <= last
    <3>1. /\ i + n \in Nat /\ i + n <= last /\ i + (n + 1) \in 1..last
          /\ (i + (n + 1)) - 1 = i + n
      BY <2>1
    <3>2. R(i + (n + 1)) = ReadField(data, R(i + n))
      BY <1>1, <3>1
    <3>3. IsReader(R(i + n))
      BY <1>2, <3>1
    <3>4. Has(i + n)
      <4> HIDE DEF Has
      <4>1. QED
        BY <1>4, <3>1
    <3>5. Has(i + (n + 1))
      BY <3>2, <3>3, <3>4, ReadFieldKeeps
    <3> HIDE DEF Has
    <3>6. QED
      BY <3>5
  <2>2. CASE ~(i + (n + 1) <= last)
    BY <2>2
  <2>3. QED
    BY <2>1, <2>2
<1>5. Nat \subseteq Good
  <2> HIDE DEF Good
  <2>1. QED
    BY <1>3, <1>4, SetInduction
<1>6. last - i \in Nat /\ i + (last - i) = last
  OBVIOUS
<1>7. Has(last)
  <2> DEFINE d == last - i
  <2>1. d \in Nat /\ i + d = last
    BY <1>6
  <2> HIDE DEF d, Has
  <2>2. d \in Good
    BY <1>5, <2>1
  <2>3. i + d <= last
    BY <2>1
  <2>4. Has(i + d)
    BY <2>2, <2>3
  <2>5. QED
    BY <2>1, <2>4
<1>8. QED
  BY <1>7 DEF R

(* As long as the reader is in step, it is where the writer was. *)
LEMMA ReadInStep ==
  ASSUME NEW m, IsMessage(m), NEW i \in 0..(Len(m.fields) % 256),
         \A j \in 1..i : InStep(m.fields[j])
  PROVE  LET r == ReadFields(ToBinary(m))[i]
         IN  /\ ~r.stop /\ r.offset = 25 + Len(Joined(Written(m), i))
             /\ \A x \in DOMAIN r.fields : \E j \in 1..i : x = m.fields[j][1]
             /\ \A j \in 1..i : Kept(m.fields[j]) =>
                  m.fields[j][1] \in DOMAIN r.fields /\ r.fields[m.fields[j][1]] = m.fields[j][2]
<1> DEFINE w == ToBinary(m)
           q == Written(m)
           R(n) == ReadFields(w)[n]
           last == Len(m.fields) % 256
           L(n) == Len(Joined(q, n))
           Name(n) == m.fields[n][1]
           Place(n) == ~R(n).stop /\ R(n).offset = 25 + L(n)
           Only(n) == \A x \in DOMAIN R(n).fields : \E j \in 1..n : x = Name(j)
           All(n) == \A j \in 1..n : Kept(m.fields[j]) =>
                       Name(j) \in DOMAIN R(n).fields /\ R(n).fields[Name(j)] = m.fields[j][2]
           Holds(n) == Place(n) /\ Only(n) /\ All(n)
           Good == {n \in Nat : n <= i => Holds(n)}
<1>1. /\ m.fields \in Seq(Seq(0..255) \X [type : 0..13, data : Seq(0..255)])
      /\ q \in Seq(Seq(Nat)) /\ Len(q) = Len(m.fields)
      /\ \A n \in 1..Len(m.fields) : q[n] = WriteField(m.fields[n])
      /\ IsFieldMap(m.fields)
  BY MessageParts
<1>2. Len(m.fields) \in Nat
  BY <1>1
<1>3. last \in Nat /\ last <= Len(m.fields)
  <2> DEFINE n == Len(m.fields)
  <2>1. n \in Nat
    BY <1>2
  <2> HIDE DEF n
  <2>2. n % 256 \in Nat /\ n % 256 <= n
    BY <2>1
  <2>3. QED
    BY <2>2 DEF n
<1>4. /\ \E T : w \in Seq(T)
      /\ FlattenSeq(q) \in Seq(Nat) /\ Len(w) = 26 + Len(FlattenSeq(q))
      /\ w[25] = last
      /\ \A k \in 1..Len(FlattenSeq(q)) : w[25 + k] = FlattenSeq(q)[k]
  <2>1. \E T : w \in Seq(T)
    BY Layout
  <2>2. FlattenSeq(q) \in Seq(Nat) /\ Len(w) = 26 + Len(FlattenSeq(q))
    BY Layout
  <2>3. w[25] = last
    BY Layout
  <2>4. \A k \in 1..Len(FlattenSeq(q)) : w[25 + k] = FlattenSeq(q)[k]
    <3>1. FieldsAt(w, FlattenSeq(q))
      BY Layout
    <3>2. QED
      BY <3>1 DEF FieldsAt
  <2>5. QED
    BY <2>1, <2>2, <2>3, <2>4
<1> HIDE DEF w, q
<1>5. R(0) = Start /\ \A n \in 1..last : R(n) = ReadField(w, R(n - 1))
  <2>1. w[25] \in Nat
    BY <1>3, <1>4
  <2>2. ReadFields(w) =
          [n \in 0..w[25] |-> IF n = 0 THEN Start ELSE ReadField(w, ReadFields(w)[n - 1])]
    BY <2>1, ReadFieldsDefined
  <2>3. ReadFields(w) =
          [n \in 0..last |-> IF n = 0 THEN Start ELSE ReadField(w, ReadFields(w)[n - 1])]
    BY <1>4, <2>2
  <2> HIDE DEF last
  <2>4. QED
    BY <1>3, <2>3
<1>6. Joined(q, 0) = <<>> /\ L(0) = 0
  BY DEF Joined
<1> HIDE DEF R, last
<1>7. 0 \in Good
  <2>1. ~Start.stop /\ Start.offset = 25 /\ DOMAIN Start.fields = {}
    BY DEF Start
  <2>2. Holds(0)
    BY <1>5, <1>6, <2>1
  <2> HIDE DEF Holds
  <2>3. QED
    BY <2>2
<1>8. ASSUME NEW n \in Nat, n \in Good PROVE n + 1 \in Good
  <2> SUFFICES ASSUME n + 1 <= i PROVE Holds(n + 1)
    OBVIOUS
  <2> DEFINE p == n + 1
             field == m.fields[p]
             W == WriteField(field)
             F == FlattenSeq(q)
             o == 25 + L(n)
  <2>1. /\ p \in 1..i /\ p \in 1..last /\ p \in 1..Len(m.fields) /\ p - 1 = n /\ n <= i /\ p \in Nat
        /\ i \in Nat
    <3>1. i \in 0..last
      BY DEF last
    <3>2. QED
      BY <1>2, <1>3, <3>1
  <2>2. Holds(n)
    <3> HIDE DEF Holds
    <3>1. QED
      BY <1>8, <2>1
  <2>3. InStep(field)
    BY <2>1
  <2>4. field \in Seq(0..255) \X [type : 0..13, data : Seq(0..255)] /\ IsValue(field[2])
    BY <1>1, <2>1 DEF IsFieldMap
  <2>5. /\ L(p) = L(n) + Len(W) /\ L(p) <= Len(F)
        /\ \A k \in 1..Len(W) : F[L(n) + k] = W[k]
    <3>1. q[p] = W /\ p \in 1..Len(q)
      BY <1>1, <2>1
    <3> HIDE DEF p, W
    <3>2. /\ Len(Joined(q, p)) = Len(Joined(q, p - 1)) + Len(q[p])
          /\ Len(Joined(q, p)) <= Len(FlattenSeq(q))
          /\ \A k \in 1..Len(q[p]) : FlattenSeq(q)[Len(Joined(q, p - 1)) + k] = q[p][k]
      BY <1>1, <3>1, FlattenParts
    <3>3. QED
      BY <2>1, <3>1, <3>2
  <2>6. W \in Seq(Nat) /\ Len(W) \in Nat /\ L(n) \in Nat /\ Len(F) \in Nat /\ Len(w) = 26 + Len(F)
    <3>1. W \in Seq(Nat)
      BY <2>4, FieldIsBytes
    <3>2. Joined(q, n) \in Seq(Nat)
      <4>1. n \in 0..Len(q)
        BY <1>1, <2>1
      <4>2. QED
        BY <1>1, <4>1, JoinedStep
    <3> HIDE DEF W, F
    <3>3. F \in Seq(Nat)
      BY <1>4 DEF F
    <3>4. QED
      BY <1>4, <3>1, <3>2, <3>3 DEF F
  <2>7. R(p) = ReadField(w, R(n))
    BY <1>5, <2>1
  <2> HIDE DEF W, F, p
  <2>8. o \in Nat /\ o + Len(W) < Len(w) /\ \A k \in 1..Len(W) : w[o + k] = W[k]
    <3>1. o \in Nat /\ o + Len(W) < Len(w)
      <4> DEFINE l == L(n)
      <4>1. l \in Nat /\ L(p) = l + Len(W)
        BY <2>5, <2>6
      <4> HIDE DEF l
      <4>2. 25 + l \in Nat /\ 25 + l + Len(W) < Len(w)
        BY <2>5, <2>6, <4>1
      <4>3. QED
        BY <4>2 DEF l
    <3>2. ASSUME NEW k \in 1..Len(W) PROVE w[o + k] = W[k]
      <4> DEFINE l == L(n)
      <4>1. l \in Nat /\ L(p) = l + Len(W)
        BY <2>5, <2>6
      <4> HIDE DEF l
      <4>2. l + k \in 1..Len(F) /\ 25 + (l + k) = 25 + l + k
        BY <2>5, <2>6, <4>1
      <4>3. w[25 + (l + k)] = F[l + k]
        BY <1>4, <4>2 DEF F
      <4>4. F[l + k] = W[k]
        BY <2>5 DEF l
      <4>5. QED
        BY <4>2, <4>3, <4>4 DEF l
    <3>3. QED
      BY <3>1, <3>2
  <2>9. ~R(n).stop /\ R(n).offset = o
    BY <2>2
  <2> DEFINE fields == AddField(R(n).fields, field[1], Value(field))
  <2>10. R(p) = [stop |-> FALSE, offset |-> o + Len(W), fields |-> fields]
    <3>1. PICK T : w \in Seq(T)
      BY <1>4
    <3> DEFINE s == R(n)
    <3>2. ~s.stop /\ s.offset = o
      BY <2>9
    <3> HIDE DEF s, field, o
    <3>3. /\ s.offset \in Nat /\ s.offset + Len(WriteField(field)) < Len(w)
          /\ \A k \in 1..Len(WriteField(field)) : w[s.offset + k] = WriteField(field)[k]
      BY <2>8, <3>2 DEF W
    <3>4. ReadField(w, s) = [stop |-> FALSE, offset |-> s.offset + Len(WriteField(field)),
                             fields |-> AddField(s.fields, field[1], Value(field))]
      BY <2>3, <2>4, <3>1, <3>2, <3>3, FieldReadBack
    <3>5. QED
      BY <2>7, <3>2, <3>4 DEF s, W
  <2> HIDE DEF fields
  <2>11. ~R(p).stop /\ R(p).offset = o + Len(W) /\ R(p).fields = fields
    BY <2>10
  <2>12. Place(p)
    <3>1. o + Len(W) = 25 + L(p)
      <4> DEFINE l == L(n)
      <4>1. l \in Nat /\ L(p) = l + Len(W)
        BY <2>5, <2>6
      <4> HIDE DEF l
      <4>2. 25 + l + Len(W) = 25 + (l + Len(W))
        BY <2>6, <4>1
      <4>3. QED
        BY <4>1, <4>2 DEF l
    <3>2. QED
      BY <2>11, <3>1
  <2>13. Name(p) \notin DOMAIN R(n).fields
    <3>1. ASSUME NEW j \in 1..n, Name(p) = Name(j) PROVE FALSE
      <4>1. j \in DOMAIN m.fields /\ p \in DOMAIN m.fields /\ j # p
        <5>1. DOMAIN m.fields = 1..Len(m.fields)
          BY <1>1
        <5>2. j \in 1..Len(m.fields) /\ j # p
          BY <1>2, <2>1 DEF p
        <5>3. QED
          BY <2>1, <5>1, <5>2
      <4>2. QED
        BY <1>1, <3>1, <4>1 DEF IsFieldMap
    <3>2. QED
      BY <2>2, <3>1
  <2>14. /\ ~Kept(field) => fields = R(n).fields
         /\ Kept(field) => /\ DOMAIN fields = DOMAIN R(n).fields \cup {Name(p)}
                           /\ fields[Name(p)] = field[2]
    <3> DEFINE f == R(n).fields
    <3> HIDE DEF f
    <3>1. Name(p) \notin DOMAIN f
      BY <2>13 DEF f
    <3> DEFINE value == Value(field)
    <3>2. fields = AddField(f, Name(p), value)
      BY DEF fields, f
    <3>3. (Kept(field) => value = {field[2]}) /\ (~Kept(field) => value = {})
      BY DEF Value
    <3> HIDE DEF value
    <3>4. /\ value = {} => fields = f
          /\ value # {} => DOMAIN fields = DOMAIN f \cup {Name(p)} /\ fields[Name(p)] \in value
      BY <3>1, <3>2, AddFieldAdds
    <3>5. QED
      BY <3>3, <3>4 DEF f
  <2>15. \A x \in DOMAIN R(n).fields : x \in DOMAIN fields /\ fields[x] = R(n).fields[x]
    BY AddFieldKeeps DEF fields
  <2>16. \A j \in 1..p : j \in 1..n \/ j = p
    BY DEF p
  <2>17. 1..n \subseteq 1..p /\ p \in 1..p
    BY DEF p
  <2>18. Only(p)
    <3>1. ASSUME NEW x \in DOMAIN R(p).fields PROVE \E j \in 1..p : x = Name(j)
      <4>1. x \in DOMAIN R(n).fields \/ x = Name(p)
        BY <2>11, <2>14, <3>1
      <4>2. CASE x \in DOMAIN R(n).fields
        BY <2>2, <2>17, <4>2
      <4>3. CASE x = Name(p)
        BY <2>17, <4>3
      <4>4. QED
        BY <4>1, <4>2, <4>3
    <3>2. QED
      BY <3>1
  <2>19. All(p)
    <3>1. ASSUME NEW j \in 1..p, Kept(m.fields[j])
          PROVE  Name(j) \in DOMAIN R(p).fields /\ R(p).fields[Name(j)] = m.fields[j][2]
      <4>1. CASE j \in 1..n
        BY <2>2, <2>11, <2>15, <3>1, <4>1
      <4>2. CASE j = p
        BY <2>11, <2>14, <3>1, <4>2
      <4>3. QED
        BY <2>16, <4>1, <4>2
    <3>2. QED
      BY <3>1
  <2> HIDE DEF Place, Only, All
  <2>20. QED
    BY <2>12, <2>18, <2>19 DEF p
<1>9. Nat \subseteq Good
  <2> HIDE DEF Good
  <2>1. QED
    BY <1>7, <1>8, SetInduction
<1>10. Holds(i)
  <2> HIDE DEF Holds
  <2>1. i \in Nat
    BY <1>3 DEF last
  <2>2. QED
    BY <1>9, <2>1
<1>11. QED
  BY <1>10 DEF R, w, q

-----------------------------------------------------------------------------
(* What becomes of an IMEI. *)
LEMMA DecimalDigits ==
  ASSUME NEW b \in 0..255
  PROVE  /\ Decimal(b) \in Seq(Nat) /\ Len(Decimal(b)) >= 1
         /\ b \in 0..9 => Len(Decimal(b)) = 1 /\ Decimal(b)[1] = b
         /\ b \notin 0..9 => Len(Decimal(b)) > 1
<1>1. CASE b < 10
  <2>1. <<b>> \in Seq(Nat) /\ Len(<<b>>) = 1 /\ <<b>>[1] = b /\ b \in 0..9
    BY <1>1
  <2>2. QED
    BY <1>1, <2>1 DEF Decimal
<1>2. CASE ~(b < 10) /\ b < 100
  <2> DEFINE s == <<b \div 10, b % 10>>
  <2>1. b \div 10 \in Nat /\ b % 10 \in Nat /\ b \notin 0..9
    BY <1>2
  <2>2. s \in Seq(Nat) /\ Len(s) = 2
    BY <2>1
  <2>3. Decimal(b) = s
    BY <1>2 DEF Decimal
  <2>4. Decimal(b) \in Seq(Nat) /\ Len(Decimal(b)) > 1
    <3> HIDE DEF s
    <3>1. Len(s) > 1
      BY <2>2
    <3>2. QED
      BY <2>2, <2>3, <3>1
  <2>5. Len(Decimal(b)) >= 1
    BY <2>4
  <2>6. QED
    BY <2>1, <2>4, <2>5
<1>3. CASE ~(b < 10) /\ ~(b < 100)
  <2> DEFINE s == <<b \div 100, (b \div 10) % 10, b % 10>>
  <2>1. b \div 100 \in Nat /\ (b \div 10) % 10 \in Nat /\ b % 10 \in Nat /\ b \notin 0..9
    BY <1>3
  <2>2. s \in Seq(Nat) /\ Len(s) = 3
    BY <2>1
  <2>3. Decimal(b) = s
    BY <1>3 DEF Decimal
  <2>4. Decimal(b) \in Seq(Nat) /\ Len(Decimal(b)) > 1
    <3> HIDE DEF s
    <3>1. Len(s) > 1
      BY <2>2
    <3>2. QED
      BY <2>2, <2>3, <3>1
  <2>5. Len(Decimal(b)) >= 1
    BY <2>4
  <2>6. QED
    BY <2>1, <2>4, <2>5
<1>4. QED
  BY <1>1, <1>2, <1>3

LEMMA JoinedLength ==
  ASSUME NEW q \in Seq(Seq(Nat)), \A i \in 1..Len(q) : Len(q[i]) >= 1, NEW i \in 0..Len(q)
  PROVE  /\ Len(Joined(q, i)) \in Nat /\ Len(Joined(q, i)) >= i
         /\ (\A j \in 1..i : Len(q[j]) = 1) => Len(Joined(q, i)) = i
         /\ (\E j \in 1..i : Len(q[j]) > 1) => Len(Joined(q, i)) > i
<1> DEFINE L(n) == Len(Joined(q, n))
           Most(n) == L(n) \in Nat /\ L(n) >= n
           Same(n) == (\A j \in 1..n : Len(q[j]) = 1) => L(n) = n
           More(n) == (\E j \in 1..n : Len(q[j]) > 1) => L(n) > n
           Holds(n) == Most(n) /\ Same(n) /\ More(n)
           Good == {n \in Nat : n <= i => Holds(n)}
<1>1. Len(q) \in Nat /\ i \in Nat /\ i <= Len(q)
  OBVIOUS
<1>2. 0 \in Good
  <2>1. L(0) = 0
    BY DEF Joined
  <2> HIDE DEF L
  <2>2. Holds(0)
    BY <2>1
  <2> HIDE DEF Holds
  <2>3. QED
    BY <2>2
<1>3. ASSUME NEW n \in Nat, n \in Good PROVE n + 1 \in Good
  <2> SUFFICES ASSUME n + 1 <= i PROVE Holds(n + 1)
    OBVIOUS
  <2>1. Holds(n)
    <3> HIDE DEF Holds
    <3>1. QED
      BY <1>1, <1>3
  <2> DEFINE p == n + 1
             l == Len(q[p])
  <2>2. p \in 1..Len(q) /\ p - 1 = n /\ p \in 1..p /\ p \in Nat
        /\ (\A j \in 1..p : j \in 1..n \/ j = p) /\ 1..n \subseteq 1..p
    BY <1>1
  <2> HIDE DEF p
  <2>3. L(p) = L(n) + l
    <3>1. Len(Joined(q, p)) = Len(Joined(q, p - 1)) + Len(q[p])
      BY <2>2, FlattenParts
    <3>2. QED
      BY <2>2, <3>1
  <2>4. l \in Nat /\ l >= 1
    <3>1. q[p] \in Seq(Nat)
      BY <2>2
    <3>2. Len(q[p]) \in Nat
      BY <3>1
    <3>3. QED
      BY <2>2, <3>2
  <2> HIDE DEF L
  <2>5. p = n + 1 /\ n \in Nat
    BY DEF p
  <2>6. Most(p)
    BY <2>1, <2>3, <2>4, <2>5
  <2>7. Same(p)
    <3> SUFFICES ASSUME \A j \in 1..p : Len(q[j]) = 1 PROVE L(p) = p
      OBVIOUS
    <3>1. l = 1 /\ L(n) = n
      BY <2>1, <2>2
    <3> HIDE DEF l
    <3>2. QED
      BY <2>3, <2>5, <3>1
  <2>8. More(p)
    <3> SUFFICES ASSUME NEW j \in 1..p, Len(q[j]) > 1 PROVE L(p) > p
      OBVIOUS
    <3>1. CASE j = p
      <4>1. l > 1
        BY <3>1
      <4> HIDE DEF l
      <4>2. QED
        BY <2>1, <2>3, <2>4, <2>5, <4>1
    <3>2. CASE j \in 1..n
      <4>1. L(n) > n
        BY <2>1, <3>2
      <4> HIDE DEF l
      <4>2. QED
        BY <2>1, <2>3, <2>4, <2>5, <4>1
    <3>3. QED
      BY <2>2, <3>1, <3>2
  <2> HIDE DEF Most, Same, More
  <2>9. QED
    BY <2>6, <2>7, <2>8 DEF p
<1>4. Nat \subseteq Good
  <2> HIDE DEF Good
  <2>1. QED
    BY <1>2, <1>3, SetInduction
<1>5. Holds(i)
  <2> HIDE DEF Holds
  <2>1. QED
    BY <1>1, <1>4
<1>6. QED
  BY <1>5

LEMMA ImeiReadBack ==
  ASSUME NEW imei \in Seq(0..255), Len(imei) = 15, NEW w, \A i \in 1..15 : w[5 + i] = imei[i]
  PROVE  LET back == FlattenSeq([i \in 1..15 |-> Decimal(w[i + 5])])
         IN  /\ IsImei(imei) => back = imei
             /\ ~IsImei(imei) => ~IsImei(back)
<1> DEFINE q == [i \in 1..15 |-> Decimal(w[i + 5])]
           back == FlattenSeq(q)
<1>1. \A i \in 1..15 : imei[i] \in 0..255 /\ q[i] = Decimal(imei[i])
  <2>1. \A i \in 1..15 : i + 5 = 5 + i
    OBVIOUS
  <2>2. \A i \in 1..15 : w[i + 5] = imei[i]
    BY <2>1
  <2>3. \A i \in 1..15 : imei[i] \in 0..255
    <3> DEFINE B == 0..255
    <3>1. imei \in Seq(B)
      OBVIOUS
    <3> HIDE DEF B
    <3>2. \A i \in 1..15 : imei[i] \in B
      BY <3>1, SeqElement
    <3>3. QED
      BY <3>2 DEF B
  <2>4. QED
    BY <2>2, <2>3
<1>2. q = [i \in 1..15 |-> Decimal(imei[i])]
  BY <1>1
<1>3. \A i \in 1..15 : Decimal(imei[i]) \in Seq(Nat)
  BY <1>1, DecimalDigits
<1>4. q \in Seq(Seq(Nat)) /\ Len(q) = 15
  BY <1>2, <1>3
<1> HIDE DEF q
<1>5. \A i \in 1..15 : Len(q[i]) >= 1 /\ (imei[i] \in 0..9 => Len(q[i]) = 1 /\ q[i][1] = imei[i])
                       /\ (imei[i] \notin 0..9 => Len(q[i]) > 1)
  <2>1. ASSUME NEW i \in 1..15
        PROVE  Len(q[i]) >= 1 /\ (imei[i] \in 0..9 => Len(q[i]) = 1 /\ q[i][1] = imei[i])
               /\ (imei[i] \notin 0..9 => Len(q[i]) > 1)
    <3> DEFINE b == imei[i]
    <3>1. b \in 0..255 /\ q[i] = Decimal(b)
      BY <1>1
    <3> HIDE DEF b
    <3>2. /\ Len(Decimal(b)) >= 1
          /\ b \in 0..9 => Len(Decimal(b)) = 1 /\ Decimal(b)[1] = b
          /\ b \notin 0..9 => Len(Decimal(b)) > 1
      BY <3>1, DecimalDigits
    <3>3. QED
      BY <3>1, <3>2 DEF b
  <2>2. QED
    BY <2>1
<1>6. back = Joined(q, 15) /\ back \in Seq(Nat)
  BY <1>4, FlattenIsJoined, FlattenParts
<1>7. \A n \in 0..15 : /\ (\A j \in 1..n : Len(q[j]) = 1) => Len(Joined(q, n)) = n
                       /\ (\E j \in 1..n : Len(q[j]) > 1) => Len(Joined(q, n)) > n
  BY <1>4, <1>5, JoinedLength
<1>8. ASSUME IsImei(imei) PROVE back = imei
  <2>1. \A j \in 1..15 : Len(q[j]) = 1 /\ q[j][1] = imei[j]
    BY <1>5, <1>8 DEF IsImei
  <2>2. Len(back) = 15
    <3>1. 15 \in 0..15
      OBVIOUS
    <3>2. QED
      BY <1>6, <1>7, <2>1, <3>1
  <2>3. ASSUME NEW i \in 1..15 PROVE back[i] = imei[i]
    <3>1. i - 1 \in 0..15 /\ (\A j \in 1..i - 1 : j \in 1..15) /\ i \in 1..Len(q) /\ (i - 1) + 1 = i
      BY <1>4
    <3>2. Len(Joined(q, i - 1)) = i - 1
      BY <1>7, <2>1, <3>1
    <3>4. back[(i - 1) + 1] = q[i][1]
      <4>1. FlattenSeq(q)[Len(Joined(q, i - 1)) + 1] = q[i][1]
        BY <1>4, <2>1, <3>1, FirstAt
      <4>2. QED
        BY <3>2, <4>1
    <3>5. QED
      BY <2>1, <3>1, <3>4
  <2> HIDE DEF back
  <2>4. back = [i \in 1..15 |-> back[i]]
    BY <1>6, <2>2, SeqIsFunction
  <2>5. imei = [i \in 1..15 |-> imei[i]]
    BY SeqIsFunction
  <2>6. QED
    BY <2>3, <2>4, <2>5
<1>9. ASSUME ~IsImei(imei) PROVE ~IsImei(back)
  <2>1. PICK j \in 1..15 : imei[j] \notin 0..9
    BY <1>9 DEF IsImei
  <2>2. Len(q[j]) > 1
    BY <1>5, <2>1
  <2>3. Len(back) > 15
    <3>1. 15 \in 0..15
      OBVIOUS
    <3>2. QED
      BY <1>6, <1>7, <2>2, <3>1
  <2> HIDE DEF back
  <2>4. Len(back) # 15
    <3> DEFINE n == Len(back)
    <3>1. n \in Nat /\ n > 15
      BY <1>6, <2>3
    <3> HIDE DEF n
    <3>2. n # 15
      BY <3>1
    <3>3. QED
      BY <3>2 DEF n
  <2>5. QED
    BY <2>4 DEF IsImei
<1>10. QED
  BY <1>8, <1>9 DEF q

(* A message that comes back has the header and the fields it was written   *)
(* with, as far as the reader stays in step: for every message, every       *)
(* number of fields of any length, and every order of the map.              *)
THEOREM RoundTripHolds == Spec => []RoundTrip
<1>1. WireInv => RoundTrip
  <2> SUFFICES ASSUME WireInv, stage = "decoded", damage = "none" PROVE RoundTrip
    BY DEF RoundTrip
  <2> DEFINE m == sent.message
             w == ToBinary(m)
             last == Len(m.fields) % 256
  <2>1. IsMessage(m) /\ got = FromBinary(w)
    BY DEF WireInv, LineInv, MessageInv
  <2> HIDE DEF m
  <2>2. /\ \E T : w \in Seq(T)
        /\ Len(w) = 26 + Len(FlattenSeq(Written(m))) /\ FlattenSeq(Written(m)) \in Seq(Nat)
    BY <2>1, Layout
  <2>3. w[1] = 170 /\ w[2] = 187 /\ w[3] = m.type /\ w[4] = m.major /\ w[5] = m.minor
    <3>1. HeaderAt(w, m)
      BY <2>1, Layout
    <3>2. QED
      BY <3>1 DEF HeaderAt
  <2>4. ImeiAt(w, m.imei)
    BY <2>1, Layout
  <2>5. NumberAt(w, LittleEndian(m.sequence))
    BY <2>1, Layout
  <2>6. w[25] = last
    BY <2>1, Layout
  <2>7. m.imei \in Seq(0..255) /\ m.sequence \in Nat
    BY <2>1, MessageParts
  <2> HIDE DEF w
  <2>8. Len(w) \in Nat /\ Len(w) >= 26
    BY <2>2
  <2> DEFINE back == FlattenSeq([i \in 1..15 |-> Decimal(w[i + 5])])
             read == ReadFields(w)[w[25]].fields
  <2>9. got = [thrown |-> FALSE, type |-> m.type, major |-> m.major, minor |-> m.minor,
               imei |-> back, sequence |-> SubSeq(w, 21, 24), fields |-> read]
    <3>1. ~(Len(w) < 25 \/ w[1] # 170 \/ w[2] # 187)
      BY <2>3, <2>8
    <3>2. QED
      BY <2>1, <2>3, <3>1 DEF FromBinary
  <2> HIDE DEF back, read
  <2>10. /\ ~got.thrown /\ got.type = m.type /\ got.major = m.major /\ got.minor = m.minor
         /\ got.imei = back /\ got.sequence = SubSeq(w, 21, 24) /\ got.fields = read
    BY <2>9
  <2>11. SubSeq(w, 21, 24) = LittleEndian(m.sequence)
    <3> DEFINE number == LittleEndian(m.sequence)
    <3>1. PICK T : w \in Seq(T)
      BY <2>2
    <3>2. number \in Seq(Nat) /\ Len(number) = 4
      BY <2>7, LittleEndianIsFour
    <3> HIDE DEF number
    <3>3. 20 + Len(number) <= Len(w) /\ \A k \in 1..Len(number) : w[20 + k] = number[k]
      BY <2>5, <2>8, <3>2 DEF number, NumberAt
    <3>4. SubSeq(w, 20 + 1, 20 + Len(number)) = number
      BY <3>1, <3>2, <3>3, PieceIsThere
    <3>5. 20 + 1 = 21 /\ 20 + Len(number) = 24
      BY <3>2
    <3>6. QED
      BY <3>4, <3>5 DEF number
  <2>12. /\ IsImei(m.imei) => got.imei = m.imei
         /\ Len(m.imei) = 15 /\ ~IsImei(m.imei) => ~IsImei(got.imei)
    <3> SUFFICES ASSUME Len(m.imei) = 15
                 PROVE  /\ IsImei(m.imei) => back = m.imei
                        /\ ~IsImei(m.imei) => ~IsImei(back)
      BY <2>10 DEF IsImei
    <3>1. \A i \in 1..15 : w[5 + i] = m.imei[i]
      BY <2>4 DEF ImeiAt
    <3>2. QED
      BY <2>7, <3>1, ImeiReadBack DEF back
  <2>13. ASSUME NEW i \in 1..last, \A j \in 1..i : InStep(m.fields[j]), Kept(m.fields[i])
         PROVE  /\ m.fields[i][1] \in DOMAIN got.fields
                /\ got.fields[m.fields[i][1]] = m.fields[i][2]
    <3>1. last \in Nat
      <4>1. m.fields \in Seq(Seq(0..255) \X [type : 0..13, data : Seq(0..255)])
        BY <2>1, MessageParts
      <4>2. Len(m.fields) \in Nat
        BY <4>1
      <4> DEFINE n == Len(m.fields)
      <4> HIDE DEF n
      <4>3. n \in Nat
        BY <4>2 DEF n
      <4>4. n % 256 \in Nat
        BY <4>3
      <4>5. QED
        BY <4>4 DEF n
    <3> DEFINE r == ReadFields(w)[i].fields
               name == m.fields[i][1]
    <3>2. name \in DOMAIN r /\ r[name] = m.fields[i][2]
      <4>1. i \in 0..last /\ i \in 1..i
        <5> HIDE DEF last
        <5>1. QED
          BY <3>1
      <4>2. \A j \in 1..i : Kept(m.fields[j]) =>
              m.fields[j][1] \in DOMAIN r /\ r[m.fields[j][1]] = m.fields[j][2]
        BY <2>1, <2>13, <4>1, ReadInStep DEF w
      <4>3. QED
        BY <2>13, <4>1, <4>2
    <3>3. i \in 0..w[25] /\ w[25] \in Nat
      <4> HIDE DEF last
      <4>1. QED
        BY <2>6, <3>1
    <3> HIDE DEF name
    <3>4. name \in DOMAIN read /\ read[name] = r[name]
      BY <3>2, <3>3, ReadStays DEF read
    <3>5. QED
      BY <2>10, <3>2, <3>4 DEF name
  <2> HIDE DEF last
  <2>14. QED
    BY <2>10, <2>11, <2>12, <2>13 DEF RoundTrip, m, last
<1>2. QED
  BY <1>1, Invariance, PTL

LEMMA UnknownReadBack ==
  ASSUME NEW data, NEW e \in Nat, data[e + 1] = 7
  PROVE  ReadValue(data, e) = [offset |-> e + 1, value |-> {}]
BY DEF ReadValue, Bool, Int8, UInt8, Float, Text

(* A field of type 7 adds nothing to the fields, whether its turn comes or not. *)
LEMMA UnknownAddsNothing ==
  ASSUME NEW T, NEW data \in Seq(T), NEW s, IsReader(s), s.offset \in Nat,
         NEW field \in Seq(0..255) \X [type : 0..13, data : Seq(0..255)],
         Len(field[1]) < 256, field[2].type = UInt32,
         \A k \in 1..Len(WriteField(field)) : data[s.offset + k] = WriteField(field)[k]
  PROVE  ReadField(data, s).fields = s.fields
<1> DEFINE n == Len(field[1])
           V == WriteValue(field[2])
           W == WriteField(field)
           o == s.offset
           e == o + 1 + n
           over == [s EXCEPT !.stop = TRUE]
<1>1. /\ n \in Nat /\ V \in Seq(Nat) /\ W \in Seq(Nat)
      /\ Len(W) = 1 + n + Len(V) /\ W[1] = n
      /\ \A k \in 1..Len(V) : W[1 + n + k] = V[k]
  BY FieldWritten
<1>2. Len(V) >= 1 /\ V[1] = 7 /\ Len(V) \in Nat
  <2> DEFINE d == field[2].data
  <2>1. d \in Seq(Nat) /\ Len(d) \in Nat
    <3>1. d \in Seq(0..255)
      OBVIOUS
    <3>2. QED
      BY <3>1, BytesAreNumbers
  <2>2. V = <<7>> \o d
    BY DEF WriteValue, UInt32, Text, Binary
  <2> HIDE DEF d, V
  <2>3. <<7>> \in Seq(Nat) /\ Len(<<7>>) = 1 /\ <<7>>[1] = 7
    OBVIOUS
  <2>4. Len(<<7>> \o d) = Len(<<7>>) + Len(d) /\ \A k \in 1..Len(<<7>>) : (<<7>> \o d)[k] = <<7>>[k]
    BY <2>1, <2>3, ConcatParts
  <2>5. QED
    BY <2>1, <2>2, <2>3, <2>4
<1> HIDE DEF n, V, W, o
<1>3. Len(W) >= n + 2 /\ Len(W) \in Nat /\ o \in Nat
  <2>1. o \in Nat
    BY DEF o
  <2> DEFINE l == Len(V)
  <2>2. l \in Nat /\ l >= 1 /\ Len(W) = 1 + n + l
    BY <1>1, <1>2
  <2> HIDE DEF l
  <2>3. QED
    BY <1>1, <2>1, <2>2
<1>4. \A k \in 1..Len(W) : data[o + k] = W[k]
  BY DEF o, W
<1>5. data[o + 1] = n
  <2>1. 1 \in 1..Len(W)
    BY <1>1, <1>3
  <2>2. QED
    BY <1>1, <1>4, <2>1
<1>6. data[e + 1] = 7
  <2>1. n + 2 \in 1..Len(W) /\ o + (n + 2) = e + 1 /\ 1 + n + 1 = n + 2
    BY <1>1, <1>3
  <2>2. W[1 + n + 1] = V[1]
    <3>1. 1 \in 1..Len(V)
      BY <1>2
    <3>2. QED
      BY <1>1, <3>1
  <2>3. data[o + (n + 2)] = W[n + 2]
    BY <1>4, <2>1
  <2> HIDE DEF e
  <2>4. QED
    BY <1>2, <2>1, <2>2, <2>3
<1>7. ReadValue(data, e) = [offset |-> e + 1, value |-> {}]
  <2>1. e \in Nat
    BY <1>1, <1>3
  <2> HIDE DEF e
  <2>2. QED
    BY <1>6, <2>1, UnknownReadBack
<1> DEFINE on == [stop |-> FALSE, offset |-> ReadValue(data, e).offset,
                  fields |-> AddField(s.fields, SubSeq(data, s.offset + 2, e), ReadValue(data, e).value)]
<1>8. ReadField(data, s) \in {on, over}
  <2>1. s.offset + 1 + data[s.offset + 1] = e
    BY <1>5 DEF o
  <2> HIDE DEF e
  <2>2. QED
    BY <2>1 DEF ReadField
<1>9. on.fields = s.fields
  <2> HIDE DEF e
  <2>1. ReadValue(data, e).value = {}
    BY <1>7
  <2>2. AddField(s.fields, SubSeq(data, s.offset + 2, e), {}) = s.fields
    BY DEF AddField
  <2>3. QED
    BY <2>1, <2>2
<1>10. over.fields = s.fields
  <2> DEFINE a == s.stop
             b == s.offset
             c == s.fields
             t == [stop |-> a, offset |-> b, fields |-> c]
  <2>1. s = t
    BY DEF IsReader
  <2>2. over = [t EXCEPT !.stop = TRUE]
    BY <2>1
  <2> HIDE DEF a, b, c, over
  <2>3. over = [stop |-> TRUE, offset |-> b, fields |-> c]
    BY <2>2
  <2>4. over.fields = c
    BY <2>3
  <2>5. QED
    BY <2>4 DEF c
<1> HIDE DEF on, over
<1>11. QED
  BY <1>8, <1>9, <1>10

(* A field starts on the wire where those before it end. *)
LEMMA FieldInPlace ==
  ASSUME NEW m, IsMessage(m), NEW p \in 1..Len(m.fields)
  PROVE  LET o == 25 + Len(Joined(Written(m), p - 1))
             W == WriteField(m.fields[p])
         IN  o \in Nat /\ \A k \in 1..Len(W) : ToBinary(m)[o + k] = W[k]
<1> DEFINE w == ToBinary(m)
           q == Written(m)
           F == FlattenSeq(q)
           W == WriteField(m.fields[p])
           l == Len(Joined(q, p - 1))
<1>1. q \in Seq(Seq(Nat)) /\ Len(q) = Len(m.fields) /\ q[p] = W /\ p \in 1..Len(q)
  BY MessageParts
<1>2. F \in Seq(Nat) /\ \A k \in 1..Len(F) : w[25 + k] = F[k]
  <2>1. F \in Seq(Nat) /\ FieldsAt(w, F)
    BY Layout
  <2>2. QED
    BY <2>1 DEF FieldsAt
<1>3. W \in Seq(Nat) /\ Len(W) \in Nat
  <2>1. q[p] \in Seq(Nat)
    <3> HIDE DEF q, W
    <3>1. QED
      BY <1>1
  <2> HIDE DEF W, q
  <2>2. W \in Seq(Nat)
    BY <1>1, <2>1
  <2>3. QED
    BY <2>2
<1> HIDE DEF w, q, W
<1>4. l \in Nat
  <2>1. Len(q) \in Nat
    BY <1>1
  <2>2. p - 1 \in 0..Len(q)
    BY <1>1, <2>1
  <2>3. Joined(q, p - 1) \in Seq(Nat)
    BY <1>1, <2>2, JoinedStep
  <2>4. QED
    BY <2>3
<1>5. /\ l + Len(W) <= Len(F)
      /\ \A k \in 1..Len(W) : F[l + k] = W[k]
  BY <1>1, FlattenParts
<1>6. Len(F) \in Nat
  BY <1>2
<1> HIDE DEF l, F
<1>7. ASSUME NEW k \in 1..Len(W) PROVE w[(25 + l) + k] = W[k]
  <2>1. l + k \in 1..Len(F) /\ 25 + (l + k) = (25 + l) + k
    BY <1>3, <1>4, <1>5, <1>6
  <2>2. w[25 + (l + k)] = F[l + k]
    BY <1>2, <2>1
  <2>3. QED
    BY <1>5, <2>1, <2>2
<1>8. 25 + l \in Nat
  BY <1>4
<1>9. QED
  BY <1>7, <1>8 DEF l, w, q, W

LEMMA TypeReadLast ==
  ASSUME NEW m, IsMessage(m), Len(m.fields) \in 1..255,
         m.fields[Len(m.fields)][2].type = UInt32, Len(m.fields[Len(m.fields)][1]) < 256,
         \A j \in 1..Len(m.fields) - 1 : InStep(m.fields[j])
  PROVE  LET w == ToBinary(m)
         IN  m.fields[Len(m.fields)][1] \notin DOMAIN ReadFields(w)[w[25]].fields
<1> DEFINE w == ToBinary(m)
           N == Len(m.fields)
           R(n) == ReadFields(w)[n]
           o == 25 + Len(Joined(Written(m), N - 1))
           field == m.fields[N]
           name == field[1]
<1>1. m.fields \in Seq(Seq(0..255) \X [type : 0..13, data : Seq(0..255)]) /\ IsFieldMap(m.fields)
  BY MessageParts
<1>2. N \in 1..255 /\ N \in Nat /\ N - 1 \in Nat /\ N % 256 = N /\ N <= N /\ N - 1 <= N
      /\ N - 1 \in 0..N /\ N \in 1..N
  <2> HIDE DEF N
  <2>1. N \in 1..255
    BY DEF N
  <2>2. N \in Nat /\ N < 256
    BY <2>1
  <2>3. N % 256 = N
    BY <2>2, SmallMod
  <2>4. QED
    BY <2>1, <2>3
<1>3. w[25] = N
  <2>1. w[25] = Len(m.fields) % 256
    BY Layout
  <2>2. QED
    BY <1>2, <2>1
<1>4. PICK T : w \in Seq(T)
  BY Layout
<1>5. R(N) = ReadField(w, R(N - 1))
  <2>1. ReadFields(w) =
          [n \in 0..w[25] |-> IF n = 0 THEN Start ELSE ReadField(w, ReadFields(w)[n - 1])]
    <3> HIDE DEF w, N
    <3>1. w[25] \in Nat
      BY <1>2, <1>3
    <3>2. QED
      BY <3>1, ReadFieldsDefined
  <2> HIDE DEF w, N
  <2>2. N \in 0..w[25] /\ N # 0
    BY <1>2, <1>3
  <2>3. QED
    BY <2>1, <2>2
<1>6. IsReader(R(N - 1))
  <2> HIDE DEF w, N
  <2>1. QED
    BY <1>2, <1>3, ReadersRead
<1>7. /\ R(N - 1).offset = o
      /\ \A x \in DOMAIN R(N - 1).fields : \E j \in 1..N - 1 : x = m.fields[j][1]
  <2>1. N - 1 \in 0..(Len(m.fields) % 256)
    BY <1>2
  <2> DEFINE i == N - 1
  <2>2. i \in 0..(Len(m.fields) % 256) /\ \A j \in 1..i : InStep(m.fields[j])
    BY <2>1
  <2> HIDE DEF i
  <2>3. /\ ReadFields(w)[i].offset = 25 + Len(Joined(Written(m), i))
        /\ \A x \in DOMAIN ReadFields(w)[i].fields : \E j \in 1..i : x = m.fields[j][1]
    BY <2>2, ReadInStep
  <2>4. QED
    BY <2>3 DEF i
<1>8. name \notin DOMAIN R(N - 1).fields
  <2>1. DOMAIN m.fields = 1..N
    BY <1>1
  <2> HIDE DEF N, R, o
  <2>2. ASSUME NEW j \in 1..N - 1, name = m.fields[j][1] PROVE FALSE
    <3>1. j \in 1..N /\ j # N
      BY <1>2
    <3>2. QED
      BY <1>1, <1>2, <2>1, <2>2, <3>1 DEF IsFieldMap
  <2>3. QED
    BY <1>7, <2>2
<1>9. field \in Seq(0..255) \X [type : 0..13, data : Seq(0..255)]
  BY <1>1, <1>2
<1>10. o \in Nat /\ \A k \in 1..Len(WriteField(field)) : w[o + k] = WriteField(field)[k]
  <2> HIDE DEF N
  <2>1. N \in 1..Len(m.fields)
    BY <1>2 DEF N
  <2>2. QED
    BY <2>1, FieldInPlace
<1>11. Len(field[1]) < 256 /\ field[2].type = UInt32
  OBVIOUS
<1> DEFINE s == R(N - 1)
<1>12. s.offset \in Nat /\ \A k \in 1..Len(WriteField(field)) : w[s.offset + k] = WriteField(field)[k]
  <2> HIDE DEF field, w, o, s
  <2>1. s.offset = o
    BY <1>7 DEF s
  <2>2. QED
    BY <1>10, <2>1
<1>13. ReadField(w, s).fields = s.fields
  <2> HIDE DEF field, w
  <2>1. IsReader(s)
    BY <1>6
  <2> HIDE DEF s
  <2>2. QED
    BY <1>4, <1>9, <1>11, <1>12, <2>1, UnknownAddsNothing
<1> HIDE DEF w, N, name
<1>14. R(N).fields = R(N - 1).fields
  BY <1>5, <1>13
<1>15. QED
  BY <1>3, <1>8, <1>14 DEF w, N, name

(* Where the reader goes from a value, in step or not, and that it reads    *)
(* nothing of a type that it does not know.                                 *)
LEMMA ValueRead ==
  ASSUME NEW data \in Seq(Nat), NEW e \in Nat, e < Len(data)
  PROVE  /\ ReadValue(data, e).offset \in Nat
         /\ data[e + 1] \notin Known => ReadValue(data, e).value = {}
<1> DEFINE type == data[e + 1]
           left == Len(data) - (e + 1)
           width == IF type = Float THEN 4 ELSE 1
           bytes == SubSeq(data, e + 2, e + 1 + width)
           length == bytes[1]
           whole == [offset |-> e + 1 + width, value |-> {[type |-> type, data |-> bytes]}]
           bool == [offset |-> e + 2,
                    value |-> {[type |-> Bool, data |-> IF bytes = <<0>> THEN <<0>> ELSE <<1>>]}]
           found == [offset |-> e + 2 + length,
                     value |-> {[type |-> Text, data |-> SubSeq(data, e + 3, e + 2 + length)]}]
           lost == [offset |-> e + 2, value |-> {}]
           text == IF length < left THEN found ELSE lost
           other == [offset |-> e + 1, value |-> {}]
<1>1. ReadValue(data, e) =
        CASE type \in {Int8, UInt8, Float} /\ left >= width -> whole
          [] type = Bool /\ left >= 1 -> bool
          [] type = Text /\ left >= 1 -> text
          [] OTHER -> other
  BY DEF ReadValue
<1>2. type = Text /\ left >= 1 => length \in Nat
  <2> SUFFICES ASSUME type = Text, left >= 1 PROVE length \in Nat
    OBVIOUS
  <2>1. width = 1
    BY DEF Text, Float
  <2>2. e + 2 \in 1..Len(data) /\ e + 1 + 1 = e + 2
    OBVIOUS
  <2>3. SubSeq(data, e + 2, e + 2)[1] = data[e + 2]
    BY <2>2
  <2>4. QED
    BY <2>1, <2>2, <2>3
<1>3. /\ whole.offset \in Nat /\ bool.offset \in Nat /\ lost.offset \in Nat /\ other.offset \in Nat
      /\ lost.value = {} /\ other.value = {}
  <2> HIDE DEF bytes, type
  <2>1. QED
    OBVIOUS
<1>4. length \in Nat => found.offset \in Nat
  <2> HIDE DEF length
  <2>1. QED
    OBVIOUS
<1>5. type \notin Known => type \notin {Int8, UInt8, Float} /\ type # Bool /\ type # Text
  BY DEF Known
<1> HIDE DEF type, left, width, bytes, length, whole, bool, found, lost, other
<1>6. CASE type \in Known
  <2>1. \/ ReadValue(data, e) \in {whole, bool, other}
        \/ type = Text /\ left >= 1 /\ ReadValue(data, e) \in {found, lost}
    <3>1. text \in {found, lost}
      BY DEF text
    <3>2. QED
      BY <1>1, <3>1
  <2>2. QED
    BY <1>2, <1>3, <1>4, <1>6, <2>1 DEF type
<1>7. CASE type \notin Known
  <2>1. ReadValue(data, e) = other
    BY <1>1, <1>5, <1>7
  <2>2. QED
    BY <1>3, <2>1
<1>8. QED
  BY <1>6, <1>7

(* A turn does not read the name of the type field where it cannot be read. *)
LEMMA UnreadTurn ==
  ASSUME NEW data \in Seq(Nat), ~NameReadable(data),
         NEW s, IsReader(s), s.offset \in Nat, CommandTypeName \notin DOMAIN s.fields
  PROVE  ReadField(data, s).offset \in Nat /\ CommandTypeName \notin DOMAIN ReadField(data, s).fields
<1> DEFINE o == s.offset
           i == o + 1
           nameEnd == o + 1 + data[o + 1]
           name == SubSeq(data, o + 2, nameEnd)
           read == ReadValue(data, nameEnd)
           fields == AddField(s.fields, name, read.value)
           on == [stop |-> FALSE, offset |-> read.offset, fields |-> fields]
           over == [s EXCEPT !.stop = TRUE]
           stops == s.stop \/ o >= Len(data) - 1 \/ nameEnd >= Len(data)
<1>1. ReadField(data, s) = IF stops THEN over ELSE on
  BY DEF ReadField
<1>2. CASE stops
  <2>1. over.offset = s.offset /\ over.fields = s.fields
    <3> DEFINE a == s.stop
               b == s.offset
               c == s.fields
               t == [stop |-> a, offset |-> b, fields |-> c]
    <3>1. s = t
      BY DEF IsReader
    <3>2. over = [t EXCEPT !.stop = TRUE]
      BY <3>1
    <3> HIDE DEF a, b, c, over
    <3>3. over = [stop |-> TRUE, offset |-> b, fields |-> c]
      BY <3>2
    <3>4. QED
      BY <3>3 DEF b, c
  <2> HIDE DEF stops, over, on
  <2>2. ReadField(data, s) = over
    BY <1>1, <1>2
  <2>3. QED
    BY <2>1, <2>2
<1>3. CASE ~stops
  <2>1. i \in 1..Len(data) /\ o \in Nat /\ Len(data) \in Nat /\ o + 2 = i + 1
    BY <1>3
  <2>2. data[i] \in Nat
    BY <2>1
  <2>3. nameEnd = i + data[i] /\ nameEnd \in Nat /\ nameEnd < Len(data)
    <3>1. ~(nameEnd >= Len(data)) /\ nameEnd = i + data[i]
      BY <1>3
    <3> HIDE DEF i, nameEnd
    <3>2. QED
      BY <2>1, <2>2, <3>1
  <2>4. name = CommandTypeName => data[nameEnd + 1] \notin Known
    <3>1. name = SubSeq(data, i + 1, i + data[i])
      BY <2>1, <2>3
    <3> HIDE DEF i, name, nameEnd
    <3>2. QED
      BY <2>1, <2>3, <3>1 DEF NameReadable
  <2>5. read.offset \in Nat /\ (data[nameEnd + 1] \notin Known => read.value = {})
    <3> HIDE DEF nameEnd
    <3>1. QED
      BY <2>3, ValueRead
  <2>6. CommandTypeName \notin DOMAIN fields
    <3> HIDE DEF name, nameEnd, read
    <3>1. CASE name = CommandTypeName
      BY <2>4, <2>5, <3>1 DEF AddField
    <3>2. CASE name # CommandTypeName
      <4> DEFINE v == CHOOSE u \in read.value : TRUE
      <4>1. fields = s.fields \/ fields = [n \in DOMAIN s.fields \cup {name} |-> IF n = name THEN v ELSE s.fields[n]]
        BY DEF AddField
      <4> HIDE DEF v, fields
      <4>2. DOMAIN fields \subseteq DOMAIN s.fields \cup {name}
        BY <4>1
      <4>3. QED
        BY <3>2, <4>2
    <3>3. QED
      BY <3>1, <3>2
  <2> HIDE DEF stops, over, fields, read
  <2>7. ReadField(data, s) = on
    BY <1>1, <1>3
  <2>8. on.offset = read.offset /\ on.fields = fields
    OBVIOUS
  <2> HIDE DEF on
  <2>9. QED
    BY <2>5, <2>6, <2>7, <2>8
<1>4. QED
  BY <1>2, <1>3

LEMMA NameUnread ==
  ASSUME NEW data \in Seq(Nat), ~NameReadable(data), data[25] \in Nat
  PROVE  CommandTypeName \notin DOMAIN ReadFields(data)[data[25]].fields
<1> DEFINE R(k) == ReadFields(data)[k]
           last == data[25]
           Fine(s) == IsReader(s) /\ s.offset \in Nat /\ CommandTypeName \notin DOMAIN s.fields
           Good == {k \in Nat : k <= last => Fine(R(k))}
<1>1. R(0) = Start /\ \A k \in 1..last : R(k) = ReadField(data, R(k - 1))
  BY ReadFieldsDefined
<1> HIDE DEF R
<1>2. 0 \in Good
  <2>1. Fine(Start)
    BY DEF Start, IsReader
  <2>2. QED
    BY <1>1, <2>1
<1>3. ASSUME NEW k \in Nat, k \in Good PROVE k + 1 \in Good
  <2>1. CASE k + 1 <= last
    <3>1. k <= last /\ k + 1 \in 1..last /\ (k + 1) - 1 = k
      BY <2>1
    <3>2. R(k + 1) = ReadField(data, R(k))
      BY <1>1, <3>1
    <3>3. Fine(R(k))
      BY <1>3, <3>1
    <3>4. Fine(R(k + 1))
      BY <3>2, <3>3, ReadFieldKeeps, UnreadTurn
    <3> HIDE DEF Fine
    <3>5. QED
      BY <3>4
  <2>2. CASE ~(k + 1 <= last)
    BY <2>2
  <2>3. QED
    BY <2>1, <2>2
<1>4. Nat \subseteq Good
  <2> HIDE DEF Good
  <2>1. QED
    BY <1>2, <1>3, SetInduction
<1>5. last \in Good
  <2> HIDE DEF Good
  <2>1. QED
    BY <1>4
<1>6. QED
  BY <1>5 DEF R

(* Command::getType recovers the type of a command that was written and     *)
(* read back, as CommandKeepsType says it, for every type, every IMEI, all  *)
(* parameters and every order of the map: the type field is never read, and *)
(* a field of its name only where the name can be read in what was written. *)
THEOREM CommandKeepsTypeHolds == Spec => []CommandKeepsType
<1>1. WireInv /\ RoundTrip => CommandKeepsType
  <2> SUFFICES ASSUME WireInv, RoundTrip, stage = "decoded", from = "command", damage = "none",
                      ~NameReadable(wire) \/ TypeFieldLast
               PROVE  GetType(got.type, got.fields) = IF sent.type \in 1..4 THEN sent.type ELSE 1
    BY DEF CommandKeepsType, CommandTypes
  <2> DEFINE m == sent.message
             w == ToBinary(m)
  <2>1. /\ IsMessage(m) /\ got = FromBinary(w) /\ wire = w
        /\ sent.type \in 1..7 /\ m.type = MessageTypeOf(sent.type)
    BY DEF WireInv, LineInv, MessageInv
  <2>2. ~got.thrown /\ got.type = m.type
    BY DEF RoundTrip
  <2>3. got.fields = ReadFields(w)[w[25]].fields
    <3> DEFINE refused == [thrown |-> TRUE]
               taken == [thrown |-> FALSE, type |-> w[3], major |-> w[4], minor |-> w[5],
                         imei |-> FlattenSeq([i \in 1..15 |-> Decimal(w[i + 5])]),
                         sequence |-> SubSeq(w, 21, 24),
                         fields |-> ReadFields(w)[w[25]].fields]
    <3>1. got \in {refused, taken}
      BY <2>1 DEF FromBinary
    <3>2. refused.thrown /\ taken.fields = ReadFields(w)[w[25]].fields
      OBVIOUS
    <3> HIDE DEF refused, taken, w
    <3>3. QED
      BY <2>2, <3>1, <3>2
  <2>4. CommandTypeName \notin DOMAIN got.fields
    <3>1. CASE ~NameReadable(wire)
      <4> HIDE DEF m
      <4>1. w \in Seq(Nat) /\ Len(w) = 26 + Len(FlattenSeq(Written(m))) /\ FlattenSeq(Written(m)) \in Seq(Nat)
        BY <2>1, Layout
      <4>2. 25 \in 1..Len(w)
        <5> DEFINE l == Len(FlattenSeq(Written(m)))
        <5>1. l \in Nat
          BY <4>1
        <5> HIDE DEF l, w
        <5>2. QED
          BY <4>1, <5>1 DEF l
      <4> HIDE DEF w
      <4>3. w[25] \in Nat
        BY <4>1, <4>2
      <4>4. QED
        BY <2>1, <2>3, <3>1, <4>1, <4>3, NameUnread
    <3>2. CASE TypeFieldLast
      <4> DEFINE N == Len(m.fields)
      <4>1. /\ N \in 1..255 /\ m.fields[N][1] = CommandTypeName /\ m.fields[N][2].type = UInt32
            /\ Len(CommandTypeName) < 256 /\ \A j \in 1..N - 1 : InStep(m.fields[j])
        BY <3>2 DEF TypeFieldLast
      <4> HIDE DEF m
      <4>2. QED
        BY <2>1, <2>3, <4>1, TypeReadLast
    <3>3. QED
      BY <3>1, <3>2
  <2> HIDE DEF m
  <2>5. GetType(got.type, got.fields) = CommandTypeOf(MessageTypeOf(sent.type))
    BY <2>1, <2>2, <2>4 DEF GetType
  <2>6. CommandTypeOf(MessageTypeOf(sent.type)) = IF sent.type \in 1..4 THEN sent.type ELSE 1
    BY <2>1 DEF CommandTypeOf, MessageTypeOf
  <2>7. QED
    BY <2>5, <2>6
<1>2. QED
  BY <1>1, Invariance, RoundTripHolds, PTL
=============================================================================
