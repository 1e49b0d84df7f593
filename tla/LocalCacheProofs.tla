-------------------------- MODULE LocalCacheProofs --------------------------
(***************************************************************************)
(* The cache's list, index and order of use, for any number of             *)
(* identifiers, any size and any clock; and the plain set it implements.   *)
(***************************************************************************)
EXTENDS LocalCache, FiniteSetTheorems, WellFoundedInduction, TLAPS

-----------------------------------------------------------------------------
(* What a scan of a sequence keeps.  Induction is over sets of numbers.    *)

LEMMA SetInduction ==
  ASSUME NEW S, 0 \in S, \A n \in Nat : n \in S => n + 1 \in S
  PROVE  Nat \subseteq S
<1> DEFINE T == Nat \ S
           R == OpToRel(<, Nat)
<1> SUFFICES ASSUME T # {} PROVE FALSE
  OBVIOUS
<1>1. PICK x \in T : \A y \in T : ~ (<<y, x>> \in R)
  <2>1. IsWellFoundedOn(R, Nat)
    BY NatLessThanWellFounded
  <2>2. T \subseteq Nat
    OBVIOUS
  <2> HIDE DEF T, R
  <2>3. QED
    BY <2>1, <2>2, WFMin
<1>2. x - 1 \in T /\ x - 1 < x /\ x \in Nat
  OBVIOUS
<1>3. <<x - 1, x>> \in R
  BY <1>2 DEF OpToRel
<1>4. QED
  BY <1>1, <1>2, <1>3

(* One step of the scan. *)
Scan(s, S, i, q) == IF s[i] \in S THEN Append(q, s[i]) ELSE q

(* The recursion of Kept has a solution, and Kept is one. *)
LEMMA KeptDefined ==
  ASSUME NEW T, NEW s \in Seq(T), NEW S
  PROVE  Kept(s, S) = [i \in 0..Len(s) |->
                         IF i = 0 THEN <<>> ELSE Scan(s, S, i, Kept(s, S)[i - 1])]
<1> DEFINE Body(f, i) == IF i = 0 THEN <<>> ELSE Scan(s, S, i, f[i - 1])
           Good == {n \in Nat : \E f : f = [i \in 0..n |-> Body(f, i)]}
<1>1. 0 \in Good
  <2> DEFINE f == [i \in 0..0 |-> <<>>]
  <2>1. f = [i \in 0..0 |-> Body(f, i)]
    OBVIOUS
  <2>2. QED
    BY <2>1
<1>2. ASSUME NEW n \in Nat, n \in Good PROVE n + 1 \in Good
  <2>1. PICK f : f = [i \in 0..n |-> Body(f, i)]
    BY <1>2
  <2> DEFINE g == [i \in 0..n + 1 |-> IF i = n + 1 THEN Scan(s, S, i, f[n]) ELSE f[i]]
  <2>2. ASSUME NEW i \in 0..n + 1 PROVE g[i] = Body(g, i)
    <3>1. CASE i = n + 1
      BY <3>1
    <3>2. CASE i \in 0..n
      <4>1. i # 0 => g[i - 1] = f[i - 1]
        BY <3>2
      <4>2. f[i] = Body(f, i)
        BY <2>1, <3>2
      <4>3. g[i] = f[i]
        BY <3>2
      <4>4. QED
        BY <4>1, <4>2, <4>3
    <3>3. QED
      BY <3>1, <3>2
  <2>3. g = [i \in 0..n + 1 |-> Body(g, i)]
    <3> HIDE DEF Body
    <3>1. QED
      BY <2>2
  <2> HIDE DEF g, Body
  <2>4. QED
    BY <2>3
<1>3. Nat \subseteq Good
  <2> HIDE DEF Good
  <2>1. QED
    BY <1>1, <1>2, SetInduction
<1>4. \E f : f = [i \in 0..Len(s) |-> Body(f, i)]
  BY <1>3
<1>5. QED
  BY <1>4 DEF Kept, Scan

(* The elements of q occur in s, in this order. *)
Follows(q, s) ==
  \A a, b \in DOMAIN q :
    a < b => \E j, k \in DOMAIN s : j < k /\ s[j] = q[a] /\ s[k] = q[b]

Distinct(s) == \A i, j \in DOMAIN s : s[i] = s[j] => i = j

LEMMA KeptPrefix ==
  ASSUME NEW T, NEW s \in Seq(T), NEW S, NEW i \in 0..Len(s)
  PROVE  LET q == Kept(s, S)[i]
         IN  /\ q \in Seq(T) /\ Len(q) <= i
             /\ \A a \in DOMAIN q : \E j \in 1..i : q[a] = s[j] /\ s[j] \in S
             /\ \A j \in 1..i : s[j] \in S => \E a \in DOMAIN q : q[a] = s[j]
             /\ \A a, b \in DOMAIN q :
                  a < b => \E j, k \in 1..i : j < k /\ s[j] = q[a] /\ s[k] = q[b]
<1> DEFINE K(n) == Kept(s, S)[n]
           Type(n) == K(n) \in Seq(T) /\ Len(K(n)) <= n
           Only(n) == \A a \in DOMAIN K(n) : \E j \in 1..n : K(n)[a] = s[j] /\ s[j] \in S
           All(n) == \A j \in 1..n : s[j] \in S => \E a \in DOMAIN K(n) : K(n)[a] = s[j]
           Order(n) == \A a, b \in DOMAIN K(n) :
                         a < b => \E j, k \in 1..n : j < k /\ s[j] = K(n)[a] /\ s[k] = K(n)[b]
           Holds(n) == Type(n) /\ Only(n) /\ All(n) /\ Order(n)
           Good == {n \in Nat : n <= Len(s) => Holds(n)}
<1>1. K(0) = <<>>
  BY KeptDefined
<1>2. \A n \in 1..Len(s) : K(n) = Scan(s, S, n, K(n - 1))
  BY KeptDefined
<1>3. 0 \in Good
  <2>1. <<>> \in Seq(T) /\ Len(<<>>) = 0 /\ DOMAIN <<>> = {}
    OBVIOUS
  <2>2. Holds(0)
    <3>1. Type(0)
      BY <1>1, <2>1
    <3>2. Only(0) /\ Order(0)
      BY <1>1, <2>1
    <3>3. All(0)
      OBVIOUS
    <3>4. QED
      BY <3>1, <3>2, <3>3
  <2> HIDE DEF Holds
  <2>3. QED
    BY <2>2
<1>4. ASSUME NEW n \in Nat, n \in Good PROVE n + 1 \in Good
  <2> SUFFICES ASSUME n + 1 <= Len(s) PROVE Holds(n + 1)
    OBVIOUS
  <2>1. Holds(n)
    <3>1. Len(s) \in Nat
      OBVIOUS
    <3> HIDE DEF Holds
    <3>2. QED
      BY <1>4, <3>1
  <2>2. s[n + 1] \in T
    OBVIOUS
  <2>3. K(n + 1) = IF s[n + 1] \in S THEN Append(K(n), s[n + 1]) ELSE K(n)
    BY <1>2 DEF Scan
  <2> DEFINE q == K(n)
             r == K(n + 1)
  <2>4. q \in Seq(T) /\ Len(q) <= n
    BY <2>1
  <2>5. Only(n) /\ All(n) /\ Order(n)
    BY <2>1
  <2>6. r = IF s[n + 1] \in S THEN Append(q, s[n + 1]) ELSE q
    BY <2>3
  <2> HIDE DEF K
  <2>7. CASE s[n + 1] \notin S
    <3>1. r = q
      BY <2>6, <2>7
    <3>2. Type(n + 1) /\ Only(n + 1)
      BY <3>1, <2>4, <2>5
    <3>3. All(n + 1)
      BY <3>1, <2>5, <2>7
    <3>4. Order(n + 1)
      BY <3>1, <2>5
    <3>5. QED
      BY <3>2, <3>3, <3>4
  <2>8. CASE s[n + 1] \in S
    <3>1. r = Append(q, s[n + 1])
      BY <2>6, <2>8
    <3>2. /\ r \in Seq(T) /\ Len(r) = Len(q) + 1 /\ DOMAIN r = 1..Len(q) + 1
          /\ DOMAIN q = 1..Len(q) /\ Len(q) \in Nat
          /\ \A a \in DOMAIN q : r[a] = q[a]
          /\ r[Len(q) + 1] = s[n + 1]
      <4> HIDE DEF q, r
      <4>1. r \in Seq(T) /\ Len(r) = Len(q) + 1 /\ Len(q) \in Nat
        BY <3>1, <2>2, <2>4
      <4>2. DOMAIN q = 1..Len(q) /\ DOMAIN r = 1..Len(r)
        BY <4>1, <2>4
      <4>3. \A a \in DOMAIN q : r[a] = q[a]
        BY <3>1, <2>2, <2>4
      <4>4. r[Len(q) + 1] = s[n + 1]
        BY <3>1, <2>2, <2>4
      <4>5. QED
        BY <4>1, <4>2, <4>3, <4>4
    <3>8. \A a \in DOMAIN r : a = Len(q) + 1 \/ a \in DOMAIN q
      BY <3>2
    <3>3. Type(n + 1)
      BY <3>2, <2>4
    <3>4. Only(n + 1)
      BY <3>2, <3>8, <2>5, <2>8
    <3>5. All(n + 1)
      <4> SUFFICES ASSUME NEW j \in 1..n + 1, s[j] \in S
                   PROVE  \E a \in DOMAIN r : r[a] = s[j]
        OBVIOUS
      <4>1. CASE j = n + 1
        BY <4>1, <3>2
      <4>2. CASE j \in 1..n
        BY <4>2, <3>2, <2>5
      <4>3. QED
        BY <4>1, <4>2
    <3>6. ASSUME NEW a \in DOMAIN r, NEW b \in DOMAIN r, a < b
          PROVE  \E j, k \in 1..n + 1 : j < k /\ s[j] = r[a] /\ s[k] = r[b]
      <4>1. CASE b = Len(q) + 1
        BY <4>1, <3>2, <3>6, <2>5
      <4>2. CASE b # Len(q) + 1
        <5>1. a \in DOMAIN q /\ b \in DOMAIN q
          BY <4>2, <3>2, <3>6
        <5>2. PICK j \in 1..n, k \in 1..n : j < k /\ s[j] = q[a] /\ s[k] = q[b]
          BY <5>1, <3>6, <2>5
        <5>3. j \in 1..n + 1 /\ k \in 1..n + 1
          OBVIOUS
        <5>4. QED
          BY <5>1, <5>2, <5>3, <3>2
      <4>3. QED
        BY <4>1, <4>2
    <3>7. QED
      BY <3>3, <3>4, <3>5, <3>6
  <2>9. QED
    BY <2>7, <2>8
<1>5. Nat \subseteq Good
  <2> HIDE DEF Good
  <2>1. QED
    BY <1>3, <1>4, SetInduction
<1>6. Holds(i)
  BY <1>5
<1>7. QED
  BY <1>6

(* What Keep returns: the elements in S, no others, in their order. *)
LEMMA KeepFacts ==
  ASSUME NEW T, NEW s \in Seq(T), NEW S
  PROVE  /\ Keep(s, S) \in Seq(T) /\ Len(Keep(s, S)) <= Len(s)
         /\ Seqs!ToSet(Keep(s, S)) = Seqs!ToSet(s) \cap S
         /\ Follows(Keep(s, S), s)
<1> DEFINE q == Keep(s, S)
<1>1. q = Kept(s, S)[Len(s)] /\ Len(s) \in 0..Len(s) /\ DOMAIN s = 1..Len(s)
  BY DEF Keep
<1> HIDE DEF q
<1>2. /\ q \in Seq(T) /\ Len(q) <= Len(s)
      /\ \A a \in DOMAIN q : \E j \in 1..Len(s) : q[a] = s[j] /\ s[j] \in S
      /\ \A j \in 1..Len(s) : s[j] \in S => \E a \in DOMAIN q : q[a] = s[j]
      /\ \A a, b \in DOMAIN q :
           a < b => \E j, k \in 1..Len(s) : j < k /\ s[j] = q[a] /\ s[k] = q[b]
  BY <1>1, KeptPrefix
<1> DEFINE d == 1..Len(s)
<1>3. d = DOMAIN s
  BY <1>1
<1> HIDE DEF d
<1>4. Seqs!ToSet(q) = Seqs!ToSet(s) \cap S
  <2>1. \A a \in DOMAIN q : \E j \in DOMAIN s : q[a] = s[j] /\ s[j] \in S
    BY <1>2, <1>3 DEF d
  <2>2. \A j \in DOMAIN s : s[j] \in S => \E a \in DOMAIN q : q[a] = s[j]
    BY <1>2, <1>3 DEF d
  <2>3. QED
    BY <2>1, <2>2 DEF Seqs!ToSet
<1>5. Follows(q, s)
  <2> SUFFICES ASSUME NEW a \in DOMAIN q, NEW b \in DOMAIN q, a < b
               PROVE  \E j, k \in DOMAIN s : j < k /\ s[j] = q[a] /\ s[k] = q[b]
    BY DEF Follows
  <2>1. PICK j \in 1..Len(s), k \in 1..Len(s) : j < k /\ s[j] = q[a] /\ s[k] = q[b]
    BY <1>2
  <2>2. j \in DOMAIN s /\ k \in DOMAIN s
    BY <1>3 DEF d
  <2>3. QED
    BY <2>1, <2>2
<1>6. QED
  BY <1>2, <1>4, <1>5 DEF q

(* Follows is transitive, and hands down that no element is repeated. *)
LEMMA FollowsTransitive ==
  ASSUME NEW q, NEW s, NEW t, Follows(q, s), Follows(s, t)
  PROVE  Follows(q, t)
  BY DEF Follows

LEMMA FollowsDistinct ==
  ASSUME NEW T, NEW q \in Seq(T), NEW s \in Seq(T), Follows(q, s), Distinct(s)
  PROVE  Distinct(q)
<1> SUFFICES ASSUME NEW a \in DOMAIN q, NEW b \in DOMAIN q, a < b
             PROVE  q[a] # q[b]
  BY DEF Distinct
<1>1. QED
  BY DEF Follows, Distinct

(* A sequence that follows s and has only elements of S follows what Keep  *)
(* leaves of s, when no element of s is repeated.                          *)
LEMMA FollowsKeep ==
  ASSUME NEW T, NEW s \in Seq(T), NEW S, NEW q \in Seq(T),
         Follows(q, s), Distinct(s), Seqs!ToSet(q) \subseteq S
  PROVE  Follows(q, Keep(s, S))
<1> DEFINE k == Keep(s, S)
<1>1. k \in Seq(T) /\ Seqs!ToSet(k) = Seqs!ToSet(s) \cap S /\ Follows(k, s)
  BY KeepFacts
<1> HIDE DEF k
<1>2. SUFFICES ASSUME NEW a \in DOMAIN q, NEW b \in DOMAIN q, a < b
               PROVE  \E x, y \in DOMAIN k : x < y /\ k[x] = q[a] /\ k[y] = q[b]
  BY DEF Follows, k
<1>3. PICK i, j \in DOMAIN s : i < j /\ s[i] = q[a] /\ s[j] = q[b]
  BY <1>2 DEF Follows
<1>4. q[a] \in Seqs!ToSet(k) /\ q[b] \in Seqs!ToSet(k)
  BY <1>1, <1>3 DEF Seqs!ToSet
<1>5. PICK x, y \in DOMAIN k : k[x] = q[a] /\ k[y] = q[b]
  BY <1>4 DEF Seqs!ToSet
<1>6. x \in Nat /\ y \in Nat /\ i \in Nat /\ j \in Nat
  BY <1>1
<1>7. x # y
  BY <1>3, <1>5, <1>6 DEF Distinct
<1>8. ~ (y < x)
  <2>1. SUFFICES ASSUME y < x PROVE FALSE
    OBVIOUS
  <2>2. PICK u, v \in DOMAIN s : u < v /\ s[u] = q[b] /\ s[v] = q[a]
    BY <1>1, <1>5, <2>1 DEF Follows
  <2>3. u = j /\ v = i
    BY <1>3, <2>2 DEF Distinct
  <2>4. QED
    BY <1>3, <1>6, <2>2, <2>3
<1>9. QED
  BY <1>5, <1>6, <1>7, <1>8
-----------------------------------------------------------------------------
(* Lists of entries and the order of use. *)

Entries == [id : Ids, expiry : Times]
IdsOf(list) == [i \in DOMAIN list |-> list[i].id]

(* The entries of the list were used, the ones in front last. *)
Ordered(list, u) == Follows(IdsOf(list), u) /\ Listed(list) \subseteq Seqs!ToSet(u)

LEMMA IdsFacts ==
  ASSUME NEW list \in Seq(Entries)
  PROVE  /\ IdsOf(list) \in Seq(Ids)
         /\ Len(IdsOf(list)) = Len(list) /\ DOMAIN IdsOf(list) = DOMAIN list
         /\ \A i \in DOMAIN list : IdsOf(list)[i] = list[i].id
         /\ Seqs!ToSet(IdsOf(list)) = Listed(list)
<1>1. DOMAIN list = 1..Len(list) /\ Len(list) \in Nat
      /\ \A i \in DOMAIN list : list[i] \in Entries
  OBVIOUS
<1>2. IdsOf(list) \in [1..Len(list) -> Ids]
  BY <1>1 DEF IdsOf, Entries
<1>3. IdsOf(list) \in Seq(Ids) /\ Len(IdsOf(list)) = Len(list)
  BY <1>1, <1>2
<1>4. DOMAIN IdsOf(list) = DOMAIN list /\ \A i \in DOMAIN list : IdsOf(list)[i] = list[i].id
  BY DEF IdsOf
<1>5. QED
  BY <1>3, <1>4 DEF Listed, Seqs!ToSet

(* One element more in front of a sequence. *)
LEMMA Prefixed ==
  ASSUME NEW T, NEW s \in Seq(T), NEW x \in T
  PROVE  LET r == <<x>> \o s
         IN  /\ r \in Seq(T) /\ Len(r) = Len(s) + 1 /\ r[1] = x /\ 1 \in DOMAIN r
             /\ \A i \in DOMAIN s : i + 1 \in DOMAIN r /\ r[i + 1] = s[i]
             /\ \A i \in DOMAIN r : i # 1 => i - 1 \in DOMAIN s /\ r[i] = s[i - 1]
             /\ Seqs!ToSet(r) = Seqs!ToSet(s) \cup {x}
<1> DEFINE r == <<x>> \o s
<1>1. <<x>> \in Seq(T) /\ Len(<<x>>) = 1 /\ <<x>>[1] = x
  OBVIOUS
<1>2. r \in Seq(T) /\ Len(r) = Len(s) + 1 /\ Len(s) \in Nat
  BY <1>1
<1>3. DOMAIN s = 1..Len(s) /\ DOMAIN r = 1..Len(s) + 1
  BY <1>2
<1>4. r[1] = x
  OBVIOUS
<1>5. \A i \in 1..Len(s) : r[i + 1] = s[i]
  OBVIOUS
<1> HIDE DEF r
<1>6. \A i \in DOMAIN s : i + 1 \in DOMAIN r /\ r[i + 1] = s[i]
  BY <1>2, <1>3, <1>5
<1>7. \A i \in DOMAIN r : i # 1 => i - 1 \in DOMAIN s /\ r[i] = s[i - 1]
  <2> SUFFICES ASSUME NEW i \in DOMAIN r, i # 1
               PROVE  i - 1 \in DOMAIN s /\ r[i] = s[i - 1]
    OBVIOUS
  <2>1. i - 1 \in 1..Len(s) /\ (i - 1) + 1 = i
    BY <1>2, <1>3
  <2>2. QED
    BY <1>3, <1>5, <2>1
<1>8. 1 \in DOMAIN r
  BY <1>2, <1>3
<1>9. Seqs!ToSet(r) = Seqs!ToSet(s) \cup {x}
  <2>1. \A i \in DOMAIN r : r[i] \in Seqs!ToSet(s) \cup {x}
    BY <1>4, <1>7 DEF Seqs!ToSet
  <2>2. \A i \in DOMAIN s : s[i] \in Seqs!ToSet(r)
    BY <1>6 DEF Seqs!ToSet
  <2>3. x \in Seqs!ToSet(r)
    BY <1>4, <1>8 DEF Seqs!ToSet
  <2>4. QED
    BY <2>1, <2>2, <2>3 DEF Seqs!ToSet
<1>10. QED
  BY <1>2, <1>4, <1>6, <1>7, <1>8, <1>9, Zenon DEF r

LEMMA PrefixedFollows ==
  ASSUME NEW T, NEW q \in Seq(T), NEW s \in Seq(T), NEW x \in T,
         Follows(q, s), Seqs!ToSet(q) \subseteq Seqs!ToSet(s)
  PROVE  Follows(<<x>> \o q, <<x>> \o s)
<1> DEFINE r == <<x>> \o q
           t == <<x>> \o s
<1>1. /\ r \in Seq(T) /\ r[1] = x
      /\ \A i \in DOMAIN r : i # 1 => i - 1 \in DOMAIN q /\ r[i] = q[i - 1]
  BY Prefixed
<1>2. /\ t[1] = x /\ 1 \in DOMAIN t
      /\ \A i \in DOMAIN s : i + 1 \in DOMAIN t /\ t[i + 1] = s[i]
  BY Prefixed
<1> HIDE DEF r, t
<1>3. DOMAIN r = 1..Len(r) /\ DOMAIN s = 1..Len(s) /\ DOMAIN q = 1..Len(q)
      /\ Len(r) \in Nat /\ Len(s) \in Nat /\ Len(q) \in Nat
  BY <1>1
<1>4. SUFFICES ASSUME NEW a \in DOMAIN r, NEW b \in DOMAIN r, a < b
               PROVE  \E j, k \in DOMAIN t : j < k /\ t[j] = r[a] /\ t[k] = r[b]
  BY DEF Follows, r, t
<1>5. b # 1 /\ b - 1 \in DOMAIN q /\ r[b] = q[b - 1]
  BY <1>1, <1>3, <1>4
<1>6. CASE a = 1
  <2>1. PICK k \in DOMAIN s : s[k] = q[b - 1]
    BY <1>5 DEF Seqs!ToSet
  <2>2. k + 1 \in DOMAIN t /\ t[k + 1] = r[b] /\ 1 < k + 1
    BY <1>2, <1>3, <1>5, <2>1
  <2>3. QED
    BY <1>1, <1>2, <1>6, <2>2
<1>7. CASE a # 1
  <2>1. a - 1 \in DOMAIN q /\ r[a] = q[a - 1] /\ a - 1 < b - 1
    BY <1>1, <1>3, <1>4, <1>7
  <2>2. PICK j \in DOMAIN s, k \in DOMAIN s : j < k /\ s[j] = q[a - 1] /\ s[k] = q[b - 1]
    BY <1>5, <2>1 DEF Follows
  <2>3. j + 1 < k + 1
    BY <1>3, <2>2
  <2>4. QED
    BY <1>2, <1>5, <2>1, <2>2, <2>3
<1>8. QED
  BY <1>6, <1>7
(* What a scan of a list keeps is ordered as the list is. *)
LEMMA KeepOrdered ==
  ASSUME NEW list \in Seq(Entries), NEW u \in Seq(Ids), Ordered(list, u), NEW S
  PROVE  LET kept == Keep(list, S)
         IN  /\ kept \in Seq(Entries) /\ Len(kept) <= Len(list)
             /\ Seqs!ToSet(kept) = Seqs!ToSet(list) \cap S
             /\ Ordered(kept, u)
<1> DEFINE kept == Keep(list, S)
<1>1. /\ kept \in Seq(Entries) /\ Len(kept) <= Len(list)
      /\ Seqs!ToSet(kept) = Seqs!ToSet(list) \cap S /\ Follows(kept, list)
  BY KeepFacts
<1> HIDE DEF kept
<1>2. /\ DOMAIN IdsOf(list) = DOMAIN list /\ DOMAIN IdsOf(kept) = DOMAIN kept
      /\ \A i \in DOMAIN list : IdsOf(list)[i] = list[i].id
      /\ \A i \in DOMAIN kept : IdsOf(kept)[i] = kept[i].id
  BY <1>1, IdsFacts
<1>3. Follows(IdsOf(kept), IdsOf(list))
  <2> SUFFICES ASSUME NEW a \in DOMAIN IdsOf(kept), NEW b \in DOMAIN IdsOf(kept), a < b
               PROVE  \E j, k \in DOMAIN IdsOf(list) :
                        /\ j < k
                        /\ IdsOf(list)[j] = IdsOf(kept)[a] /\ IdsOf(list)[k] = IdsOf(kept)[b]
    BY DEF Follows
  <2>1. PICK j \in DOMAIN list, k \in DOMAIN list :
               j < k /\ list[j] = kept[a] /\ list[k] = kept[b]
    BY <1>1, <1>2 DEF Follows
  <2>2. QED
    BY <1>2, <2>1
<1>4. Follows(IdsOf(kept), u)
  BY <1>3, FollowsTransitive DEF Ordered
<1>5. Listed(kept) \subseteq Seqs!ToSet(u)
  BY <1>1 DEF Ordered, Listed
<1>6. QED
  BY <1>1, <1>4, <1>5 DEF Ordered, kept

(* No identifier is listed twice, so that the length is what is listed. *)
LEMMA OrderedDistinct ==
  ASSUME NEW list \in Seq(Entries), NEW u \in Seq(Ids), Ordered(list, u), Distinct(u)
  PROVE  /\ \A i, j \in DOMAIN list : list[i].id = list[j].id => i = j
         /\ \A d, e \in Seqs!ToSet(list) : d.id = e.id => d = e
         /\ IsFiniteSet(Listed(list)) /\ Cardinality(Listed(list)) = Len(list)
<1>1. Distinct(IdsOf(list))
  BY IdsFacts, FollowsDistinct DEF Ordered
<1>2. \A i, j \in DOMAIN list : list[i].id = list[j].id => i = j
  BY <1>1, IdsFacts DEF Distinct
<1>3. \A d, e \in Seqs!ToSet(list) : d.id = e.id => d = e
  BY <1>2 DEF Seqs!ToSet
<1> DEFINE q == IdsOf(list)
           n == Len(list)
<1>4. /\ n \in Nat /\ q \in [1..n -> Listed(list)]
      /\ \A i, j \in 1..n : q[i] = q[j] => i = j
      /\ \A m \in Listed(list) : \E i \in 1..n : q[i] = m
  <2>1. /\ q \in Seq(Ids) /\ Len(q) = n /\ n \in Nat
        /\ Seqs!ToSet(q) = Listed(list)
    BY IdsFacts
  <2> HIDE DEF q, n
  <2>2. DOMAIN q = 1..n /\ q = [i \in 1..n |-> q[i]]
    BY <2>1
  <2>3. QED
    BY <1>1, <2>1, <2>2 DEF q, Distinct, Seqs!ToSet
<1> HIDE DEF q, n
<1>5. q \in Bijection(1..n, Listed(list))
  <2>1. DOMAIN q = 1..n
    BY <1>4
  <2>2. q \in Injection(1..n, Listed(list)) /\ q \in Surjection(1..n, Listed(list))
    BY <1>4, <2>1, Zenon DEF Injection, IsInjective, Surjection
  <2>3. QED
    BY <2>2 DEF Bijection
<1>6. IsFiniteSet(1..n) /\ Cardinality(1..n) = n
  BY <1>4, FS_Interval
<1>7. IsFiniteSet(Listed(list)) /\ Cardinality(Listed(list)) = n
  BY <1>5, <1>6, FS_Bijection DEF ExistsBijection
<1>8. QED
  BY <1>2, <1>3, <1>7 DEF n

(* The last entry goes, which is evictLRU. *)
LEMMA FrontOrdered ==
  ASSUME NEW list \in Seq(Entries), NEW u \in Seq(Ids), Ordered(list, u), Distinct(u),
         Len(list) > 0
  PROVE  LET kept == Seqs!Front(list)
             last == Seqs!Last(list)
         IN  /\ kept \in Seq(Entries) /\ Len(kept) = Len(list) - 1
             /\ last \in Seqs!ToSet(list)
             /\ Seqs!ToSet(kept) = Seqs!ToSet(list) \ {last}
             /\ Listed(kept) = Listed(list) \ {last.id}
             /\ Ordered(kept, u)
<1> DEFINE kept == Seqs!Front(list)
           last == Seqs!Last(list)
           n == Len(list) - 1
<1>1. n \in Nat /\ n + 1 = Len(list) /\ DOMAIN list = 1..n + 1
  OBVIOUS
<1>2. kept \in Seq(Entries) /\ Len(kept) = n
  BY <1>1 DEF Seqs!Front
<1>3. \A i \in 1..n : kept[i] = list[i]
  BY <1>1 DEF Seqs!Front
<1>4. last = list[n + 1]
  BY <1>1 DEF Seqs!Last
<1> HIDE DEF kept, last, n
<1>5. DOMAIN kept = 1..n
  BY <1>1, <1>2
<1>6. \A d, e \in Seqs!ToSet(list) : d.id = e.id => d = e
  BY OrderedDistinct
<1>7. \A i, j \in DOMAIN list : list[i].id = list[j].id => i = j
  BY OrderedDistinct
<1>8. last \in Seqs!ToSet(list)
  BY <1>1, <1>4 DEF Seqs!ToSet
<1>9. Seqs!ToSet(kept) = Seqs!ToSet(list) \ {last}
  <2>1. ASSUME NEW i \in DOMAIN kept PROVE kept[i] \in Seqs!ToSet(list) \ {last}
    <3>1. i \in DOMAIN list /\ n + 1 \in DOMAIN list /\ i # n + 1
      BY <1>1, <1>5
    <3>2. list[i] # last
      BY <1>4, <1>7, <3>1
    <3>3. QED
      BY <1>3, <1>5, <3>1, <3>2 DEF Seqs!ToSet
  <2>2. ASSUME NEW i \in DOMAIN list, list[i] # last PROVE list[i] \in Seqs!ToSet(kept)
    <3>1. i \in 1..n
      BY <1>1, <1>4, <2>2
    <3>2. QED
      BY <1>3, <1>5, <3>1 DEF Seqs!ToSet
  <2>3. QED
    BY <2>1, <2>2 DEF Seqs!ToSet
<1>10. Listed(kept) = Listed(list) \ {last.id}
  BY <1>6, <1>8, <1>9 DEF Listed
<1>11. Follows(IdsOf(kept), u)
  <2>1. /\ DOMAIN IdsOf(list) = DOMAIN list /\ DOMAIN IdsOf(kept) = DOMAIN kept
        /\ \A i \in DOMAIN list : IdsOf(list)[i] = list[i].id
        /\ \A i \in DOMAIN kept : IdsOf(kept)[i] = kept[i].id
    BY <1>2, IdsFacts
  <2>2. \A i \in DOMAIN kept : i \in DOMAIN list /\ IdsOf(kept)[i] = IdsOf(list)[i]
    BY <1>1, <1>3, <1>5, <2>1
  <2>3. QED
    BY <2>1, <2>2 DEF Ordered, Follows
<1>12. QED
  BY <1>2, <1>8, <1>9, <1>10, <1>11 DEF Ordered, kept, last, n
(* An entry is put in front of a list without its identifier. *)
LEMMA PutInFront ==
  ASSUME NEW list \in Seq(Entries), NEW u \in Seq(Ids), Ordered(list, u), Distinct(u),
         NEW e \in Entries, e.id \notin Listed(list)
  PROVE  LET put == <<e>> \o list
             v == <<e.id>> \o Keep(u, Ids \ {e.id})
         IN  /\ put \in Seq(Entries) /\ Len(put) = Len(list) + 1
             /\ Seqs!ToSet(put) = Seqs!ToSet(list) \cup {e}
             /\ Listed(put) = Listed(list) \cup {e.id}
             /\ v \in Seq(Ids) /\ Distinct(v) /\ Ordered(put, v)
<1> DEFINE put == <<e>> \o list
           rest == Keep(u, Ids \ {e.id})
           v == <<e.id>> \o rest
           q == IdsOf(list)
<1>1. e.id \in Ids
  BY DEF Entries
<1>2. /\ put \in Seq(Entries) /\ Len(put) = Len(list) + 1 /\ put[1] = e
      /\ \A i \in DOMAIN put : i # 1 => i - 1 \in DOMAIN list /\ put[i] = list[i - 1]
      /\ Seqs!ToSet(put) = Seqs!ToSet(list) \cup {e}
  BY Prefixed
<1>3. Listed(put) = Listed(list) \cup {e.id}
  BY <1>2 DEF Listed
<1>4. /\ rest \in Seq(Ids) /\ Seqs!ToSet(rest) = Seqs!ToSet(u) \cap (Ids \ {e.id})
      /\ Follows(rest, u)
  BY KeepFacts
<1>5. Distinct(rest)
  BY <1>4, FollowsDistinct
<1>6. /\ v \in Seq(Ids) /\ v[1] = e.id
      /\ \A i \in DOMAIN v : i # 1 => i - 1 \in DOMAIN rest /\ v[i] = rest[i - 1]
      /\ Seqs!ToSet(v) = Seqs!ToSet(rest) \cup {e.id}
  <2> HIDE DEF rest
  <2>1. QED
    BY <1>1, <1>4, Prefixed
<1>7. q \in Seq(Ids) /\ Seqs!ToSet(q) = Listed(list) /\ Follows(q, u)
  BY IdsFacts DEF Ordered
<1>8. Seqs!ToSet(q) \subseteq Ids \ {e.id} /\ Seqs!ToSet(q) \subseteq Seqs!ToSet(rest)
  <2>1. \A i \in DOMAIN q : q[i] \in Ids
    BY <1>7
  <2>2. Seqs!ToSet(q) \subseteq Ids
    BY <2>1 DEF Seqs!ToSet
  <2>3. QED
    BY <1>4, <1>7, <2>2 DEF Ordered
<1>9. Follows(q, rest)
  BY <1>7, <1>8, FollowsKeep
<1>10. Follows(<<e.id>> \o q, v)
  BY <1>1, <1>4, <1>7, <1>8, <1>9, PrefixedFollows
<1>11. IdsOf(put) = <<e.id>> \o q
  <2>1. /\ IdsOf(put) \in Seq(Ids) /\ Len(IdsOf(put)) = Len(put)
        /\ DOMAIN IdsOf(put) = DOMAIN put
        /\ \A i \in DOMAIN put : IdsOf(put)[i] = put[i].id
    BY <1>2, IdsFacts
  <2>2. /\ Len(q) = Len(list) /\ DOMAIN q = DOMAIN list
        /\ \A i \in DOMAIN list : q[i] = list[i].id
    BY IdsFacts
  <2> DEFINE r == <<e.id>> \o q
  <2>3. /\ r \in Seq(Ids) /\ Len(r) = Len(q) + 1 /\ r[1] = e.id
        /\ \A i \in DOMAIN r : i # 1 => i - 1 \in DOMAIN q /\ r[i] = q[i - 1]
    BY <1>1, <1>7, Prefixed
  <2> HIDE DEF put, q, r
  <2>4. DOMAIN r = DOMAIN put /\ DOMAIN IdsOf(put) = DOMAIN put
    BY <1>2, <2>1, <2>2, <2>3
  <2>5. ASSUME NEW i \in DOMAIN put PROVE IdsOf(put)[i] = r[i]
    <3>1. CASE i = 1
      BY <1>2, <2>1, <2>3, <3>1
    <3>2. CASE i # 1
      BY <1>2, <2>1, <2>2, <2>3, <2>4, <3>2
    <3>3. QED
      BY <3>1, <3>2
  <2>6. IdsOf(put) = [i \in DOMAIN put |-> IdsOf(put)[i]]
    BY <2>1 DEF IdsOf
  <2>7. r = [i \in DOMAIN put |-> r[i]]
    BY <2>3, <2>4
  <2>8. [i \in DOMAIN put |-> IdsOf(put)[i]] = [i \in DOMAIN put |-> r[i]]
    BY <2>5
  <2>9. IdsOf(put) = r
    BY <2>6, <2>7, <2>8, Zenon
  <2>10. QED
    BY <2>9 DEF r
<1>12. Listed(put) \subseteq Seqs!ToSet(v)
  BY <1>3, <1>6, <1>7, <1>8
<1>13. Distinct(v)
  <2> HIDE DEF v, rest
  <2>1. e.id \notin Seqs!ToSet(rest)
    BY <1>4
  <2>2. \A i \in DOMAIN v : i \in Nat /\ (i # 1 => v[i] # e.id)
    BY <1>6, <2>1 DEF Seqs!ToSet
  <2> SUFFICES ASSUME NEW i \in DOMAIN v, NEW j \in DOMAIN v, v[i] = v[j]
               PROVE  i = j
    BY DEF Distinct
  <2>3. CASE i = 1 \/ j = 1
    BY <1>6, <2>2, <2>3
  <2>4. CASE i # 1 /\ j # 1
    <3>1. i - 1 = j - 1
      BY <1>5, <1>6, <2>4 DEF Distinct
    <3>2. QED
      BY <2>2, <3>1
  <2>5. QED
    BY <2>3, <2>4
<1> HIDE DEF put, v
<1>14. Ordered(put, v)
  BY <1>10, <1>11, <1>12 DEF Ordered
<1>15. QED
  BY <1>2, <1>3, <1>6, <1>13, <1>14 DEF put, v, rest
-----------------------------------------------------------------------------
(* The invariant.  The order of use is what the eviction depends on: the   *)
(* list has it, so that no identifier is listed twice, and the entry that  *)
(* is evicted is the one used longest ago.                                 *)
IInv ==
  /\ TypeOK
  /\ Distinct(used) /\ Ordered(cacheList, used)
  /\ cacheMap = Listed(cacheList)
  /\ Len(cacheList) <= MaxSize

LEMMA CacheInitial == Init => IInv
<1> SUFFICES ASSUME Init PROVE IInv
  OBVIOUS
<1>1. <<>> \in Seq(Ids) /\ <<>> \in Seq(Entries) /\ Len(<<>>) = 0 /\ DOMAIN <<>> = {}
  OBVIOUS
<1>2. Listed(<<>>) = {} /\ Distinct(<<>>) /\ Follows(IdsOf(<<>>), <<>>)
  BY <1>1 DEF Listed, Seqs!ToSet, Distinct, Follows, IdsOf
<1>3. TypeOK
  BY <1>1, LocalCacheAssumption DEF Init, TypeOK, Times, Entries
<1>4. QED
  BY <1>1, <1>2, <1>3, LocalCacheAssumption DEF Init, IInv, Ordered

(* The list after a cleanup, if one is due. *)
LEMMA SweptFacts ==
  ASSUME IInv
  PROVE  /\ Swept \in Seq(Entries) /\ Len(Swept) <= MaxSize
         /\ Ordered(Swept, used)
         /\ Seqs!ToSet(Swept) \subseteq Seqs!ToSet(cacheList)
         /\ \A e \in Seqs!ToSet(cacheList) : e \in Seqs!ToSet(Swept) \/ Expired(e)
         /\ Listed(Swept) \subseteq cacheMap
         /\ SweptMap = Listed(Swept)
<1>1. cacheList \in Seq(Entries) /\ used \in Seq(Ids) /\ Len(cacheList) <= MaxSize
  BY DEF IInv, TypeOK, Entries
<1> DEFINE E == {e \in Seqs!ToSet(cacheList) : ~Expired(e)}
           kept == RemoveExpiredEntries(cacheList)
<1>2. /\ kept \in Seq(Entries) /\ Len(kept) <= Len(cacheList)
      /\ Seqs!ToSet(kept) = Seqs!ToSet(cacheList) \cap E
      /\ Ordered(kept, used)
  BY <1>1, KeepOrdered DEF IInv, RemoveExpiredEntries
<1> HIDE DEF kept
<1>3. Len(kept) <= MaxSize
  BY <1>1, <1>2, LocalCacheAssumption
<1>4. Swept = kept \/ Swept = cacheList
  BY DEF Swept, kept
<1>5. /\ Swept \in Seq(Entries) /\ Len(Swept) <= MaxSize
      /\ Ordered(Swept, used)
      /\ Seqs!ToSet(Swept) \subseteq Seqs!ToSet(cacheList)
      /\ \A e \in Seqs!ToSet(cacheList) : e \in Seqs!ToSet(Swept) \/ Expired(e)
  BY <1>1, <1>2, <1>3, <1>4 DEF IInv
<1>6. Listed(Swept) \subseteq Listed(cacheList)
  BY <1>5 DEF Listed
<1>7. QED
  BY <1>5, <1>6 DEF SweptMap, IInv

(* An entry of the list, found through the index. *)
LEMMA EntryOfListed ==
  ASSUME NEW list, NEW m \in Listed(list)
  PROVE  EntryOf(list, m) \in Seqs!ToSet(list) /\ EntryOf(list, m).id = m
  BY DEF EntryOf, Listed

LEMMA WithoutFacts ==
  ASSUME NEW list \in Seq(Entries), NEW u \in Seq(Ids), Ordered(list, u), NEW m
  PROVE  LET kept == Without(list, m)
         IN  /\ kept \in Seq(Entries) /\ Len(kept) <= Len(list)
             /\ Seqs!ToSet(kept) = {e \in Seqs!ToSet(list) : e.id # m}
             /\ Listed(kept) = Listed(list) \ {m}
             /\ Ordered(kept, u)
<1> DEFINE E == {e \in Seqs!ToSet(list) : e.id # m}
           kept == Without(list, m)
<1>1. /\ kept \in Seq(Entries) /\ Len(kept) <= Len(list)
      /\ Seqs!ToSet(kept) = Seqs!ToSet(list) \cap E
      /\ Ordered(kept, u)
  BY KeepOrdered DEF Without
<1> HIDE DEF kept
<1>2. Seqs!ToSet(kept) = E
  BY <1>1
<1>3. Listed(kept) = Listed(list) \ {m}
  BY <1>2 DEF Listed
<1>4. QED
  BY <1>1, <1>2, <1>3 DEF kept

(* An entry that was in the list, or a new one for its identifier, goes to *)
(* the front.                                                              *)
LEMMA ToFrontFacts ==
  ASSUME NEW list \in Seq(Entries), NEW u \in Seq(Ids), Ordered(list, u), Distinct(u),
         NEW e \in Entries, e.id \in Listed(list)
  PROVE  LET moved == MoveToFront(list, e)
             v == <<e.id>> \o Keep(u, Ids \ {e.id})
         IN  /\ moved \in Seq(Entries) /\ Len(moved) <= Len(list)
             /\ Seqs!ToSet(moved) = {d \in Seqs!ToSet(list) : d.id # e.id} \cup {e}
             /\ Listed(moved) = Listed(list)
             /\ v \in Seq(Ids) /\ Distinct(v) /\ Ordered(moved, v)
<1> DEFINE rest == Without(list, e.id)
           moved == MoveToFront(list, e)
           v == <<e.id>> \o Keep(u, Ids \ {e.id})
<1>1. /\ rest \in Seq(Entries) /\ Len(rest) <= Len(list)
      /\ Seqs!ToSet(rest) = {d \in Seqs!ToSet(list) : d.id # e.id}
      /\ Listed(rest) = Listed(list) \ {e.id}
      /\ Ordered(rest, u)
  BY WithoutFacts
<1> HIDE DEF rest
<1>2. /\ <<e>> \o rest \in Seq(Entries) /\ Len(<<e>> \o rest) = Len(rest) + 1
      /\ Seqs!ToSet(<<e>> \o rest) = Seqs!ToSet(rest) \cup {e}
      /\ Listed(<<e>> \o rest) = Listed(rest) \cup {e.id}
      /\ v \in Seq(Ids) /\ Distinct(v) /\ Ordered(<<e>> \o rest, v)
  BY <1>1, PutInFront
<1>3. moved = <<e>> \o rest
  BY DEF MoveToFront, rest
<1> HIDE DEF moved, v
<1>4. /\ moved \in Seq(Entries)
      /\ Seqs!ToSet(moved) = {d \in Seqs!ToSet(list) : d.id # e.id} \cup {e}
      /\ v \in Seq(Ids) /\ Distinct(v) /\ Ordered(moved, v)
  BY <1>1, <1>2, <1>3
<1>5. Listed(moved) = Listed(list)
  BY <1>1, <1>2, <1>3
<1>6. Len(moved) <= Len(list)
  <2>1. /\ IsFiniteSet(Listed(list)) /\ Cardinality(Listed(list)) = Len(list)
        /\ Cardinality(Listed(moved)) = Len(moved)
    BY <1>4, OrderedDistinct
  <2>2. QED
    BY <1>5, <2>1
<1>7. QED
  BY <1>4, <1>5, <1>6 DEF moved, v
-----------------------------------------------------------------------------
(* The clock and the schedule of the cleanup stay natural numbers. *)
LEMMA ScheduleTyped ==
  ASSUME TypeOK, CheckAndRunCleanup
  PROVE  now' \in Times /\ interval' \in Nat /\ nextCleanup' \in Nat /\ now' = now
  BY LocalCacheAssumption DEF TypeOK, CheckAndRunCleanup, Times

LEMMA MissKeeps ==
  ASSUME IInv, NEW m \in Ids, Miss(m)
  PROVE  IInv'
<1>1. /\ Swept \in Seq(Entries) /\ Len(Swept) <= MaxSize /\ Ordered(Swept, used)
      /\ SweptMap = Listed(Swept) /\ Listed(Swept) \subseteq cacheMap
  BY SweptFacts
<1>2. now' \in Times /\ interval' \in Nat /\ nextCleanup' \in Nat
  BY ScheduleTyped DEF IInv, Miss
<1>3. cacheList' = Swept /\ cacheMap' = SweptMap /\ answer' = <<m, FALSE>> /\ used' = used
  BY DEF Miss
<1>4. TypeOK'
  BY <1>1, <1>2, <1>3 DEF IInv, TypeOK, Entries, Times
<1>5. QED
  BY <1>1, <1>3, <1>4 DEF IInv, Ordered, Listed

LEMMA MissExpiredKeeps ==
  ASSUME IInv, NEW m \in Ids, MissExpired(m)
  PROVE  IInv'
<1> DEFINE rest == Without(Swept, m)
<1>1. /\ Swept \in Seq(Entries) /\ Len(Swept) <= MaxSize /\ Ordered(Swept, used)
      /\ SweptMap = Listed(Swept) /\ Listed(Swept) \subseteq cacheMap
  BY SweptFacts
<1>2. now' \in Times /\ interval' \in Nat /\ nextCleanup' \in Nat
  BY ScheduleTyped DEF IInv, MissExpired
<1>3. used \in Seq(Ids) /\ cacheMap \subseteq Ids
  BY DEF IInv, TypeOK
<1>4. /\ rest \in Seq(Entries) /\ Len(rest) <= Len(Swept)
      /\ Listed(rest) = Listed(Swept) \ {m} /\ Ordered(rest, used)
  BY <1>1, <1>3, WithoutFacts
<1>5. /\ cacheList' = rest /\ cacheMap' = SweptMap \ {m}
      /\ answer' = <<m, FALSE>> /\ used' = used
  BY DEF MissExpired
<1> HIDE DEF rest
<1>6. Len(rest) <= MaxSize
  BY <1>1, <1>4, LocalCacheAssumption
<1>7. TypeOK'
  BY <1>1, <1>2, <1>3, <1>4, <1>5 DEF IInv, TypeOK, Entries, Times
<1>8. QED
  BY <1>1, <1>4, <1>5, <1>6, <1>7 DEF IInv, Ordered, Listed

(* A lookup that finds m, or an insertion that renews it. *)
LEMMA MoveKeeps ==
  ASSUME IInv, NEW m \in Ids, NEW e \in Entries, e.id = m, m \in SweptMap,
         CheckAndRunCleanup,
         cacheList' = MoveToFront(Swept, e), cacheMap' = SweptMap,
         Use(m), answer' = answer \/ answer' = <<m, TRUE>>
  PROVE  IInv'
<1> DEFINE moved == MoveToFront(Swept, e)
           v == <<e.id>> \o Keep(used, Ids \ {e.id})
<1>1. /\ Swept \in Seq(Entries) /\ Len(Swept) <= MaxSize /\ Ordered(Swept, used)
      /\ SweptMap = Listed(Swept) /\ Listed(Swept) \subseteq cacheMap
  BY SweptFacts
<1>2. now' \in Times /\ interval' \in Nat /\ nextCleanup' \in Nat
  BY ScheduleTyped DEF IInv
<1>3. used \in Seq(Ids) /\ cacheMap \subseteq Ids /\ Distinct(used)
  BY DEF IInv, TypeOK
<1>4. /\ moved \in Seq(Entries) /\ Len(moved) <= Len(Swept)
      /\ Listed(moved) = Listed(Swept)
      /\ v \in Seq(Ids) /\ Distinct(v) /\ Ordered(moved, v)
  BY <1>1, <1>3, ToFrontFacts
<1>5. used' = v
  BY DEF Use
<1> HIDE DEF moved, v
<1>6. cacheList' = moved
  BY DEF moved
<1>7. Len(moved) <= MaxSize
  BY <1>1, <1>4, LocalCacheAssumption
<1>8. answer' = <<>> \/ answer' \in Ids \X BOOLEAN
  <2>1. CASE answer' = answer
    BY <2>1 DEF IInv, TypeOK
  <2>2. CASE answer' = <<m, TRUE>>
    BY <2>2
  <2>3. QED
    BY <2>1, <2>2
<1>9. TypeOK'
  BY <1>1, <1>2, <1>3, <1>4, <1>5, <1>6, <1>8 DEF TypeOK, Entries, Times
<1>10. QED
  BY <1>1, <1>4, <1>5, <1>6, <1>7, <1>9 DEF IInv, Ordered, Listed, Distinct

(* What is left of the list when a new entry is made. *)
Room == IF Len(Swept) >= MaxSize THEN Seqs!Front(Swept) ELSE Swept

LEMMA RoomFacts ==
  ASSUME IInv
  PROVE  /\ Room \in Seq(Entries) /\ Len(Room) < MaxSize /\ Ordered(Room, used)
         /\ Listed(Room) = IF Len(Swept) >= MaxSize
                           THEN Listed(Swept) \ {Seqs!Last(Swept).id} ELSE Listed(Swept)
         /\ Len(Swept) >= MaxSize =>
              /\ Len(Swept) = MaxSize /\ Seqs!Last(Swept) \in Seqs!ToSet(Swept)
              /\ Seqs!ToSet(Room) = Seqs!ToSet(Swept) \ {Seqs!Last(Swept)}
         /\ Len(Swept) < MaxSize => Room = Swept
<1>1. /\ Swept \in Seq(Entries) /\ Len(Swept) <= MaxSize /\ Ordered(Swept, used)
      /\ Len(Swept) \in Nat /\ MaxSize \in Nat \ {0}
  BY SweptFacts, LocalCacheAssumption
<1>2. used \in Seq(Ids) /\ Distinct(used)
  BY DEF IInv, TypeOK
<1>3. CASE Len(Swept) >= MaxSize
  <2>1. Len(Swept) > 0 /\ Len(Swept) = MaxSize
    BY <1>1, <1>3
  <2>2. Room = Seqs!Front(Swept)
    BY <1>3 DEF Room
  <2>3. /\ Room \in Seq(Entries) /\ Len(Room) = Len(Swept) - 1
        /\ Seqs!Last(Swept) \in Seqs!ToSet(Swept)
        /\ Seqs!ToSet(Room) = Seqs!ToSet(Swept) \ {Seqs!Last(Swept)}
        /\ Listed(Room) = Listed(Swept) \ {Seqs!Last(Swept).id}
        /\ Ordered(Room, used)
    BY <1>1, <1>2, <2>1, <2>2, FrontOrdered
  <2>4. Len(Room) < MaxSize
    BY <1>1, <2>1, <2>3
  <2>5. QED
    BY <1>1, <1>3, <2>1, <2>3, <2>4
<1>4. CASE ~ (Len(Swept) >= MaxSize)
  BY <1>1, <1>4 DEF Room
<1>5. QED
  BY <1>3, <1>4

LEMMA InsertKeeps ==
  ASSUME IInv, NEW m \in Ids, NEW t \in Times, InsertNew(m, t)
  PROVE  IInv'
<1> DEFINE e == Entry(m, t)
           put == <<e>> \o Room
           v == <<e.id>> \o Keep(used, Ids \ {e.id})
<1>1. /\ Room \in Seq(Entries) /\ Len(Room) < MaxSize /\ Ordered(Room, used)
      /\ Listed(Room) = IF Len(Swept) >= MaxSize
                        THEN Listed(Swept) \ {Seqs!Last(Swept).id} ELSE Listed(Swept)
  BY RoomFacts
<1>2. now' \in Times /\ interval' \in Nat /\ nextCleanup' \in Nat
  BY ScheduleTyped DEF IInv, InsertNew
<1>3. used \in Seq(Ids) /\ cacheMap \subseteq Ids /\ Distinct(used)
  BY DEF IInv, TypeOK
<1>4. SweptMap = Listed(Swept) /\ Listed(Swept) \subseteq cacheMap /\ m \notin SweptMap
  BY SweptFacts DEF InsertNew
<1>5. e \in Entries /\ e.id = m /\ e.id \notin Listed(Room)
  BY <1>1, <1>4 DEF Entries, Entry
<1>6. cacheList' = put /\ used' = v /\ answer' = answer
  BY <1>5 DEF InsertNew, Use, Room
<1> HIDE DEF e
<1>7. /\ put \in Seq(Entries) /\ Len(put) = Len(Room) + 1
      /\ Listed(put) = Listed(Room) \cup {m}
      /\ v \in Seq(Ids) /\ Distinct(v) /\ Ordered(put, v)
  BY <1>1, <1>3, <1>5, PutInFront
<1> HIDE DEF put, v
<1>8. cacheMap' = Listed(put)
  BY <1>1, <1>4, <1>7 DEF InsertNew
<1>9. Len(put) <= MaxSize
  BY <1>1, <1>7, LocalCacheAssumption
<1>10. cacheMap' \subseteq Ids
  BY <1>1, <1>3, <1>4, <1>7, <1>8
<1>11. TypeOK'
  BY <1>2, <1>6, <1>7, <1>10 DEF IInv, TypeOK, Entries, Times
<1>12. QED
  BY <1>6, <1>7, <1>8, <1>9, <1>11 DEF IInv, Ordered, Listed, Distinct
(* remove(), clear() and cleanupExpired(), which look at no schedule. *)
LEMMA OtherKeeps ==
  ASSUME IInv, \/ \E m \in Ids : Remove(m)
               \/ Clear
               \/ CleanupExpired
  PROVE  IInv'
<1>1. /\ cacheList \in Seq(Entries) /\ used \in Seq(Ids) /\ Ordered(cacheList, used)
      /\ Len(cacheList) <= MaxSize /\ cacheMap = Listed(cacheList) /\ cacheMap \subseteq Ids
  BY DEF IInv, TypeOK, Entries
<1>2. ASSUME NEW list \in Seq(Entries), cacheList' = list, Len(list) <= Len(cacheList),
             Ordered(list, used), cacheMap' = Listed(list), Listed(list) \subseteq cacheMap,
             UNCHANGED <<timing, answer, used>>
      PROVE  IInv'
  <2>1. TypeOK'
    BY <1>1, <1>2 DEF IInv, TypeOK, Entries, Times, timing
  <2>2. Len(list) <= MaxSize
    BY <1>1, <1>2, LocalCacheAssumption
  <2>3. QED
    BY <1>1, <1>2, <2>1, <2>2 DEF IInv, Ordered, Listed, Distinct
<1>3. ASSUME NEW m \in Ids, Remove(m) PROVE IInv'
  <2> DEFINE rest == Without(cacheList, m)
  <2>1. /\ rest \in Seq(Entries) /\ Len(rest) <= Len(cacheList)
        /\ Listed(rest) = Listed(cacheList) \ {m} /\ Ordered(rest, used)
    BY <1>1, WithoutFacts
  <2>2. cacheList' = rest /\ cacheMap' = cacheMap \ {m} /\ UNCHANGED <<timing, answer, used>>
    BY <1>3 DEF Remove
  <2> HIDE DEF rest
  <2>3. QED
    BY <1>1, <1>2, <2>1, <2>2
<1>4. CASE Clear
  <2>1. <<>> \in Seq(Entries) /\ Len(<<>>) = 0 /\ DOMAIN <<>> = {}
    OBVIOUS
  <2>2. Listed(<<>>) = {} /\ Ordered(<<>>, used)
    BY <2>1 DEF Listed, Seqs!ToSet, Follows, IdsOf, Ordered
  <2>3. Len(<<>>) <= Len(cacheList)
    BY <1>1, <2>1
  <2>4. QED
    BY <1>2, <1>4, <2>1, <2>2, <2>3 DEF Clear
<1>5. CASE CleanupExpired
  <2> DEFINE kept == RemoveExpiredEntries(cacheList)
  <2>1. /\ kept \in Seq(Entries) /\ Len(kept) <= Len(cacheList)
        /\ Seqs!ToSet(kept) \subseteq Seqs!ToSet(cacheList) /\ Ordered(kept, used)
    BY <1>1, KeepOrdered DEF RemoveExpiredEntries
  <2>2. cacheList' = kept /\ UNCHANGED <<timing, answer, used>>
    BY <1>5 DEF CleanupExpired
  <2>3. cacheMap' = cacheMap \ (Listed(cacheList) \ Listed(kept))
    BY <1>5, <2>2 DEF CleanupExpired, Listed
  <2> HIDE DEF kept
  <2>4. Listed(kept) \subseteq Listed(cacheList)
    BY <2>1 DEF Listed
  <2>5. QED
    BY <1>1, <1>2, <2>1, <2>2, <2>3, <2>4
<1>6. QED
  BY <1>3, <1>4, <1>5

LEMMA CacheStep == IInv /\ [Next]_vars => IInv'
<1> SUFFICES ASSUME IInv, [Next]_vars PROVE IInv'
  OBVIOUS
<1>1. ASSUME UNCHANGED <<cacheList, cacheMap, answer, used>>,
             now' \in Times, interval' \in Nat, nextCleanup' \in Nat
      PROVE  IInv'
  BY <1>1 DEF IInv, TypeOK, Ordered, Listed, Distinct, Times
<1>2. CASE UNCHANGED vars
  BY <1>1, <1>2 DEF IInv, TypeOK, vars, timing
<1>3. ASSUME NEW m \in Ids, Contains(m) PROVE IInv'
  <2>1. CASE Hit(m)
    <3> DEFINE e == EntryOf(Swept, m)
    <3>1. m \in Listed(Swept) /\ Swept \in Seq(Entries)
      BY <2>1, SweptFacts DEF Hit
    <3>2. e \in Entries /\ e.id = m
      BY <3>1, EntryOfListed DEF Seqs!ToSet
    <3> HIDE DEF e
    <3>3. cacheList' = MoveToFront(Swept, e) /\ m \in SweptMap /\ cacheMap' = SweptMap
          /\ CheckAndRunCleanup /\ Use(m) /\ answer' = <<m, TRUE>>
      BY <2>1 DEF Hit, e
    <3>4. QED
      BY <3>2, <3>3, MoveKeeps
  <2>2. QED
    BY <1>3, <2>1, MissKeeps, MissExpiredKeeps DEF Contains
<1>4. ASSUME NEW m \in Ids, NEW t \in Times, Insert(m, t) PROVE IInv'
  <2>1. CASE Renew(m, t)
    <3> DEFINE e == Entry(m, t)
    <3>1. e \in Entries /\ e.id = m
      BY DEF Entries, Entry
    <3> HIDE DEF e
    <3>2. cacheList' = MoveToFront(Swept, e) /\ m \in SweptMap /\ cacheMap' = SweptMap
          /\ CheckAndRunCleanup /\ Use(m) /\ answer' = answer
      BY <2>1 DEF Renew, e
    <3>3. QED
      BY <3>1, <3>2, MoveKeeps
  <2>2. QED
    BY <1>4, <2>1, InsertKeeps DEF Insert
<1>5. ASSUME NEW d \in Intervals, SetCleanupInterval(d) PROVE IInv'
  BY <1>1, <1>5, LocalCacheAssumption DEF IInv, TypeOK, SetCleanupInterval, Times, Never
<1>6. CASE Tick
  BY <1>1, <1>6, LocalCacheAssumption DEF IInv, TypeOK, Tick, Times
<1>7. QED
  BY <1>2, <1>3, <1>4, <1>5, <1>6, OtherKeeps DEF Next

LEMMA CacheInvariant == Spec => []IInv
  BY CacheInitial, CacheStep, PTL DEF Spec

(* The index and the list hold the same keys, each once, and no more than  *)
(* maxSize_ of them, whatever the order of the operations.                 *)
THEOREM IndexMatchesListHolds == Spec => []IndexMatchesList
<1>1. IInv => IndexMatchesList
  <2> SUFFICES ASSUME IInv PROVE IndexMatchesList
    OBVIOUS
  <2>1. cacheList \in Seq(Entries) /\ used \in Seq(Ids)
    BY DEF IInv, TypeOK, Entries
  <2>2. Cardinality(Listed(cacheList)) = Len(cacheList)
    BY <2>1, OrderedDistinct DEF IInv
  <2>3. QED
    BY <2>2 DEF IInv, IndexMatchesList
<1>2. QED
  BY <1>1, CacheInvariant, PTL
-----------------------------------------------------------------------------
(* Least recently used.                                                    *)

LEMMA RankOf ==
  ASSUME Distinct(used), NEW i \in DOMAIN used
  PROVE  Rank(used[i]) = i
  BY DEF Rank, Distinct

LEMMA EvictionIsLRU ==
  ASSUME IInv, NEW m \in Ids, NEW t \in Times, InsertNew(m, t), m \notin cacheMap,
         NEW v \in InDate \ cacheMap', NEW w \in cacheMap \cap cacheMap'
  PROVE  Rank(w) < Rank(v)
<1>1. /\ Swept \in Seq(Entries) /\ Len(Swept) <= MaxSize /\ Ordered(Swept, used)
      /\ \A e \in Seqs!ToSet(cacheList) : e \in Seqs!ToSet(Swept) \/ Expired(e)
      /\ SweptMap = Listed(Swept)
  BY SweptFacts
<1>2. v \in Listed(Swept)
  BY <1>1 DEF InDate, Listed
<1>3. cacheMap' = (IF Len(Swept) >= MaxSize THEN SweptMap \ {Seqs!Last(Swept).id}
                   ELSE SweptMap) \cup {m}
  BY DEF InsertNew
<1>4. Len(Swept) >= MaxSize /\ v = Seqs!Last(Swept).id
  BY <1>1, <1>2, <1>3
<1>5. w \in Listed(Swept) /\ w # v
  BY <1>1, <1>3, <1>4
<1> DEFINE q == IdsOf(Swept)
           n == Len(Swept)
<1>6. n \in Nat /\ n > 0 /\ DOMAIN Swept = 1..n
  BY <1>1, <1>4, LocalCacheAssumption
<1>7. /\ DOMAIN q = DOMAIN Swept /\ Seqs!ToSet(q) = Listed(Swept)
      /\ \A i \in DOMAIN Swept : q[i] = Swept[i].id
  BY <1>1, IdsFacts
<1>8. v = q[n] /\ n \in DOMAIN q
  BY <1>4, <1>6, <1>7 DEF Seqs!Last
<1>9. PICK i \in DOMAIN q : q[i] = w
  BY <1>5, <1>7 DEF Seqs!ToSet
<1> HIDE DEF q, n
<1>10. i < n
  BY <1>5, <1>6, <1>7, <1>8, <1>9
<1>11. PICK a \in DOMAIN used, b \in DOMAIN used : a < b /\ used[a] = w /\ used[b] = v
  BY <1>1, <1>8, <1>9, <1>10 DEF Ordered, Follows, q
<1>12. Rank(w) = a /\ Rank(v) = b
  BY <1>11, RankOf DEF IInv
<1>13. QED
  BY <1>11, <1>12

(* An entry in date is only pushed out by an insertion, and then every     *)
(* entry that stays was used after it: for any size, any number of         *)
(* identifiers and any clock.                                              *)
THEOREM EvictsLeastRecentHolds == Spec => EvictsLeastRecent
<1> DEFINE Evicts == cacheMap' \ cacheMap # {} =>
                       \A v \in InDate \ cacheMap', w \in cacheMap \cap cacheMap' :
                         Rank(w) < Rank(v)
<1>1. IInv /\ [Next]_vars => [Evicts]_vars
  <2> SUFFICES ASSUME IInv, Next, cacheMap' \ cacheMap # {} PROVE Evicts
    OBVIOUS
  <2>1. SweptMap \subseteq cacheMap
    BY DEF SweptMap
  <2>2. PICK m \in Ids, t \in Times : InsertNew(m, t)
    <3>1. ASSUME NEW m \in Ids, Contains(m) \/ Remove(m) PROVE FALSE
      BY <2>1, <3>1 DEF Contains, Miss, MissExpired, Hit, Remove
    <3>2. ASSUME NEW m \in Ids, NEW t \in Times, Renew(m, t) PROVE FALSE
      BY <2>1, <3>2 DEF Renew
    <3>3. CASE Clear \/ CleanupExpired \/ Tick \/ \E d \in Intervals : SetCleanupInterval(d)
      BY <3>3 DEF Clear, CleanupExpired, Tick, SetCleanupInterval
    <3>4. QED
      BY <3>1, <3>2, <3>3 DEF Next, Insert
  <2>3. m \notin cacheMap
    BY <2>1, <2>2 DEF InsertNew
  <2>4. QED
    BY <2>2, <2>3, EvictionIsLRU
<1>2. QED
  BY <1>1, CacheInvariant, PTL DEF Spec, EvictsLeastRecent
-----------------------------------------------------------------------------
(* The cache implements the plain set of CacheContract.                    *)

Fresh(list) == {e.id : e \in {x \in Seqs!ToSet(list) : ~Expired(x)}}

LEMMA FreshNow ==
  ASSUME now' = now, NEW list, cacheList' = list
  PROVE  InDate' = Fresh(list) /\ Listed(cacheList)' = Listed(list)
  BY DEF InDate, Fresh, Expired, Listed, Seqs!ToSet

(* What is left when only entries out of date go. *)
LEMMA RemainsHeld ==
  ASSUME NEW H \in SUBSET Listed(cacheList), InDate \subseteq H
  PROVE  H \in Contract!Remains
<1>1. H = Listed(cacheList) \ (Listed(cacheList) \ H)
  OBVIOUS
<1>2. Listed(cacheList) \ H \in SUBSET (Listed(cacheList) \ InDate)
  OBVIOUS
<1>3. QED
  BY <1>1, <1>2 DEF Contract!Remains

LEMMA SweptFresh ==
  ASSUME IInv
  PROVE  /\ Fresh(Swept) = InDate /\ InDate \subseteq Listed(Swept)
         /\ Listed(Swept) \subseteq Listed(cacheList)
         /\ Listed(Swept) \in Contract!Remains
         /\ \A d, e \in Seqs!ToSet(Swept) : d.id = e.id => d = e
         /\ Cardinality(Listed(Swept)) = Len(Swept)
<1>1. /\ Swept \in Seq(Entries) /\ Ordered(Swept, used)
      /\ Seqs!ToSet(Swept) \subseteq Seqs!ToSet(cacheList)
      /\ \A e \in Seqs!ToSet(cacheList) : e \in Seqs!ToSet(Swept) \/ Expired(e)
  BY SweptFacts
<1>2. Fresh(Swept) = InDate /\ InDate \subseteq Listed(Swept)
      /\ Listed(Swept) \subseteq Listed(cacheList)
  BY <1>1 DEF Fresh, InDate, Listed
<1>3. Listed(Swept) \in Contract!Remains
  BY <1>2, RemainsHeld
<1>4. used \in Seq(Ids) /\ Distinct(used)
  BY DEF IInv, TypeOK
<1>5. QED
  BY <1>1, <1>2, <1>3, <1>4, OrderedDistinct

LEMMA MissRefines ==
  ASSUME IInv, NEW m \in Ids, Miss(m)
  PROVE  Contract!Miss(m) /\ answer' = <<m, FALSE>>
<1>1. cacheList' = Swept /\ now' = now /\ answer' = <<m, FALSE>> /\ m \notin Listed(Swept)
  BY SweptFacts DEF Miss, CheckAndRunCleanup
<1>2. InDate' = Fresh(Swept) /\ Listed(cacheList)' = Listed(Swept)
  BY <1>1, FreshNow
<1>3. QED
  BY <1>1, <1>2, SweptFresh DEF Contract!Miss

LEMMA MissExpiredRefines ==
  ASSUME IInv, NEW m \in Ids, MissExpired(m)
  PROVE  Contract!Miss(m) /\ answer' = <<m, FALSE>>
<1> DEFINE rest == Without(Swept, m)
           e == EntryOf(Swept, m)
<1>1. cacheList' = rest /\ now' = now /\ answer' = <<m, FALSE>> /\ Expired(e)
      /\ m \in Listed(Swept)
  BY SweptFacts DEF MissExpired, CheckAndRunCleanup
<1>2. /\ Seqs!ToSet(rest) = {d \in Seqs!ToSet(Swept) : d.id # m}
      /\ Listed(rest) = Listed(Swept) \ {m}
  BY SweptFacts, WithoutFacts DEF IInv, TypeOK
<1>3. e \in Seqs!ToSet(Swept) /\ e.id = m
  BY <1>1, EntryOfListed
<1>4. InDate' = Fresh(rest) /\ Listed(cacheList)' = Listed(rest)
  BY <1>1, FreshNow
<1> HIDE DEF rest, e
<1>5. m \notin Fresh(Swept)
  BY <1>1, <1>3, SweptFresh DEF Fresh
<1>6. Fresh(rest) = Fresh(Swept)
  BY <1>2, <1>5 DEF Fresh
<1>7. Listed(rest) \in Contract!Remains
  BY <1>2, <1>5, SweptFresh, RemainsHeld
<1>8. QED
  BY <1>1, <1>2, <1>4, <1>5, <1>6, <1>7, SweptFresh DEF Contract!Miss

LEMMA HitRefines ==
  ASSUME IInv, NEW m \in Ids, Hit(m)
  PROVE  Contract!Hit(m) /\ answer' = <<m, TRUE>>
<1> DEFINE e == EntryOf(Swept, m)
           moved == MoveToFront(Swept, e)
<1>1. cacheList' = moved /\ now' = now /\ answer' = <<m, TRUE>> /\ ~Expired(e)
      /\ m \in Listed(Swept) /\ Swept \in Seq(Entries) /\ Ordered(Swept, used)
  BY SweptFacts DEF Hit, CheckAndRunCleanup
<1>2. e \in Seqs!ToSet(Swept) /\ e.id = m
  BY <1>1, EntryOfListed
<1>3. e \in Entries
  BY <1>1, <1>2 DEF Seqs!ToSet
<1>4. used \in Seq(Ids) /\ Distinct(used)
  BY DEF IInv, TypeOK
<1> HIDE DEF e
<1>5. /\ Seqs!ToSet(moved) = {d \in Seqs!ToSet(Swept) : d.id # e.id} \cup {e}
      /\ Listed(moved) = Listed(Swept)
  BY <1>1, <1>2, <1>3, <1>4, ToFrontFacts
<1>6. InDate' = Fresh(moved) /\ Listed(cacheList)' = Listed(moved)
  BY <1>1, FreshNow
<1> HIDE DEF moved
<1>7. Seqs!ToSet(moved) = Seqs!ToSet(Swept)
  BY <1>2, <1>5, SweptFresh
<1>8. Fresh(moved) = Fresh(Swept)
  BY <1>7 DEF Fresh
<1>9. m \in Fresh(Swept)
  BY <1>1, <1>2 DEF Fresh
<1>10. QED
  BY <1>1, <1>5, <1>6, <1>8, <1>9, SweptFresh DEF Contract!Hit

(* A new list of the identifiers kept that are not evicted, and m. *)
LEMMA PutRefines ==
  ASSUME NEW m, NEW inDate, NEW kept \in Contract!Remains,
         NEW evicted \in SUBSET Listed(cacheList), evicted \subseteq kept \ {m},
         Cardinality(evicted) = IF m \in kept \/ Cardinality(kept) < MaxSize THEN 0 ELSE 1,
         Listed(cacheList)' = (kept \ evicted) \cup {m},
         InDate' = (InDate \ (evicted \cup {m})) \cup {x \in {m} : inDate}
  PROVE  Contract!Put(m, inDate)
<1>1. \A S : Contract!Cardinality(S) = Cardinality(S)
  BY DEF Cardinality, Contract!Cardinality
<1>2. QED
  BY <1>1 DEF Contract!Put

LEMMA RenewRefines ==
  ASSUME IInv, NEW m \in Ids, NEW t \in Times, Renew(m, t)
  PROVE  (\E inDate \in BOOLEAN : Contract!Put(m, inDate)) /\ answer' = answer
<1> DEFINE e == Entry(m, t)
           moved == MoveToFront(Swept, e)
<1>1. cacheList' = moved /\ now' = now /\ answer' = answer
      /\ m \in Listed(Swept) /\ Swept \in Seq(Entries) /\ Ordered(Swept, used)
  BY SweptFacts DEF Renew, CheckAndRunCleanup
<1>2. e \in Entries /\ e.id = m
  BY DEF Entries, Entry
<1>3. used \in Seq(Ids) /\ Distinct(used)
  BY DEF IInv, TypeOK
<1> HIDE DEF e
<1>4. /\ Seqs!ToSet(moved) = {d \in Seqs!ToSet(Swept) : d.id # m} \cup {e}
      /\ Listed(moved) = Listed(Swept)
  BY <1>1, <1>2, <1>3, ToFrontFacts
<1>5. InDate' = Fresh(moved) /\ Listed(cacheList)' = Listed(moved)
  BY <1>1, FreshNow
<1> HIDE DEF moved
<1> DEFINE inDate == ~Expired(e)
<1>6. Fresh(moved) = (Fresh(Swept) \ {m}) \cup {x \in {m} : inDate}
  BY <1>2, <1>4 DEF Fresh
<1>7. Cardinality({}) = 0
  BY FS_EmptySet
<1>8. inDate \in BOOLEAN
  BY DEF Expired
<1> HIDE DEF inDate
<1>9. Contract!Put(m, inDate)
  <2>1. Listed(Swept) \in Contract!Remains /\ {} \in SUBSET Listed(cacheList)
        /\ {} \subseteq Listed(Swept) \ {m}
    BY SweptFresh
  <2>2. Listed(cacheList)' = (Listed(Swept) \ {}) \cup {m}
    BY <1>1, <1>4, <1>5
  <2>3. InDate' = (InDate \ ({} \cup {m})) \cup {x \in {m} : inDate}
    BY <1>5, <1>6, SweptFresh
  <2>4. Cardinality({}) = IF m \in Listed(Swept) \/ Cardinality(Listed(Swept)) < MaxSize
                          THEN 0 ELSE 1
    BY <1>1, <1>7
  <2>5. QED
    BY <2>1, <2>2, <2>3, <2>4, PutRefines
<1>10. QED
  BY <1>1, <1>8, <1>9
LEMMA InsertRefines ==
  ASSUME IInv, NEW m \in Ids, NEW t \in Times, InsertNew(m, t)
  PROVE  (\E inDate \in BOOLEAN : Contract!Put(m, inDate)) /\ answer' = answer
<1> DEFINE e == Entry(m, t)
           put == <<e>> \o Room
           full == Len(Swept) >= MaxSize
           evicted == IF full THEN {Seqs!Last(Swept).id} ELSE {}
<1>1. cacheList' = put /\ now' = now /\ answer' = answer /\ m \notin Listed(Swept)
  BY SweptFacts DEF InsertNew, CheckAndRunCleanup, Room
<1>2. e \in Entries /\ e.id = m
  BY DEF Entries, Entry
<1>3. used \in Seq(Ids) /\ Distinct(used)
  BY DEF IInv, TypeOK
<1>4. /\ Room \in Seq(Entries) /\ Ordered(Room, used)
      /\ full => /\ Len(Swept) = MaxSize /\ Seqs!Last(Swept) \in Seqs!ToSet(Swept)
                 /\ Seqs!ToSet(Room) = Seqs!ToSet(Swept) \ {Seqs!Last(Swept)}
      /\ Len(Swept) < MaxSize => Room = Swept
      /\ Listed(Room) = IF full THEN Listed(Swept) \ {Seqs!Last(Swept).id} ELSE Listed(Swept)
  BY RoomFacts
<1>5. full \/ Len(Swept) < MaxSize
  BY SweptFacts, LocalCacheAssumption
<1> HIDE DEF e
<1>6. e.id \notin Listed(Room)
  BY <1>1, <1>2, <1>4
<1>7. Seqs!ToSet(put) = Seqs!ToSet(Room) \cup {e} /\ Listed(put) = Listed(Room) \cup {m}
  BY <1>2, <1>3, <1>4, <1>6, PutInFront
<1>8. InDate' = Fresh(put) /\ Listed(cacheList)' = Listed(put)
  BY <1>1, FreshNow
<1> HIDE DEF put
<1>9. evicted \subseteq Listed(Swept) /\ m \notin evicted
      /\ Listed(Room) = Listed(Swept) \ evicted
  BY <1>1, <1>4 DEF Listed
<1>10. Fresh(Room) = Fresh(Swept) \ evicted
  <2>1. CASE full
    <3>1. \A d \in Seqs!ToSet(Swept) : d.id = Seqs!Last(Swept).id => d = Seqs!Last(Swept)
      BY <1>4, <2>1, SweptFresh
    <3>2. QED
      BY <1>4, <2>1, <3>1 DEF Fresh
  <2>2. CASE ~full
    BY <1>4, <1>5, <2>2
  <2>3. QED
    BY <2>1, <2>2
<1> DEFINE inDate == ~Expired(e)
<1>11. Fresh(put) = Fresh(Room) \cup {x \in {m} : inDate}
  BY <1>2, <1>7 DEF Fresh
<1>12. inDate \in BOOLEAN
  BY DEF Expired
<1>13. Cardinality(evicted) = IF m \in Listed(Swept) \/ Cardinality(Listed(Swept)) < MaxSize
                              THEN 0 ELSE 1
  <2>1. Cardinality(Listed(Swept)) < MaxSize <=> ~full
    BY <1>4, <1>5, SweptFresh, LocalCacheAssumption
  <2>2. CASE full
    BY <1>1, <2>1, <2>2, FS_Singleton
  <2>3. CASE ~full
    BY <2>1, <2>3, FS_EmptySet
  <2>4. QED
    BY <2>2, <2>3
<1> HIDE DEF inDate, evicted
<1>14. Contract!Put(m, inDate)
  <2>1. Listed(Swept) \in Contract!Remains /\ evicted \in SUBSET Listed(cacheList)
        /\ evicted \subseteq Listed(Swept) \ {m}
    BY <1>9, SweptFresh
  <2>2. Listed(cacheList)' = (Listed(Swept) \ evicted) \cup {m}
    BY <1>7, <1>8, <1>9
  <2>3. m \notin InDate
    BY <1>1, SweptFresh
  <2>4. InDate' = (InDate \ (evicted \cup {m})) \cup {x \in {m} : inDate}
    BY <1>8, <1>10, <1>11, <2>3, SweptFresh
  <2>5. QED
    BY <1>13, <2>1, <2>2, <2>4, PutRefines
<1>15. QED
  BY <1>1, <1>12, <1>14

LEMMA OthersRefine ==
  ASSUME IInv
  PROVE  /\ \A m \in Ids : Remove(m) => Contract!Delete(m) /\ answer' = answer
         /\ Clear => Contract!Clear /\ answer' = answer
         /\ CleanupExpired => Contract!CleanUp /\ answer' = answer
<1>1. cacheList \in Seq(Entries) /\ used \in Seq(Ids) /\ Ordered(cacheList, used)
  BY DEF IInv, TypeOK, Entries
<1>2. ASSUME NEW m \in Ids, Remove(m) PROVE Contract!Delete(m) /\ answer' = answer
  <2> DEFINE rest == Without(cacheList, m)
  <2>1. /\ Seqs!ToSet(rest) = {d \in Seqs!ToSet(cacheList) : d.id # m}
        /\ Listed(rest) = Listed(cacheList) \ {m}
    BY <1>1, WithoutFacts
  <2>2. cacheList' = rest /\ now' = now /\ answer' = answer
    BY <1>2 DEF Remove, timing
  <2>3. InDate' = Fresh(rest) /\ Listed(cacheList)' = Listed(rest)
    BY <2>2, FreshNow
  <2> HIDE DEF rest
  <2>4. Fresh(rest) = InDate \ {m}
    BY <2>1 DEF Fresh, InDate
  <2>5. QED
    BY <2>1, <2>2, <2>3, <2>4 DEF Contract!Delete
<1>3. ASSUME Clear PROVE Contract!Clear /\ answer' = answer
  <2>1. cacheList' = <<>> /\ now' = now /\ answer' = answer
    BY <1>3 DEF Clear, timing
  <2>2. Fresh(<<>>) = {} /\ Listed(<<>>) = {}
    BY DEF Fresh, Listed, Seqs!ToSet
  <2>3. InDate' = Fresh(<<>>) /\ Listed(cacheList)' = Listed(<<>>)
    BY <2>1, FreshNow
  <2>4. QED
    BY <2>1, <2>2, <2>3 DEF Contract!Clear
<1>4. ASSUME CleanupExpired PROVE Contract!CleanUp /\ answer' = answer
  <2> DEFINE E == {e \in Seqs!ToSet(cacheList) : ~Expired(e)}
             kept == RemoveExpiredEntries(cacheList)
  <2>1. Seqs!ToSet(kept) = Seqs!ToSet(cacheList) \cap E
    BY <1>1, KeepOrdered DEF RemoveExpiredEntries
  <2>2. cacheList' = kept /\ now' = now /\ answer' = answer
    BY <1>4 DEF CleanupExpired, timing
  <2>3. InDate' = Fresh(kept) /\ Listed(cacheList)' = Listed(kept)
    BY <2>2, FreshNow
  <2> HIDE DEF kept
  <2>4. Fresh(kept) = InDate /\ Listed(kept) = InDate
    BY <2>1 DEF Fresh, Listed, InDate
  <2>5. QED
    BY <2>2, <2>3, <2>4 DEF Contract!CleanUp
<1>5. QED
  BY <1>2, <1>3, <1>4

(* The clock moves: some entries may go out of date, none comes back. *)
LEMMA TickRefines ==
  ASSUME IInv, Tick
  PROVE  /\ answer' = answer /\ Listed(cacheList)' = Listed(cacheList)
         /\ InDate' = InDate \/ \E S \in SUBSET InDate : Contract!Age(S)
<1>1. cacheList' = cacheList /\ now' = now + 1 /\ answer' = answer
  BY DEF Tick
<1>2. Listed(cacheList)' = Listed(cacheList)
  BY <1>1 DEF Listed, Seqs!ToSet
<1>3. InDate' \subseteq InDate
  <2>1. \A e \in Seqs!ToSet(cacheList) : e.expiry \in Nat
    <3>1. cacheList \in Seq(Entries)
      BY DEF IInv, TypeOK, Entries
    <3>2. \A i \in DOMAIN cacheList : cacheList[i] \in Entries
      BY <3>1
    <3>3. Times \subseteq Nat
      BY LocalCacheAssumption DEF Times
    <3>4. QED
      BY <3>2, <3>3 DEF Entries, Seqs!ToSet
  <2>2. now \in Nat
    BY LocalCacheAssumption DEF IInv, TypeOK, Times
  <2>3. \A e \in Seqs!ToSet(cacheList) : now + 1 > e.expiry \/ ~ (now > e.expiry)
    BY <2>1, <2>2
  <2>4. QED
    BY <1>1, <2>3 DEF InDate, Expired, Seqs!ToSet
<1>4. CASE InDate' # InDate
  <2> DEFINE S == InDate \ InDate'
  <2>1. S # {} /\ S \subseteq InDate /\ InDate' = InDate \ S
    BY <1>3, <1>4
  <2> HIDE DEF S
  <2>2. Contract!Age(S)
    BY <1>2, <2>1 DEF Contract!Age
  <2>3. QED
    BY <1>1, <1>2, <2>1, <2>2
<1>5. QED
  BY <1>1, <1>2, <1>4

LEMMA RefinesInit == Init => Contract!ContractInit
  BY DEF Init, Contract!ContractInit, Contract!CacheInit, Contract!NoAnswer,
         Listed, InDate, Seqs!ToSet

LEMMA RefinesStep ==
  IInv /\ [Next]_vars => [Contract!ContractNext]_<<Contract!cacheVars, answer>>
<1> SUFFICES ASSUME IInv, [Next]_vars
             PROVE  [Contract!ContractNext]_<<Contract!cacheVars, answer>>
  OBVIOUS
<1>1. ASSUME UNCHANGED <<cacheList, now, answer>>
      PROVE  UNCHANGED <<Contract!cacheVars, answer>>
  <2>1. InDate' = Fresh(cacheList) /\ Listed(cacheList)' = Listed(cacheList)
    BY <1>1, FreshNow
  <2>2. QED
    BY <1>1, <2>1 DEF Contract!cacheVars, Fresh, InDate
<1>2. CASE UNCHANGED vars
  BY <1>1, <1>2 DEF vars, timing
<1>3. ASSUME NEW m \in Ids, Contains(m) PROVE Contract!ContractNext
  BY <1>3, MissRefines, MissExpiredRefines, HitRefines DEF Contains, Contract!ContractNext
<1>4. ASSUME NEW m \in Ids, NEW t \in Times, Insert(m, t) PROVE Contract!ContractNext
  BY <1>4, RenewRefines, InsertRefines DEF Insert, Contract!ContractNext
<1>5. CASE Clear \/ CleanupExpired \/ \E m \in Ids : Remove(m)
  BY <1>5, OthersRefine DEF Contract!ContractNext
<1>6. ASSUME NEW d \in Intervals, SetCleanupInterval(d)
      PROVE  UNCHANGED <<Contract!cacheVars, answer>>
  BY <1>1, <1>6 DEF SetCleanupInterval
<1>7. CASE Tick
  BY <1>7, TickRefines DEF Contract!ContractNext, Contract!cacheVars
<1>8. QED
  BY <1>2, <1>3, <1>4, <1>5, <1>6, <1>7 DEF Next

(* The list, the index, the clock and the lazy cleanup implement the plain *)
(* set of CacheContract, from which Deduplicator takes its cache: for any  *)
(* number of identifiers, any size and any clock.                          *)
THEOREM LocalCacheImplements == Spec => ImplementsContract
  BY RefinesInit, RefinesStep, CacheInvariant, PTL
     DEF Spec, ImplementsContract, Contract!ContractSpec
=============================================================================
