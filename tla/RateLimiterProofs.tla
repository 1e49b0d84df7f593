-------------------------- MODULE RateLimiterProofs --------------------------
(***************************************************************************)
(* The bounds of the rate limiter for all devices, limits and times.       *)
(***************************************************************************)
EXTENDS RateLimiter, TLAPS

(* Products of naturals, which the refill is made of. *)
LEMMA ProductNat == ASSUME NEW a \in Nat, NEW b \in Nat PROVE a * b \in Nat
  OBVIOUS

LEMMA ProductGrows ==
  ASSUME NEW a \in Nat, NEW b \in Nat PROVE (a + 1) * b = a * b + b
  OBVIOUS

LEMMA ProductMonotone ==
  ASSUME NEW a \in Nat, NEW b \in Nat, NEW c \in Nat, b <= c
  PROVE  a * b <= a * c
<1>1. PICK e \in Nat : c = b + e
  <2>1. c - b \in Nat /\ c = b + (c - b)
    OBVIOUS
  <2>2. QED
    BY <2>1
<1>2. a * c = a * b + a * e /\ a * e \in Nat /\ a * b \in Nat
  BY <1>1
<1>3. QED
  BY <1>2

LEMMA TimesZero == ASSUME NEW b \in Nat PROVE 0 * b = 0
  OBVIOUS

-----------------------------------------------------------------------------
(* Types, and that no bucket was refilled in the future. *)
Typed == TypeOK /\ \A d \in Devices : updated[d] <= now

LEMMA Units == /\ Tenth \in Nat /\ Tenth >= 1
               /\ Debt = 40 * Tenth /\ Floor = -(41 * Tenth)
               /\ Debt \in Nat /\ Floor \in Int /\ Floor < -Debt
  BY LimiterAssumption DEF Debt, Floor

LEMMA TokensNeededNat == \A p \in Priorities : TokensNeeded(p) \in Nat \ {0}
  BY Units DEF Priorities, TokensNeeded

LEMMA TakenNat == ASSUME NEW t \in Int, NEW p \in Priorities PROVE Taken(t, p) \in Nat
  BY TokensNeededNat DEF Taken

LEMMA RefillTyped ==
  ASSUME Typed, NEW d \in Devices
  PROVE  NewTokens(d) \in Nat /\ Refilled(d) \in Int
<1>1. now - updated[d] \in Nat /\ rate[d] \in Nat
  BY DEF Typed, TypeOK
<1>2. NewTokens(d) \in Nat
  BY <1>1, ProductNat DEF NewTokens
<1>3. QED
  BY <1>2 DEF Refilled, Least, Typed, TypeOK

LEMMA TypedInit == Init => Typed
<1> SUFFICES ASSUME Init PROVE Typed
  OBVIOUS
<1>1. defaultRate \in Nat /\ defaultSize \in Nat
  BY LimiterAssumption DEF Init
<1>2. QED
  BY <1>1 DEF Init, Typed, TypeOK

LEMMA TypedStep == Typed /\ [Next]_vars => Typed'
<1> SUFFICES ASSUME Typed, [Next]_vars PROVE Typed'
  OBVIOUS
<1> USE DEF Typed, TypeOK, defaults, history
<1>1. ASSUME NEW d \in Devices, NEW p \in Priorities, FirstMessage(d, p) PROVE Typed'
  <2>1. Taken(defaultSize, p) \in Int
    BY TakenNat
  <2>2. QED
    BY <1>1, <2>1 DEF FirstMessage, MakeBucket
<1>2. ASSUME NEW d \in Devices, NEW p \in Priorities, CheckLimit(d, p) PROVE Typed'
  <2>1. Refilled(d) \in Int /\ Taken(Refilled(d), p) \in Int
    BY RefillTyped, TakenNat
  <2>2. QED
    BY <1>2, <2>1 DEF CheckLimit, MarkRefill
<1>3. ASSUME NEW d \in Devices, GetDeviceStatistics(d) PROVE Typed'
  BY <1>3, RefillTyped DEF GetDeviceStatistics, MarkRefill
<1>4. ASSUME NEW d \in Devices, NEW l \in Limits, SetDeviceLimit(d, l) PROVE Typed'
  <2>1. l.rate \in Nat /\ l.size \in Nat
    BY LimiterAssumption
  <2>2. CASE d \notin known /\ MakeBucket(d, l.rate, l.size, 0)
    BY <2>1, <2>2 DEF MakeBucket
  <2>3. CASE ChangeDeviceLimit(d, l)
    BY <2>1, <2>3 DEF ChangeDeviceLimit, Least
  <2>4. QED
    BY <1>4, <2>2, <2>3 DEF SetDeviceLimit
<1>5. ASSUME NEW d \in Devices, ResetDevice(d) PROVE Typed'
  BY <1>5 DEF ResetDevice
<1>6. ASSUME NEW l \in Limits, SetDefaultRate(l) PROVE Typed'
  BY <1>6, LimiterAssumption DEF SetDefaultRate
<1>7. CASE SetDefaultSize
  BY <1>7 DEF SetDefaultSize
<1>8. CASE Tick
  BY <1>8 DEF Tick
<1>9. CASE UNCHANGED vars
  BY <1>9 DEF vars
<1>10. QED
  BY <1>1, <1>2, <1>3, <1>4, <1>5, <1>6, <1>7, <1>8, <1>9 DEF Next

LEMMA Typing == Spec => []Typed
  BY TypedInit, TypedStep, PTL DEF Spec

-----------------------------------------------------------------------------
(* A refill stays within the bounds, and a message takes the tokens it finds *)
(* or, if it is CRITICAL, leaves the bucket above the floor.                 *)
LEMMA RefillBounds ==
  ASSUME Typed, TokensBounded, NEW d \in Devices
  PROVE  /\ Floor < Refilled(d) /\ Refilled(d) <= size[d]
         /\ Refilled(d) <= tokens[d] + NewTokens(d)
<1>1. NewTokens(d) \in Nat /\ size[d] \in Nat /\ tokens[d] \in Int
  BY RefillTyped DEF Typed, TypeOK
<1>2. Floor < tokens[d] /\ tokens[d] <= size[d]
  BY DEF TokensBounded
<1>3. QED
  BY <1>1, <1>2, Units DEF Refilled, Least

LEMMA TakenBounds ==
  ASSUME NEW t \in Int, Floor < t, NEW p \in Priorities
  PROVE  Floor < t - Taken(t, p)
<1>1. CASE t >= TokensNeeded(p)
  BY <1>1, TokensNeededNat, Units DEF Taken, Admits
<1>2. CASE MayOverdraw(p) /\ t > -Debt
  <2>1. TokensNeeded(p) = Tenth
    BY <1>2 DEF MayOverdraw, TokensNeeded
  <2>2. QED
    BY <1>2, <2>1, Units DEF Taken, Admits
<1>3. CASE ~Admits(t, p)
  BY <1>3 DEF Taken
<1>4. QED
  BY <1>1, <1>2, <1>3 DEF Admits

LEMMA BoundedInit == Init => TokensBounded
<1> SUFFICES ASSUME Init, NEW d \in Devices PROVE Floor < tokens[d] /\ tokens[d] <= size[d]
  BY DEF TokensBounded
<1>1. tokens[d] = 0 /\ size[d] = 0
  BY DEF Init
<1>2. QED
  BY <1>1, Units

LEMMA BoundedStep == Typed /\ TokensBounded /\ [Next]_vars => TokensBounded'
<1> SUFFICES ASSUME Typed, TokensBounded, [Next]_vars PROVE TokensBounded'
  OBVIOUS
<1>1. CASE UNCHANGED <<tokens, size>>
  BY <1>1 DEF TokensBounded
<1>2. ASSUME NEW d \in Devices, NEW p \in Priorities, FirstMessage(d, p)
      PROVE  TokensBounded'
  <2> DEFINE n == Taken(defaultSize, p)
  <2>1. defaultSize \in Nat /\ n \in Nat
    BY TakenNat DEF Typed, TypeOK
  <2>2. Floor < defaultSize - n
    BY <2>1, TakenBounds, Units
  <2>3. /\ size' = [size EXCEPT ![d] = defaultSize]
        /\ tokens' = [tokens EXCEPT ![d] = defaultSize - n]
    BY <1>2 DEF FirstMessage, MakeBucket
  <2> HIDE DEF n
  <2>4. QED
    BY <2>1, <2>2, <2>3 DEF TokensBounded, Typed, TypeOK
<1>3. ASSUME NEW d \in Devices, NEW p \in Priorities, CheckLimit(d, p)
      PROVE  TokensBounded'
  <2> DEFINE n == Taken(Refilled(d), p)
             r == Refilled(d)
  <2>1. r \in Int /\ n \in Nat /\ r <= size[d]
    BY RefillTyped, RefillBounds, TakenNat
  <2>2. Floor < r - n
    BY RefillTyped, RefillBounds, TakenBounds
  <2>3. tokens' = [tokens EXCEPT ![d] = r - n] /\ size' = size
    BY <1>3 DEF CheckLimit
  <2> HIDE DEF n, r
  <2>4. QED
    BY <2>1, <2>2, <2>3 DEF TokensBounded, Typed, TypeOK
<1>4. ASSUME NEW d \in Devices, GetDeviceStatistics(d) PROVE TokensBounded'
  BY <1>4, RefillBounds DEF GetDeviceStatistics, TokensBounded, Typed, TypeOK
<1>5. ASSUME NEW d \in Devices, NEW l \in Limits, SetDeviceLimit(d, l) PROVE TokensBounded'
  <2>1. l.size \in Nat
    BY LimiterAssumption
  <2>2. CASE MakeBucket(d, l.rate, l.size, 0)
    BY <2>1, <2>2, Units DEF MakeBucket, TokensBounded, Typed, TypeOK
  <2>3. CASE ChangeDeviceLimit(d, l)
    BY <2>1, <2>3, Units DEF ChangeDeviceLimit, Least, TokensBounded, Typed, TypeOK
  <2>4. QED
    BY <1>5, <2>2, <2>3 DEF SetDeviceLimit
<1>6. ASSUME NEW d \in Devices, ResetDevice(d) PROVE TokensBounded'
  BY <1>6, Units DEF ResetDevice, TokensBounded, Typed, TypeOK
<1>7. QED
  BY <1>1, <1>2, <1>3, <1>4, <1>5, <1>6
     DEF Next, SetDefaultRate, SetDefaultSize, Tick, vars

(* The bucket never holds more than its size, and is never 4.1 tokens in    *)
(* debt, whatever fractions of a token its refills bring.                   *)
THEOREM BucketIsBounded == Spec => []TokensBounded
  BY BoundedInit, BoundedStep, Typing, PTL DEF Spec

-----------------------------------------------------------------------------
(* The tokens in the bucket, with those the next refill will bring, are     *)
(* paid for by the balance, as long as the rate was not raised.             *)
Covered == \A d \in known \ raised : tokens[d] + NewTokens(d) <= balance[d]

(* A bucket that was just refilled has no tokens to come. *)
LEMMA NothingToCome ==
  ASSUME Typed, NEW d \in Devices, MarkRefill(d), UNCHANGED <<rate, now>>
  PROVE  NewTokens(d)' = 0 /\ \A e \in Devices : e # d => NewTokens(e)' = NewTokens(e)
<1>1. NewTokens(d) \in Nat /\ rate[d] \in Nat /\ now \in Nat
  BY RefillTyped DEF Typed, TypeOK
<1>2. updated' = [updated EXCEPT ![d] = IF NewTokens(d) > 0 THEN now ELSE @]
  BY DEF MarkRefill
<1>3. NewTokens(d)' = 0
  <2>1. CASE NewTokens(d) > 0
    <3>1. updated'[d] = now /\ now - now = 0
      BY <1>1, <1>2, <2>1 DEF Typed, TypeOK
    <3>2. QED
      BY <1>1, <3>1, TimesZero DEF NewTokens
  <2>2. CASE ~(NewTokens(d) > 0)
    <3>1. updated'[d] = updated[d]
      BY <1>2, <2>2 DEF Typed, TypeOK
    <3>2. QED
      BY <1>1, <2>2, <3>1 DEF NewTokens
  <2>3. QED
    BY <2>1, <2>2
<1>4. ASSUME NEW e \in Devices, e # d PROVE NewTokens(e)' = NewTokens(e)
  <2>1. updated'[e] = updated[e]
    BY <1>2, <1>4 DEF Typed, TypeOK
  <2>2. QED
    BY <2>1 DEF NewTokens
<1>5. QED
  BY <1>3, <1>4

LEMMA CoveredStep ==
  Typed /\ TokensBounded /\ Covered /\ [Next]_vars => Covered'
<1> SUFFICES ASSUME Typed, TokensBounded, Covered, [Next]_vars PROVE Covered'
  OBVIOUS
<1>0. /\ known \subseteq Devices /\ raised \subseteq known
      /\ tokens \in [Devices -> Int] /\ balance \in [Devices -> Int]
      /\ rate \in [Devices -> Nat] /\ size \in [Devices -> Nat]
      /\ updated \in [Devices -> Nat] /\ now \in Nat
      /\ \A d \in Devices : NewTokens(d) \in Nat
  BY RefillTyped DEF Typed, TypeOK
<1>1. CASE UNCHANGED <<known, raised, tokens, balance, rate, updated, now>>
  BY <1>1 DEF Covered, NewTokens
(* A bucket made or emptied of its history now. *)
<1>2. ASSUME NEW d \in Devices, NEW s \in Int, updated'[d] = now, now' = now,
             rate'[d] \in Nat, tokens'[d] = s, balance'[d] = s
      PROVE  tokens'[d] + NewTokens(d)' <= balance'[d]
  <2>1. NewTokens(d)' = 0
    BY <1>0, <1>2, TimesZero DEF NewTokens
  <2>2. QED
    BY <1>2, <2>1
<1>3. ASSUME NEW d \in Devices, NEW r \in Nat, NEW s \in Nat, NEW n \in Int,
             MakeBucket(d, r, s, n)
      PROVE  Covered'
  <2>1. tokens'[d] + NewTokens(d)' <= balance'[d]
    <3>1. /\ updated'[d] = now /\ now' = now /\ rate'[d] = r
          /\ tokens'[d] = s - n /\ balance'[d] = s - n
      BY <1>0, <1>3 DEF MakeBucket
    <3>2. QED
      BY <1>2, <3>1
  <2>2. ASSUME NEW e \in known \ raised, e # d
        PROVE  tokens'[e] + NewTokens(e)' <= balance'[e]
    <3>1. /\ tokens'[e] = tokens[e] /\ balance'[e] = balance[e]
          /\ rate'[e] = rate[e] /\ updated'[e] = updated[e] /\ now' = now
      BY <1>0, <1>3, <2>2 DEF MakeBucket
    <3>2. QED
      BY <3>1 DEF NewTokens, Covered
  <2>3. known' \ raised' \subseteq (known \ raised) \cup {d}
    BY <1>3 DEF MakeBucket
  <2>4. QED
    BY <2>1, <2>2, <2>3 DEF Covered
<1>4. ASSUME NEW d \in Devices, NEW n \in Nat, d \in known, MarkRefill(d),
             tokens' = [tokens EXCEPT ![d] = Refilled(d) - n],
             balance' = [balance EXCEPT ![d] = @ - n],
             UNCHANGED <<known, raised, rate, now>>
      PROVE  Covered'
  <2>1. NewTokens(d)' = 0 /\ \A e \in Devices : e # d => NewTokens(e)' = NewTokens(e)
    BY <1>4, NothingToCome
  <2>2. Refilled(d) \in Int /\ Refilled(d) <= tokens[d] + NewTokens(d)
    BY RefillTyped, RefillBounds
  <2>3. ASSUME NEW e \in known \ raised PROVE tokens'[e] + NewTokens(e)' <= balance'[e]
    <3>1. tokens[e] + NewTokens(e) <= balance[e]
      BY DEF Covered
    <3>2. CASE e = d
      <4>1. tokens'[d] = Refilled(d) - n /\ balance'[d] = balance[d] - n
        BY <1>0, <1>4
      <4>2. QED
        BY <1>0, <2>1, <2>2, <3>1, <3>2, <4>1
    <3>3. CASE e # d
      BY <1>0, <1>4, <2>1, <3>1, <3>3
    <3>4. QED
      BY <3>2, <3>3
  <2>4. QED
    BY <1>4, <2>3 DEF Covered
<1>5. ASSUME NEW d \in Devices, NEW p \in Priorities, FirstMessage(d, p) PROVE Covered'
  <2>1. defaultRate \in Nat /\ defaultSize \in Nat
    BY DEF Typed, TypeOK
  <2>2. Taken(defaultSize, p) \in Int
    BY <2>1, TakenNat
  <2>3. QED
    BY <1>3, <1>5, <2>1, <2>2 DEF FirstMessage
<1>6. ASSUME NEW d \in Devices, NEW p \in Priorities, CheckLimit(d, p) PROVE Covered'
  <2>1. Taken(Refilled(d), p) \in Nat
    BY RefillTyped, TakenNat
  <2>2. QED
    BY <1>4, <1>6, <2>1 DEF CheckLimit
<1>7. ASSUME NEW d \in Devices, GetDeviceStatistics(d) PROVE Covered'
  <2>1. Refilled(d) \in Int
    BY RefillTyped
  <2>2. Refilled(d) - 0 = Refilled(d)
    BY <2>1
  <2>3. tokens' = [tokens EXCEPT ![d] = Refilled(d)]
    BY <1>7 DEF GetDeviceStatistics
  <2>4. tokens' = [tokens EXCEPT ![d] = Refilled(d) - 0]
    BY <2>2, <2>3, Zenon
  <2>5. balance[d] - 0 = balance[d] /\ balance = [balance EXCEPT ![d] = balance[d]]
    BY <1>0, <1>7
  <2>6. balance' = [balance EXCEPT ![d] = @ - 0]
    BY <1>7, <2>5 DEF GetDeviceStatistics, history
  <2>7. QED
    BY <1>4, <1>7, <2>4, <2>6 DEF GetDeviceStatistics, history
<1>8. ASSUME NEW d \in Devices, NEW l \in Limits, SetDeviceLimit(d, l) PROVE Covered'
  <2>1. l.rate \in Nat /\ l.size \in Nat
    BY LimiterAssumption
  <2>2. CASE MakeBucket(d, l.rate, l.size, 0)
    BY <1>3, <2>1, <2>2
  <2>3. CASE ChangeDeviceLimit(d, l)
    <3>1. ASSUME NEW e \in known' \ raised'
          PROVE  tokens'[e] + NewTokens(e)' <= balance'[e]
      <4>1. /\ e \in known \ raised /\ updated' = updated /\ now' = now
            /\ balance' = balance /\ e \in Devices
        BY <1>0, <2>3 DEF ChangeDeviceLimit
      <4>2. tokens[e] + NewTokens(e) <= balance[e]
        BY <4>1 DEF Covered
      <4>3. rate'[e] \in Nat /\ rate'[e] <= rate[e]
        BY <1>0, <2>1, <2>3, <4>1 DEF ChangeDeviceLimit
      <4>4. tokens'[e] \in Int /\ tokens'[e] <= tokens[e]
        BY <1>0, <2>1, <2>3, <4>1 DEF ChangeDeviceLimit, Least
      <4>5. now - updated[e] \in Nat
        BY <4>1 DEF Typed, TypeOK
      <4>6. NewTokens(e)' \in Nat /\ NewTokens(e)' <= NewTokens(e)
        BY <1>0, <4>1, <4>3, <4>5, ProductNat, ProductMonotone DEF NewTokens
      <4>7. QED
        BY <1>0, <4>1, <4>2, <4>4, <4>6
    <3>2. QED
      BY <3>1 DEF Covered
  <2>4. QED
    BY <1>8, <2>2, <2>3 DEF SetDeviceLimit
<1>9. ASSUME NEW d \in Devices, ResetDevice(d) PROVE Covered'
  <2>1. tokens'[d] + NewTokens(d)' <= balance'[d]
    <3>1. /\ updated'[d] = now /\ now' = now /\ rate'[d] = rate[d]
          /\ tokens'[d] = size[d] /\ balance'[d] = size[d]
      BY <1>0, <1>9 DEF ResetDevice
    <3>2. QED
      BY <1>0, <1>2, <3>1
  <2>2. ASSUME NEW e \in known \ raised, e # d
        PROVE  tokens'[e] + NewTokens(e)' <= balance'[e]
    <3>1. /\ tokens'[e] = tokens[e] /\ balance'[e] = balance[e]
          /\ rate'[e] = rate[e] /\ updated'[e] = updated[e] /\ now' = now
      BY <1>0, <1>9, <2>2 DEF ResetDevice
    <3>2. QED
      BY <3>1 DEF NewTokens, Covered
  <2>3. known' \ raised' \subseteq (known \ raised) \cup {d}
    BY <1>9 DEF ResetDevice
  <2>4. QED
    BY <2>1, <2>2, <2>3 DEF Covered
<1>10. CASE Tick
  <2>1. ASSUME NEW e \in known \ raised PROVE tokens'[e] + NewTokens(e)' <= balance'[e]
    <3>1. /\ tokens'[e] = tokens[e] /\ balance'[e] = balance[e] + rate[e]
          /\ rate'[e] = rate[e] /\ updated'[e] = updated[e] /\ now' = now + 1
      BY <1>0, <1>10 DEF Tick
    <3>2. now - updated[e] \in Nat /\ now' - updated'[e] = (now - updated[e]) + 1
      BY <1>0, <3>1 DEF Typed
    <3>3. NewTokens(e)' = NewTokens(e) + rate[e]
      BY <1>0, <3>1, <3>2, ProductGrows DEF NewTokens
    <3>4. tokens[e] + NewTokens(e) <= balance[e]
      BY DEF Covered
    <3>5. QED
      BY <1>0, <3>1, <3>3, <3>4
  <2>2. QED
    BY <1>10, <2>1 DEF Covered, Tick
<1>11. QED
  BY <1>1, <1>5, <1>6, <1>7, <1>8, <1>9, <1>10
     DEF Next, SetDefaultRate, SetDefaultSize, history, vars, defaults

LEMMA CoveredInit == Init => Covered
  BY DEF Init, Covered

LEMMA Invariant == Spec => [](Typed /\ TokensBounded /\ Covered)
  BY TypedInit, TypedStep, BoundedInit, BoundedStep, CoveredInit, CoveredStep, PTL DEF Spec

(* Every operation, in any order, keeps the limiter's state well-typed.     *)
THEOREM LimiterTypeCorrect == Spec => []TypeOK
<1>1. Typed => TypeOK
  BY DEF Typed
<1>2. QED
  BY <1>1, Invariant, PTL

(* A device never gets through more than its burst, its rate and the debt   *)
(* of CRITICAL messages, less than 4.1 tokens, allow, whatever the order of messages, refills,     *)
(* resets and lowered limits.                                               *)
THEOREM LongRunRate == Spec => []RateHolds
<1>1. Typed /\ TokensBounded /\ Covered => RateHolds
  <2> SUFFICES ASSUME Typed, TokensBounded, Covered, NEW d \in known \ raised
               PROVE  Floor < balance[d]
    BY DEF RateHolds
  <2>1. d \in Devices
    BY DEF Typed, TypeOK
  <2>2. NewTokens(d) \in Nat /\ tokens[d] \in Int /\ balance[d] \in Int
    BY <2>1, RefillTyped DEF Typed, TypeOK
  <2>3. tokens[d] + NewTokens(d) <= balance[d] /\ Floor < tokens[d]
    BY <2>1 DEF Covered, TokensBounded
  <2>4. QED
    BY <2>2, <2>3, Units
<1>2. QED
  BY <1>1, Invariant, PTL

(* A message that is not CRITICAL is let through only within burst and      *)
(* rate: the debt of the CRITICAL ones is not available to it.              *)
THEOREM DebtIsForCritical == Spec => OrdinaryWithinRate
<1>1. ASSUME Typed, TokensBounded, Covered,
             NEW d \in known \ raised, NEW p \in Priorities,
             CheckLimit(d, p), ~MayOverdraw(p), balance'[d] < balance[d]
      PROVE  balance'[d] >= 0
  <2>1. d \in Devices
    BY <1>1 DEF Typed, TypeOK
  <2>2. /\ NewTokens(d) \in Nat /\ tokens[d] \in Int /\ balance[d] \in Int
        /\ Refilled(d) \in Int /\ Refilled(d) <= tokens[d] + NewTokens(d)
    BY <1>1, <2>1, RefillTyped, RefillBounds DEF Typed, TypeOK
  <2>3. balance'[d] = balance[d] - Taken(Refilled(d), p)
    BY <1>1, <2>1 DEF CheckLimit, Typed, TypeOK
  <2>4. Admits(Refilled(d), p)
    BY <1>1, <2>2, <2>3 DEF Taken
  <2>5. Taken(Refilled(d), p) = TokensNeeded(p) /\ Refilled(d) >= TokensNeeded(p)
    BY <1>1, <2>4 DEF Taken, Admits
  <2>6. tokens[d] + NewTokens(d) <= balance[d]
    BY <1>1 DEF Covered
  <2>7. QED
    BY <2>2, <2>3, <2>5, <2>6, TokensNeededNat
<1>2. Typed /\ TokensBounded /\ Covered /\ [Next]_vars =>
        [\A d \in known \ raised, p \in Priorities :
           /\ CheckLimit(d, p) /\ ~MayOverdraw(p)
           /\ balance'[d] < balance[d]
           => balance'[d] >= 0]_vars
  BY <1>1
<1>3. QED
  BY <1>2, Invariant, PTL DEF Spec, OrdinaryWithinRate
=============================================================================
