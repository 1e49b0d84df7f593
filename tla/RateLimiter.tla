----------------------------- MODULE RateLimiter -----------------------------
(***************************************************************************)
(* udp_gateway::TokenBucketRateLimiter: a token bucket per device, made at *)
(* the device's first message.  Every operation on buckets holds mutex_    *)
(* and is one action; setDefaultLimit does not, and writes its two values  *)
(* one after the other.  The code counts tokens as doubles and adds any    *)
(* fraction of one; here they are counted in units of which there are      *)
(* Tenth, however many, in the tenth of a token that the cheapest message  *)
(* costs, and time in ticks.                                               *)
(***************************************************************************)
EXTENDS Integers

CONSTANTS
  Devices,
  Tenth,               (* units of tokens in a tenth of a token               *)
  Limits,              (* the limits [rate, size] that operators set, in      *)
                       (* units per tick and in units                         *)
  EnablePriorityBoost, (* Config::enablePriorityBoost                         *)
  MaxTime              (* bound: the last tick of the clock                   *)

ASSUME LimiterAssumption ==
  /\ Tenth \in Nat \ {0}
  /\ Limits \subseteq [rate : Nat, size : Nat]
  /\ EnablePriorityBoost \in BOOLEAN
  /\ MaxTime \in Nat

VARIABLES
  known,        (* devices that have a bucket                                *)
  rate,         (* rate[d]: tokensPerSecond of d's bucket                    *)
  size,         (* size[d]: bucketSize                                       *)
  tokens,       (* tokens[d]: availableTokens                                *)
  updated,      (* updated[d]: lastUpdated                                   *)
  defaultRate,  (* config_.defaultMessagesPerSecond                          *)
  defaultSize,  (* config_.defaultBurstSize                                  *)
  writing,      (* sizes a setDefaultLimit in progress has yet to write      *)
  now,          (* steady_clock::now()                                       *)
  balance,      (* history: the burst d's bucket began with and its rate for *)
                (* the time since, less the tokens d's messages took         *)
  raised        (* history: devices whose rate was raised on a bucket in use *)

defaults == <<defaultRate, defaultSize, writing>>
history == <<balance, raised>>
vars == <<known, rate, size, tokens, updated, defaults, now, history>>

Priorities == {"LOW", "NORMAL", "HIGH", "CRITICAL"}

(* A CRITICAL message is let through above -4.0 tokens: what it leaves is   *)
(* above -4.1, because a fraction may have been refilled.                   *)
Debt == 40 * Tenth
Floor == -(41 * Tenth)

(* getPriorityMultiplier and 1.0 / priorityMultiplier. *)
TokensNeeded(p) ==
  IF ~EnablePriorityBoost THEN 10 * Tenth
  ELSE CASE p = "CRITICAL" -> Tenth [] p = "HIGH" -> 2 * Tenth
         [] p = "NORMAL" -> 10 * Tenth [] p = "LOW" -> 20 * Tenth

(* A multiplier of 10 or more: the message may overdraw the bucket. *)
MayOverdraw(p) == EnablePriorityBoost /\ p = "CRITICAL"

Least(a, b) == IF a < b THEN a ELSE b

Init ==
  /\ known = {}
  /\ \E l \in Limits : defaultRate = l.rate /\ defaultSize = l.size
  /\ writing = {}
  /\ rate = [d \in Devices |-> 0] /\ size = [d \in Devices |-> 0]
  /\ tokens = [d \in Devices |-> 0] /\ updated = [d \in Devices |-> 0]
  /\ now = 0
  /\ balance = [d \in Devices |-> 0] /\ raised = {}
-----------------------------------------------------------------------------
(* DeviceBucket. *)

(* A new bucket is full, and used by n tokens at once. *)
MakeBucket(d, r, s, n) ==
  /\ known' = known \cup {d}
  /\ rate' = [rate EXCEPT ![d] = r]
  /\ size' = [size EXCEPT ![d] = s]
  /\ tokens' = [tokens EXCEPT ![d] = s - n]
  /\ updated' = [updated EXCEPT ![d] = now]
  /\ balance' = [balance EXCEPT ![d] = s - n]
  /\ UNCHANGED <<defaults, now, raised>>

(* refill(): what it leaves in the bucket.  lastUpdated moves only if       *)
(* tokens came in.                                                          *)
NewTokens(d) == (now - updated[d]) * rate[d]
Refilled(d) == IF NewTokens(d) > 0 THEN Least(size[d], tokens[d] + NewTokens(d)) ELSE tokens[d]
MarkRefill(d) == updated' = [updated EXCEPT ![d] = IF NewTokens(d) > 0 THEN now ELSE @]

(* Mutant: every message may overdraw the bucket. *)
AdmitsAll(t, p) == t >= TokensNeeded(p) \/ t > -Debt

(* consumeToken's answer, with t tokens in the bucket. *)
Admits(t, p) == t >= TokensNeeded(p) \/ (MayOverdraw(p) /\ t > -Debt)

(* What a message takes: a message over the limit takes nothing. *)
Taken(t, p) == IF Admits(t, p) THEN TokensNeeded(p) ELSE 0
-----------------------------------------------------------------------------
(* checkLimit (and tryAcquire, which calls it). *)

(* A device's first message makes its bucket. *)
FirstMessage(d, p) ==
  /\ d \notin known
  /\ MakeBucket(d, defaultRate, defaultSize, Taken(defaultSize, p))

CheckLimit(d, p) ==
  /\ d \in known
  /\ tokens' = [tokens EXCEPT ![d] = Refilled(d) - Taken(Refilled(d), p)]
  /\ MarkRefill(d)
  /\ balance' = [balance EXCEPT ![d] = @ - Taken(Refilled(d), p)]
  /\ UNCHANGED <<known, rate, size, defaults, now, raised>>

(* getDeviceStatistics refills the bucket it reports on. *)
GetDeviceStatistics(d) ==
  /\ d \in known
  /\ tokens' = [tokens EXCEPT ![d] = Refilled(d)]
  /\ MarkRefill(d)
  /\ UNCHANGED <<known, rate, size, defaults, now, history>>
-----------------------------------------------------------------------------
(* Mutant: a new size fills the bucket. *)
SetLimitAndFill(d, l) ==
  /\ d \in known
  /\ rate' = [rate EXCEPT ![d] = l.rate]
  /\ size' = [size EXCEPT ![d] = l.size]
  /\ tokens' = [tokens EXCEPT ![d] = l.size]
  /\ raised' = IF l.rate > rate[d] THEN raised \cup {d} ELSE raised
  /\ UNCHANGED <<known, updated, defaults, now, balance>>

(* Mutant: a smaller size leaves the tokens that are there. *)
SetLimitUncapped(d, l) ==
  /\ d \in known
  /\ rate' = [rate EXCEPT ![d] = l.rate]
  /\ size' = [size EXCEPT ![d] = l.size]
  /\ raised' = IF l.rate > rate[d] THEN raised \cup {d} ELSE raised
  /\ UNCHANGED <<known, tokens, updated, defaults, now, balance>>

(* setDeviceLimit on a bucket in use caps its tokens and does not refill it *)
(* first: the time since the last refill will count at the new rate.        *)
ChangeDeviceLimit(d, l) ==
  /\ d \in known
  /\ rate' = [rate EXCEPT ![d] = l.rate]
  /\ size' = [size EXCEPT ![d] = l.size]
  /\ tokens' = [tokens EXCEPT ![d] = Least(@, l.size)]
  /\ raised' = IF l.rate > rate[d] THEN raised \cup {d} ELSE raised
  /\ UNCHANGED <<known, updated, defaults, now, balance>>

SetDeviceLimit(d, l) ==
  \/ d \notin known /\ MakeBucket(d, l.rate, l.size, 0)
  \/ ChangeDeviceLimit(d, l)

(* setDefaultLimit takes no lock: a bucket may be made between its writes. *)
SetDefaultRate(l) ==
  /\ writing = {}
  /\ defaultRate' = l.rate
  /\ writing' = {l.size}
  /\ UNCHANGED <<known, rate, size, tokens, updated, defaultSize, now, history>>

SetDefaultSize ==
  /\ defaultSize' \in writing
  /\ writing' = {}
  /\ UNCHANGED <<known, rate, size, tokens, updated, defaultRate, now, history>>

(* resetDevice starts the bucket anew: the history does as well. *)
ResetDevice(d) ==
  /\ d \in known
  /\ tokens' = [tokens EXCEPT ![d] = size[d]]
  /\ updated' = [updated EXCEPT ![d] = now]
  /\ balance' = [balance EXCEPT ![d] = size[d]]
  /\ raised' = raised \ {d}
  /\ UNCHANGED <<known, rate, size, defaults, now>>

Tick ==
  /\ now < MaxTime
  /\ now' = now + 1
  /\ balance' = [d \in Devices |-> balance[d] + rate[d]]
  /\ UNCHANGED <<known, rate, size, tokens, updated, defaults, raised>>

Next ==
  \/ \E d \in Devices :
       \/ \E p \in Priorities : FirstMessage(d, p) \/ CheckLimit(d, p)
       \/ GetDeviceStatistics(d)
       \/ \E l \in Limits : SetDeviceLimit(d, l)
       \/ ResetDevice(d)
  \/ \E l \in Limits : SetDefaultRate(l)
  \/ SetDefaultSize
  \/ Tick

Spec == Init /\ [][Next]_vars
-----------------------------------------------------------------------------
TypeOK ==
  /\ known \subseteq Devices /\ raised \subseteq known
  /\ rate \in [Devices -> Nat] /\ size \in [Devices -> Nat]
  /\ tokens \in [Devices -> Int]
  /\ updated \in [Devices -> Nat] /\ now \in Nat
  /\ defaultRate \in Nat /\ defaultSize \in Nat /\ writing \subseteq Nat
  /\ balance \in [Devices -> Int]

(* The bucket never holds more than its size, after any change of limits,   *)
(* and CRITICAL messages overdraw it by less than 4.1 tokens: by four, and  *)
(* by less than one more message, the one that a refilled fraction lets     *)
(* through.                                                                 *)
TokensBounded == \A d \in Devices : Floor < tokens[d] /\ tokens[d] <= size[d]

(* What the limiter is for: over its whole life a device gets through no    *)
(* more than its burst, its rate for the time that passed, and the 4.1      *)
(* tokens its CRITICAL messages may be in debt; refills, refused messages   *)
(* and lowered limits in any order never give tokens away.  Raising the     *)
(* rate of a bucket in use does: idle time is paid at the new rate.         *)
RateHolds == \A d \in known \ raised : Floor < balance[d]

(* The debt is for CRITICAL messages alone: any other is let through only   *)
(* if, with it, the device is still within its burst and rate, however much *)
(* CRITICAL messages overdrew before.                                       *)
OrdinaryWithinRate ==
  [][\A d \in known \ raised, p \in Priorities :
       /\ CheckLimit(d, p) /\ ~MayOverdraw(p)
       /\ balance'[d] < balance[d]
       => balance'[d] >= 0]_vars
=============================================================================
