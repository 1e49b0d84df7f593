-------------------------- MODULE DeduplicatorProofs --------------------------
(***************************************************************************)
(* The safety of the deduplicator for any number of callers, servers,      *)
(* identifiers and batches, and any capacity of the cache; and that checks *)
(* and shutdowns end.                                                      *)
(***************************************************************************)
EXTENDS Deduplicator, TLAPS

States == {"idle", "lookUp", "getConnection", "setNX", "update", "undefined"}
Entries == [id : Ids, result : Results]

(* A call that is checking has an identifier to check; one that updates the *)
(* cache has a result to put in it.                                         *)
HasWork ==
  \A c \in Callers :
    /\ pc[c] \in {"lookUp", "getConnection", "setNX"} => todo[c] # <<>>
    /\ pc[c] = "update" => checked[c] # <<>>

Typed == TypeOK /\ HasWork

-----------------------------------------------------------------------------
(* Sequences as the calls use them. *)

LEMMA TakeFirst ==
  ASSUME NEW S, NEW q \in Seq(S), q # <<>>
  PROVE  /\ Head(q) \in S /\ Tail(q) \in Seq(S)
         /\ Len(q) # 1 => Tail(q) # <<>>
<1>1. Len(q) \in Nat /\ Len(q) # 0
  OBVIOUS
<1>2. Len(Tail(q)) = Len(q) - 1
  OBVIOUS
<1>3. Len(q) # 1 => Len(Tail(q)) # 0
  BY <1>1, <1>2
<1>4. Len(<<>>) = 0
  OBVIOUS
<1>5. Head(q) \in S /\ Tail(q) \in Seq(S)
  OBVIOUS
<1>6. QED
  BY <1>3, <1>4, <1>5

LEMMA AddLast ==
  ASSUME NEW S, NEW q \in Seq(S), NEW e \in S
  PROVE  Append(q, e) \in Seq(S) /\ Append(q, e) # <<>>
<1>1. Append(q, e) \in Seq(S) /\ Len(Append(q, e)) = Len(q) + 1
  OBVIOUS
<1>2. Len(q) \in Nat
  OBVIOUS
<1>3. QED
  BY <1>1, <1>2

(* What the cache's operations do to its types and contents. *)

LEMMA HitMissKeep ==
  ASSUME NEW m, CacheTypeOK, Hit(m) \/ Miss(m)
  PROVE  CacheTypeOK' /\ held' \subseteq held
  BY DEF CacheTypeOK, Hit, Miss, Remains

LEMMA PutAdds ==
  ASSUME NEW m \in Ids, NEW inDate \in BOOLEAN, CacheTypeOK, Put(m, inDate)
  PROVE  CacheTypeOK' /\ held' \subseteq held \cup {m}
<1>1. PICK kept \in Remains, evicted \in SUBSET held :
        /\ evicted \subseteq kept \ {m}
        /\ held' = (kept \ evicted) \cup {m}
        /\ fresh' = (fresh \ (evicted \cup {m})) \cup {x \in {m} : inDate}
  BY DEF Put
<1>2. kept \subseteq held /\ fresh \subseteq kept
  BY <1>1 DEF Remains, CacheTypeOK
<1>3. QED
  BY <1>1, <1>2 DEF CacheTypeOK

LEMMA UpkeepKeeps ==
  ASSUME CacheTypeOK, Clear \/ CleanUp \/ (\E S \in SUBSET fresh : Age(S))
  PROVE  CacheTypeOK' /\ held' \subseteq held
  BY DEF CacheTypeOK, Clear, CleanUp, Age

(* What one check does to its caller. *)
LEMMA DecideTyped ==
  ASSUME Typed, NEW c \in Callers, NEW r \in Results, Decide(c, r), todo[c] # <<>>
  PROVE  /\ pc' \in [Callers -> States]
         /\ todo' \in [Callers -> Seq(Ids)]
         /\ checked' \in [Callers -> Seq(Entries)]
         /\ refused' \subseteq Ids
         /\ HasWork'
<1> USE DEF Typed, TypeOK, HasWork, States, Entries
<1>1. /\ Head(todo[c]) \in Ids /\ Tail(todo[c]) \in Seq(Ids)
      /\ Len(todo[c]) # 1 => Tail(todo[c]) # <<>>
  BY TakeFirst
<1>2. CASE c \in doomed /\ Vanish(c) /\ UNCHANGED refused
  <2>1. <<>> \in Seq(Ids) /\ <<>> \in Seq(Entries)
    OBVIOUS
  <2>2. QED
    BY <1>2, <2>1 DEF Vanish
<1>3. CASE c \notin doomed
  <2>1. Checked(Head(todo[c]), r) \in Entries /\ checked[c] \in Seq(Entries)
    BY <1>1 DEF Checked
  <2>2. /\ Append(checked[c], Checked(Head(todo[c]), r)) \in Seq(Entries)
        /\ Append(checked[c], Checked(Head(todo[c]), r)) # <<>>
    BY <2>1, AddLast
  <2>3. /\ todo' = [todo EXCEPT ![c] = Tail(@)]
        /\ refused' = refused \cup {m \in {Head(todo[c])} : r = "DUPLICATE"}
    BY <1>3 DEF Decide
  <2>4. todo'[c] = Tail(todo[c])
    BY <2>3
  <2>5. PICK place \in {"getConnection", "update", "idle"},
             results \in {<<>>, Append(checked[c], Checked(Head(todo[c]), r))} :
          /\ pc' = [pc EXCEPT ![c] = place]
          /\ checked' = [checked EXCEPT ![c] = results]
          /\ place = "getConnection" => Len(todo[c]) # 1
          /\ place = "update" =>
               results = Append(checked[c], Checked(Head(todo[c]), r))
    BY <1>3 DEF Decide
  <2>6. results \in Seq(Entries) /\ (place = "update" => results # <<>>)
    <3>1. <<>> \in Seq(Entries)
      OBVIOUS
    <3>2. QED
      BY <2>2, <2>5, <3>1
  <2>7. pc'[c] = place /\ checked'[c] = results
    BY <2>5
  <2>8. QED
    BY <1>1, <2>3, <2>4, <2>5, <2>6, <2>7
<1>4. QED
  BY <1>2, <1>3 DEF Decide

-----------------------------------------------------------------------------
LEMMA TypedInit == Init => Typed
<1> SUFFICES ASSUME Init PROVE TypeOK /\ HasWork
  BY DEF Typed
<1>1. CacheTypeOK
  BY DEF Init, CacheInit, CacheTypeOK
<1>2. /\ todo \in [Callers -> Seq(Ids)] /\ checked \in [Callers -> Seq(Entries)]
  BY DEF Init, Entries
<1>3. TypeOK
  BY <1>1, <1>2 DEF Init, TypeOK, Entries
<1>4. QED
  BY <1>3 DEF Init, HasWork

LEMMA UsersCall ==
  /\ \A users \in PoolUsers : users \subseteq Callers
  /\ \A users \in CacheUsers : users \subseteq Callers
BY DEF PoolUsers, CacheUsers, At

LEMMA TypedStep == Typed /\ [Next]_vars => Typed'
<1> SUFFICES ASSUME Typed, [Next]_vars PROVE Typed'
  OBVIOUS
<1> USE DEF Typed, TypeOK, HasWork, cacheVars, redis, flags, objects, upkeep, calls
<1>1. CASE Initialize \/ InitializeFails \/ InitializeThrows
  <2>1. hasPool' = TRUE /\ doomed' \subseteq Callers
    BY <1>1, UsersCall DEF Initialize, InitializeFails, InitializeThrows, MakeBoth, MakePool
  <2>2. CASE Initialize
    BY <2>1, <2>2, UpkeepKeeps DEF Initialize, MakeBoth
  <2>3. CASE InitializeFails
    BY <2>1, <2>3 DEF InitializeFails, CacheTypeOK
  <2>4. CASE InitializeThrows
    BY <2>1, <2>4, UpkeepKeeps DEF InitializeThrows, MakeBoth
  <2>5. QED
    BY <1>1, <2>2, <2>3, <2>4
<1>2. CASE Shutdown
  BY <1>2 DEF Shutdown, CacheTypeOK
<1>3. CASE JoinMaintenance
  BY <1>3 DEF JoinMaintenance, CacheTypeOK
<1>4. CASE DestroyPool
  BY <1>4, UsersCall DEF DestroyPool, CacheTypeOK
<1>5. CASE DestroyCache
  BY <1>5, UpkeepKeeps, UsersCall DEF DestroyCache
<1>6. CASE SetLocalCacheFallbackEnabled
  BY <1>6 DEF SetLocalCacheFallbackEnabled, CacheTypeOK
<1>7. CASE Wake
  BY <1>7 DEF Wake, CacheTypeOK
<1>8. CASE PerformMaintenance
  <2>1. CacheTypeOK'
    BY <1>8, UpkeepKeeps DEF PerformMaintenance, CacheTypeOK
  <2>2. QED
    BY <1>8, <2>1 DEF PerformMaintenance
<1>9. ASSUME NEW c \in Callers, NEW m \in Ids, IsDuplicate(c, m) PROVE Typed'
  <2>1. <<m>> \in Seq(Ids) /\ <<m>> # <<>>
    OBVIOUS
  <2>2. QED
    BY <1>9, <2>1 DEF IsDuplicate, CacheTypeOK
<1>10. ASSUME NEW c \in Callers, NEW batch \in Batches, AreDuplicates(c, batch) PROVE Typed'
  BY <1>10, DeduplicatorAssumption DEF AreDuplicates, CacheTypeOK
<1>11. ASSUME NEW c \in Callers, CheckWithCache(c) PROVE Typed'
  <2>1. CacheTypeOK'
    BY <1>11, HitMissKeep DEF CheckWithCache, CacheTypeOK
  <2>2. Head(todo[c]) \in Ids /\ <<>> \in Seq(Ids)
    BY <1>11 DEF CheckWithCache
  <2>3. QED
    BY <1>11, <2>1, <2>2 DEF CheckWithCache
<1>12. ASSUME NEW c \in Callers, GetConnection(c) PROVE Typed'
  <2>1. CASE Decide(c, "ERROR") /\ UNCHANGED connection
    BY <1>12, <2>1, DecideTyped DEF GetConnection, CacheTypeOK, Results, States, Entries
  <2>2. CASE \E s \in Servers :
               /\ connection' = [connection EXCEPT ![c] = s]
               /\ pc' = [pc EXCEPT ![c] = "setNX"]
               /\ UNCHANGED <<todo, checked, refused>>
    <3>1. /\ connection' \in [Callers -> Servers]
          /\ pc' = [pc EXCEPT ![c] = "setNX"]
          /\ UNCHANGED <<todo, checked, refused>>
      BY <2>2
    <3>2. todo[c] # <<>>
      BY <1>12 DEF GetConnection
    <3>3. QED
      BY <1>12, <3>1, <3>2 DEF GetConnection, CacheTypeOK
  <2>3. QED
    BY <1>12, <2>1, <2>2 DEF GetConnection
<1>13. ASSUME NEW c \in Callers, SetNX(c) PROVE Typed'
  <2>1. PICK r \in Results : Decide(c, r)
    BY <1>13 DEF SetNX, Results
  <2>2. todo[c] # <<>>
    BY <1>13 DEF SetNX
  <2>3. /\ pc' \in [Callers -> States]
        /\ todo' \in [Callers -> Seq(Ids)]
        /\ checked' \in [Callers -> Seq(Entries)]
        /\ refused' \subseteq Ids
        /\ HasWork'
    BY <2>1, <2>2, DecideTyped
  <2>4. /\ keys' \in [Servers -> SUBSET Ids]
        /\ claims' \in [Servers -> [Ids -> Nat]]
        /\ origins' \subseteq Ids
    <3>1. Head(todo[c]) \in Ids /\ connection[c] \in Servers
      BY <2>2, TakeFirst
    <3>2. [keys EXCEPT ![connection[c]] = @ \cup {Head(todo[c])}] \in [Servers -> SUBSET Ids]
      BY <3>1
    <3>3. [claims EXCEPT ![connection[c]][Head(todo[c])] = @ + 1] \in [Servers -> [Ids -> Nat]]
      BY <3>1
    <3>4. QED
      BY <1>13, <3>1, <3>2, <3>3 DEF SetNX
  <2>5. QED
    BY <1>13, <2>3, <2>4 DEF SetNX, CacheTypeOK, States, Entries
<1>14. ASSUME NEW c \in Callers, UpdateLocalCache(c) PROVE Typed'
  <2>1. /\ Head(checked[c]) \in Entries /\ Tail(checked[c]) \in Seq(Entries)
        /\ Len(checked[c]) # 1 => Tail(checked[c]) # <<>>
    <3>1. checked[c] \in Seq(Entries) /\ checked[c] # <<>>
      BY <1>14 DEF UpdateLocalCache, Entries
    <3>2. QED
      BY <3>1, TakeFirst
  <2>2. CacheTypeOK'
    BY <1>14, <2>1, PutAdds DEF UpdateLocalCache, CacheTypeOK, Entries
  <2>3. QED
    BY <1>14, <2>1, <2>2 DEF UpdateLocalCache, Entries
<1>15. ASSUME NEW c \in Callers, Undefined(c) PROVE Typed'
  <2>1. <<>> \in Seq(Ids) /\ <<>> \in Seq(Entries)
    OBVIOUS
  <2>2. QED
    BY <1>15, <2>1 DEF Undefined, Vanish, CacheTypeOK, Entries
<1>16. ASSUME NEW s \in Servers, NEW m \in Ids, Expire(s, m) \/ OtherSets(s, m) PROVE Typed'
  <2>1. /\ [claims EXCEPT ![s][m] = @ + 1] \in [Servers -> [Ids -> Nat]]
        /\ [claims EXCEPT ![s][m] = 0] \in [Servers -> [Ids -> Nat]]
        /\ [keys EXCEPT ![s] = @ \cup {m}] \in [Servers -> SUBSET Ids]
        /\ [keys EXCEPT ![s] = @ \ {m}] \in [Servers -> SUBSET Ids]
    OBVIOUS
  <2>2. CASE Expire(s, m)
    BY <2>1, <2>2 DEF Expire, CacheTypeOK
  <2>3. CASE OtherSets(s, m)
    BY <2>1, <2>3 DEF OtherSets, CacheTypeOK
  <2>4. QED
    BY <1>16, <2>2, <2>3
<1>17. CASE AgeCache
  BY <1>17, UpkeepKeeps DEF AgeCache
<1>18. CASE UNCHANGED vars
  BY <1>18 DEF vars, CacheTypeOK
<1>19. QED
  BY <1>1, <1>2, <1>3, <1>4, <1>5, <1>6, <1>7, <1>8, <1>9, <1>10, <1>11, <1>12, <1>13,
     <1>14, <1>15, <1>16, <1>17, <1>18
     DEF Next, Closing, Upkeep, Advance

LEMMA Typing == Spec => []Typed
  BY TypedInit, TypedStep, PTL DEF Spec

(* The deduplicator's variables keep their types: a call that checks always *)
(* has an identifier to check, one that updates the cache a result.         *)
THEOREM DeduplicatorTypeCorrect == Spec => []TypeOK
  BY Typing, PTL DEF Typed
-----------------------------------------------------------------------------
(* A key that made a message UNIQUE is still there: SET NX fails until it   *)
(* expires.                                                                 *)
ClaimHasKey ==
  \A s \in Servers, m \in Ids :
    claims[s][m] <= 1 /\ (claims[s][m] # 0 => m \in keys[s])

LEMMA ClaimStep == Typed /\ ClaimHasKey /\ [Next]_vars => ClaimHasKey'
<1> SUFFICES ASSUME Typed, ClaimHasKey, [Next]_vars PROVE ClaimHasKey'
  OBVIOUS
<1>1. CASE UNCHANGED redis
  BY <1>1 DEF ClaimHasKey, redis
<1>2. ASSUME NEW c \in Callers, SetNX(c) PROVE ClaimHasKey'
  <2> DEFINE s == connection[c]
             m == Head(todo[c])
  <2>1. m \in Ids /\ s \in Servers
    BY <1>2, TakeFirst DEF SetNX, Typed, TypeOK, HasWork
  <2>2. CASE UNCHANGED redis
    BY <2>2 DEF ClaimHasKey, redis
  <2>3. CASE /\ m \notin keys[s]
             /\ keys' = [keys EXCEPT ![s] = @ \cup {m}]
             /\ claims' = [claims EXCEPT ![s][m] = @ + 1]
    BY <2>1, <2>3 DEF ClaimHasKey, Typed, TypeOK
  <2>4. CASE /\ keys' \in {keys, [keys EXCEPT ![s] = @ \cup {m}]}
             /\ UNCHANGED claims
    <3>1. keys \in [Servers -> SUBSET Ids]
      BY DEF Typed, TypeOK
    <3>2. CASE keys' = keys
      BY <2>4, <3>2 DEF ClaimHasKey
    <3>3. CASE keys' = [keys EXCEPT ![s] = @ \cup {m}]
      <4>1. \A x \in Servers : keys[x] \subseteq keys'[x]
        BY <3>1, <3>3
      <4>2. QED
        BY <2>4, <4>1 DEF ClaimHasKey
    <3>4. QED
      BY <2>4, <3>2, <3>3
  <2>5. QED
    BY <1>2, <2>2, <2>3, <2>4 DEF SetNX
<1>3. ASSUME NEW s \in Servers, NEW m \in Ids, Expire(s, m) PROVE ClaimHasKey'
  BY <1>3 DEF Expire, ClaimHasKey, Typed, TypeOK
<1>4. ASSUME NEW s \in Servers, NEW m \in Ids, OtherSets(s, m) PROVE ClaimHasKey'
  <2>1. claims[s][m] = 0
    BY <1>4 DEF OtherSets, ClaimHasKey, Typed, TypeOK
  <2>2. QED
    BY <1>4, <2>1 DEF OtherSets, ClaimHasKey, Typed, TypeOK
<1>5. QED
  BY <1>1, <1>2, <1>3, <1>4
     DEF Next, Closing, Upkeep, Advance, Initialize, InitializeFails, InitializeThrows,
         MakeBoth, Shutdown, JoinMaintenance, DestroyPool,
         DestroyCache, SetLocalCacheFallbackEnabled, Wake, PerformMaintenance, IsDuplicate,
         AreDuplicates, CheckWithCache, GetConnection, UpdateLocalCache, Undefined,
         AgeCache, vars

LEMMA ClaimInit == Init => ClaimHasKey
  BY DEF Init, ClaimHasKey

(* Whatever is lost, repeated, batched or asked by several gateways at      *)
(* once, a server's key makes a message UNIQUE at most once in its life.    *)
THEOREM UniqueOncePerWindow == Spec => []OneUniquePerWindow
<1>1. ClaimHasKey => OneUniquePerWindow
  BY DEF ClaimHasKey, OneUniquePerWindow
<1>2. QED
  BY <1>1, ClaimInit, ClaimStep, Typing, PTL DEF Spec

-----------------------------------------------------------------------------
(* Everything that can make a message a duplicate has an origin: keys, the  *)
(* cache's entries, and the results on their way to it.                     *)
OriginInv ==
  /\ DuplicateHasOrigin
  /\ \A s \in Servers : keys[s] \subseteq origins
  /\ held \subseteq origins
  /\ \A c \in Callers : \A i \in 1..Len(checked[c]) :
       checked[c][i].result # "ERROR" => checked[c][i].id \in origins

LEMMA OriginStep == Typed /\ OriginInv /\ [Next]_vars => OriginInv'
<1> SUFFICES ASSUME Typed, OriginInv, [Next]_vars PROVE OriginInv'
  OBVIOUS
<1> USE DEF OriginInv, DuplicateHasOrigin
<1>0. CacheTypeOK
  BY DEF Typed, TypeOK
(* Steps that give no results. *)
<1>1. ASSUME UNCHANGED <<redis, checked, refused>>, held' \subseteq held PROVE OriginInv'
  BY <1>1 DEF redis
<1>2. CASE Initialize \/ InitializeThrows \/ DestroyCache
  BY <1>0, <1>1, <1>2, UpkeepKeeps DEF Initialize, InitializeThrows, MakeBoth, DestroyCache, calls
<1>3. CASE \/ InitializeFails \/ Shutdown \/ JoinMaintenance \/ DestroyPool
           \/ SetLocalCacheFallbackEnabled \/ Wake
  BY <1>1, <1>3 DEF InitializeFails, Shutdown, JoinMaintenance, DestroyPool, SetLocalCacheFallbackEnabled,
                    Wake, calls, cacheVars
<1>4. CASE PerformMaintenance \/ AgeCache
  BY <1>0, <1>1, <1>4, UpkeepKeeps DEF PerformMaintenance, AgeCache, calls, cacheVars
<1>5. ASSUME NEW c \in Callers, NEW m \in Ids, IsDuplicate(c, m) PROVE OriginInv'
  BY <1>1, <1>5 DEF IsDuplicate, cacheVars
<1>6. ASSUME NEW c \in Callers, NEW batch \in Batches, AreDuplicates(c, batch)
      PROVE  OriginInv'
  BY <1>1, <1>6 DEF AreDuplicates, cacheVars
<1>7. ASSUME NEW c \in Callers, CheckWithCache(c) PROVE OriginInv'
  <2>1. held' \subseteq held
    BY <1>0, <1>7, HitMissKeep DEF CheckWithCache, cacheVars
  <2>2. refused' \subseteq refused \cup held
    BY <1>0, <1>7 DEF CheckWithCache, Hit, CacheTypeOK
  <2>3. QED
    BY <1>7, <2>1, <2>2 DEF CheckWithCache, redis
(* One more result, for an identifier with an origin unless it is ERROR. *)
<1>8. ASSUME NEW c \in Callers, NEW r \in Results, Decide(c, r), todo[c] # <<>>,
             r # "ERROR" => Head(todo[c]) \in origins', origins \subseteq origins'
      PROVE  /\ DuplicateHasOrigin'
             /\ \A x \in Callers : \A i \in 1..Len(checked'[x]) :
                  checked'[x][i].result # "ERROR" => checked'[x][i].id \in origins'
  <2>1. CASE c \in doomed /\ Vanish(c) /\ UNCHANGED refused
    <3>1. Len(<<>>) = 0
      OBVIOUS
    <3>2. QED
      BY <1>8, <2>1, <3>1 DEF Vanish, Typed, TypeOK
  <2>2. CASE c \notin doomed
    <3>1. /\ \/ checked' = [checked EXCEPT ![c] = Append(checked[c], Checked(Head(todo[c]), r))]
             \/ checked' = [checked EXCEPT ![c] = <<>>]
          /\ refused' = refused \cup {m \in {Head(todo[c])} : r = "DUPLICATE"}
      BY <1>8, <2>2 DEF Decide
    <3>2. checked \in [Callers -> Seq(Entries)]
      BY DEF Typed, TypeOK, Entries
    <3>3. \/ checked'[c] = Append(checked[c], Checked(Head(todo[c]), r))
          \/ checked'[c] = <<>>
      BY <3>1, <3>2
    <3>4. checked'[c] = <<>> => 1..Len(checked'[c]) = {}
      OBVIOUS
    <3>5. ASSUME NEW i \in 1..Len(checked'[c]), checked'[c][i].result # "ERROR"
          PROVE  checked'[c][i].id \in origins'
      <4>1. CASE i \in 1..Len(checked[c])
        <5>1. checked'[c][i] = checked[c][i]
          BY <3>2, <3>3, <3>5, <3>4, <4>1
        <5>2. QED
          BY <1>8, <3>5, <4>1, <5>1
      <4>2. CASE i = Len(checked[c]) + 1
        <5>1. checked'[c][i] = Checked(Head(todo[c]), r)
          BY <3>2, <3>3, <3>5, <3>4, <4>2
        <5>2. QED
          BY <1>8, <3>5, <5>1 DEF Checked
      <4>3. i \in 1..Len(checked[c]) \/ i = Len(checked[c]) + 1
        <5>1. checked[c] \in Seq(Entries)
          BY <3>2
        <5>2. Len(checked'[c]) = Len(checked[c]) + 1 /\ Len(checked[c]) \in Nat
          BY <3>3, <3>5, <3>4, <5>1
        <5>3. QED
          BY <3>5, <5>2
      <4>4. QED
        BY <4>1, <4>2, <4>3
    <3>6. \A x \in Callers : x # c => checked'[x] = checked[x]
      BY <3>1, <3>2
    <3>7. DuplicateHasOrigin'
      BY <1>8, <3>1
    <3>8. QED
      BY <1>8, <3>5, <3>6, <3>7
  <2>3. QED
    BY <1>8, <2>1, <2>2 DEF Decide
<1>9. ASSUME NEW c \in Callers, GetConnection(c) PROVE OriginInv'
  <2>1. CASE Decide(c, "ERROR")
    <3>1. todo[c] # <<>> /\ origins' = origins /\ keys' = keys /\ held' = held
      BY <1>9 DEF GetConnection, Typed, HasWork, redis, cacheVars
    <3>2. QED
      BY <1>8, <2>1, <3>1 DEF Results
  <2>2. CASE UNCHANGED <<todo, checked, refused>>
    BY <1>1, <1>9, <2>2 DEF GetConnection, cacheVars
  <2>3. QED
    BY <1>9, <2>1, <2>2 DEF GetConnection
<1>10. ASSUME NEW c \in Callers, SetNX(c) PROVE OriginInv'
  <2> DEFINE s == connection[c]
             m == Head(todo[c])
  <2>1. /\ m \in Ids /\ s \in Servers /\ todo[c] # <<>>
    BY <1>10, TakeFirst DEF SetNX, Typed, TypeOK, HasWork
  <2>2. PICK r \in Results : Decide(c, r)
    BY <1>10 DEF SetNX, Results
  <2>3. origins \subseteq origins' /\ m \in origins' /\ held' = held
    BY <1>10, <2>1 DEF SetNX, redis, cacheVars, Typed, TypeOK
  <2>4. \A x \in Servers : keys'[x] \subseteq keys[x] \cup {m}
    BY <1>10, <2>1 DEF SetNX, redis, Typed, TypeOK
  <2>5. QED
    BY <1>8, <2>1, <2>2, <2>3, <2>4
<1>11. ASSUME NEW c \in Callers, UpdateLocalCache(c) PROVE OriginInv'
  <2>1. checked[c] \in Seq(Entries) /\ checked[c] # <<>> /\ checked \in [Callers -> Seq(Entries)]
    BY <1>11 DEF UpdateLocalCache, Typed, TypeOK, HasWork, Entries
  <2>2. Head(checked[c]) = checked[c][1] /\ 1 \in 1..Len(checked[c])
    BY <2>1
  <2>3. Head(checked[c]).id \in Ids
    BY <2>1, TakeFirst DEF Entries
  <2>4. held' \subseteq origins
    BY <1>0, <1>11, <2>2, <2>3, PutAdds DEF UpdateLocalCache, cacheVars
  <2>5. /\ checked'[c] = Tail(checked[c])
        /\ \A x \in Callers : x # c => checked'[x] = checked[x]
    BY <1>11, <2>1 DEF UpdateLocalCache
  <2>6. \A i \in 1..Len(checked'[c]) :
          i + 1 \in 1..Len(checked[c]) /\ checked'[c][i] = checked[c][i + 1]
    BY <2>1, <2>2, <2>5
  <2>7. QED
    BY <1>11, <2>4, <2>5, <2>6 DEF UpdateLocalCache, redis
<1>12. ASSUME NEW c \in Callers, Undefined(c) PROVE OriginInv'
  <2>1. Len(<<>>) = 0
    OBVIOUS
  <2>2. QED
    BY <1>12, <2>1 DEF Undefined, Vanish, redis, cacheVars, Typed, TypeOK
<1>13. ASSUME NEW s \in Servers, NEW m \in Ids, Expire(s, m) \/ OtherSets(s, m)
       PROVE  OriginInv'
  <2>1. /\ origins \subseteq origins' /\ UNCHANGED <<held, checked, refused>>
        /\ origins' = origins \/ origins' = origins \cup {m}
    BY <1>13 DEF Expire, OtherSets, calls, cacheVars
  <2>2. \A x \in Servers : keys'[x] \subseteq origins'
    <3>1. keys \in [Servers -> SUBSET Ids]
      BY DEF Typed, TypeOK
    <3>2. CASE Expire(s, m)
      <4>1. keys' = [keys EXCEPT ![s] = @ \ {m}]
        BY <3>2 DEF Expire
      <4>2. QED
        BY <2>1, <3>1, <4>1
    <3>3. CASE OtherSets(s, m)
      <4>1. keys' = [keys EXCEPT ![s] = @ \cup {m}] /\ origins' = origins \cup {m}
        BY <3>3 DEF OtherSets
      <4>2. \A x \in Servers : keys'[x] \subseteq keys[x] \cup {m}
        BY <3>1, <4>1
      <4>3. QED
        BY <4>1, <4>2
    <3>4. QED
      BY <1>13, <3>2, <3>3
  <2>3. QED
    BY <2>1, <2>2
<1>14. CASE UNCHANGED vars
  BY <1>1, <1>14 DEF vars, calls, cacheVars
<1>15. QED
  BY <1>2, <1>3, <1>4, <1>5, <1>6, <1>7, <1>9, <1>10, <1>11, <1>12, <1>13, <1>14
     DEF Next, Closing, Upkeep, Advance

LEMMA OriginInit == Init => OriginInv
<1>1. Len(<<>>) = 0
  OBVIOUS
<1>2. QED
  BY <1>1 DEF Init, CacheInit, OriginInv, DuplicateHasOrigin

(* An ERROR answer never turns a message into a duplicate: whatever is      *)
(* called a duplicate was UNIQUE to some gateway, or a SET of it failed.    *)
THEOREM DuplicatesHaveOrigins == Spec => []DuplicateHasOrigin
<1>1. OriginInv => DuplicateHasOrigin
  BY DEF OriginInv
<1>2. QED
  BY <1>1, OriginInit, OriginStep, Typing, PTL DEF Spec

-----------------------------------------------------------------------------
(* Pool and cache exist from an initialization to the join of the next      *)
(* shutdown, and the maintenance thread runs within that time.              *)
UpkeepInv ==
  /\ closing # "no" => initialized
  /\ initialized /\ closing \in {"no", "joining"} => hasPool /\ hasCache
  /\ maintenance \in {"asleep", "working"} =>
       initialized /\ closing \in {"no", "joining"}

LEMMA UpkeepStep == UpkeepInv /\ [Next]_vars => UpkeepInv'
<1> SUFFICES ASSUME UpkeepInv, [Next]_vars PROVE UpkeepInv'
  OBVIOUS
<1> USE DEF UpkeepInv, flags, objects, upkeep
<1>1. CASE UNCHANGED <<flags, objects, upkeep, closing>>
  BY <1>1
<1>2. CASE Initialize \/ InitializeFails \/ InitializeThrows
  BY <1>2 DEF Initialize, InitializeFails, InitializeThrows, MakeBoth, MakePool
<1>3. CASE Shutdown
  BY <1>3 DEF Shutdown
<1>4. CASE JoinMaintenance
  BY <1>4 DEF JoinMaintenance
<1>5. CASE DestroyPool
  BY <1>5 DEF DestroyPool
<1>6. CASE DestroyCache
  BY <1>6 DEF DestroyCache
<1>7. CASE SetLocalCacheFallbackEnabled
  BY <1>7 DEF SetLocalCacheFallbackEnabled
<1>8. CASE Wake
  BY <1>8 DEF Wake
<1>9. CASE PerformMaintenance
  BY <1>9 DEF PerformMaintenance
<1>10. QED
  BY <1>1, <1>2, <1>3, <1>4, <1>5, <1>6, <1>7, <1>8, <1>9
     DEF Next, Closing, Upkeep, Advance, IsDuplicate, AreDuplicates, CheckWithCache,
         GetConnection, SetNX, UpdateLocalCache, Undefined, Expire, OtherSets, AgeCache, vars

LEMMA UpkeepInit == Init => UpkeepInv
  BY DEF Init, UpkeepInv

(* The maintenance thread never touches a pool or a cache that shutdown()   *)
(* has destroyed.                                                           *)
THEOREM MaintenanceOutlived == Spec => []MaintenanceIsSafe
<1>1. UpkeepInv => MaintenanceIsSafe
  BY DEF UpkeepInv, MaintenanceIsSafe
<1>2. QED
  BY <1>1, UpkeepInit, UpkeepStep, PTL DEF Spec
-----------------------------------------------------------------------------
(* A shutdown ends.  That a step is possible (ENABLED) is a hypothesis in   *)
(* this section and the next.                                               *)

(* The maintenance thread was told to stop before it is joined. *)
JoinInv ==
  /\ closing # "no" => initialized /\ ~maintenanceRunning
  /\ initialized => maintenance # "none"

LEMMA JoinStep == JoinInv /\ [Next]_vars => JoinInv'
<1> SUFFICES ASSUME JoinInv, [Next]_vars PROVE JoinInv'
  OBVIOUS
<1> USE DEF JoinInv, flags, objects, upkeep
<1>1. CASE UNCHANGED <<flags, upkeep, closing>>
  BY <1>1
<1>2. CASE Initialize \/ InitializeFails \/ InitializeThrows
  BY <1>2 DEF Initialize, InitializeFails, InitializeThrows, MakeBoth, MakePool
<1>3. CASE Shutdown
  BY <1>3 DEF Shutdown
<1>4. CASE JoinMaintenance \/ DestroyPool \/ DestroyCache
  BY <1>4 DEF JoinMaintenance, DestroyPool, DestroyCache
<1>5. CASE SetLocalCacheFallbackEnabled
  BY <1>5 DEF SetLocalCacheFallbackEnabled
<1>6. CASE Upkeep
  BY <1>6 DEF Upkeep, Wake, PerformMaintenance
<1>7. QED
  BY <1>1, <1>2, <1>3, <1>4, <1>5, <1>6
     DEF Next, Closing, Advance, IsDuplicate, AreDuplicates, CheckWithCache,
         GetConnection, SetNX, UpdateLocalCache, Undefined, Expire, OtherSets, AgeCache, vars

LEMMA Joining == Spec => []JoinInv
<1>1. Init => JoinInv
  BY DEF Init, JoinInv
<1>2. QED
  BY <1>1, JoinStep, PTL DEF Spec

(* What a step does to the shutdown and to the maintenance thread. *)
LEMMA ShutdownPath ==
  ASSUME Typed, JoinInv, [Next]_vars
  PROVE  /\ closing = "joining" /\ maintenance = "working" =>
              closing' = "joining" /\ maintenance' \in {"working", "asleep"}
         /\ closing = "joining" /\ maintenance = "asleep" =>
              closing' = "joining" /\ maintenance' \in {"asleep", "done"}
         /\ closing = "joining" /\ maintenance = "done" =>
              (closing' = "joining" /\ maintenance' = "done") \/ closing' = "pool"
         /\ closing = "pool" => closing' \in {"pool", "cache"}
         /\ closing = "cache" => closing' \in {"cache", "no"}
<1> USE DEF JoinInv
<1>1. CASE UNCHANGED <<closing, maintenance>>
  BY <1>1
<1>2. CASE Initialize \/ InitializeFails \/ InitializeThrows \/ Shutdown
  BY <1>1, <1>2 DEF Initialize, InitializeFails, InitializeThrows, Shutdown, MakeBoth, MakePool, upkeep
<1>3. CASE Closing
  BY <1>3 DEF Closing, JoinMaintenance, DestroyPool, DestroyCache, upkeep
<1>4. CASE Upkeep
  BY <1>4 DEF Upkeep, Wake, PerformMaintenance
<1>5. QED
  BY <1>1, <1>2, <1>3, <1>4
     DEF Next, Advance, IsDuplicate, AreDuplicates, CheckWithCache, GetConnection, SetNX,
         UpdateLocalCache, Undefined, Expire, OtherSets, AgeCache, SetLocalCacheFallbackEnabled,
         vars, upkeep

LEMMA ShutdownMoves ==
  ASSUME JoinInv
  PROVE  /\ <<Upkeep>>_vars /\ closing = "joining" /\ maintenance = "working" =>
              closing' = "joining" /\ maintenance' = "asleep"
         /\ <<Upkeep>>_vars /\ closing = "joining" /\ maintenance = "asleep" =>
              closing' = "joining" /\ maintenance' = "done"
         /\ <<Closing>>_vars /\ closing = "joining" => closing' = "pool"
         /\ <<Closing>>_vars /\ closing = "pool" => closing' = "cache"
         /\ <<Closing>>_vars /\ closing = "cache" => closing' = "no"
  BY DEF JoinInv, Upkeep, Wake, PerformMaintenance, Closing, JoinMaintenance, DestroyPool,
         DestroyCache

(* A shutdown joins the maintenance thread and ends, after any number of    *)
(* initializations and whatever the callers do meanwhile, provided that     *)
(* its steps and those of the thread it joins are possible.                 *)
THEOREM EveryShutdownEnds == FairSpec /\ []ShutdownGoesOn => ShutdownEnds
<1> DEFINE Works == closing = "joining" /\ maintenance = "working"
           Sleeps == closing = "joining" /\ maintenance = "asleep"
           Done == closing = "joining" /\ maintenance = "done"
           Pool == closing = "pool"
           Cache == closing = "cache"
           Ended == closing = "no"
<1>1. Typed /\ JoinInv => Works \/ Sleeps \/ Done \/ Pool \/ Cache \/ Ended
  BY DEF Typed, TypeOK, JoinInv
<1>2. /\ Typed /\ JoinInv /\ [Next]_vars /\ Works => Works' \/ Sleeps'
      /\ Typed /\ JoinInv /\ [Next]_vars /\ Sleeps => Sleeps' \/ Done'
      /\ Typed /\ JoinInv /\ [Next]_vars /\ Done => Done' \/ Pool'
      /\ Typed /\ JoinInv /\ [Next]_vars /\ Pool => Pool' \/ Cache'
      /\ Typed /\ JoinInv /\ [Next]_vars /\ Cache => Cache' \/ Ended'
  BY ShutdownPath
<1>3. /\ JoinInv /\ <<Upkeep>>_vars /\ Works => Sleeps'
      /\ JoinInv /\ <<Upkeep>>_vars /\ Sleeps => Done'
      /\ JoinInv /\ <<Closing>>_vars /\ Done => Pool'
      /\ JoinInv /\ <<Closing>>_vars /\ Pool => Cache'
      /\ JoinInv /\ <<Closing>>_vars /\ Cache => Ended'
  BY ShutdownMoves
<1>4. JoinInv /\ ShutdownGoesOn =>
        /\ Works \/ Sleeps => ENABLED <<Upkeep>>_vars
        /\ Done \/ Pool \/ Cache => ENABLED <<Closing>>_vars
  BY DEF JoinInv, ShutdownGoesOn, Stopping, Joined
<1>5. FairSpec => Spec /\ UpkeepFairness
  BY DEF FairSpec
<1>6. (closing # "no") <=> ~Ended
  OBVIOUS
<1>7. QED
  BY <1>1, <1>2, <1>3, <1>4, <1>5, <1>6, Typing, Joining, PTL
     DEF Spec, UpkeepFairness, ShutdownEnds
-----------------------------------------------------------------------------
(* Calls return.  What is left of a call is counted: three for each         *)
(* identifier not checked yet (a connection, a SET, an entry in the cache), *)
(* one for each result not cached yet, one for the lookup.                  *)

Unchecked(c) == Len(todo[c])
Uncached(c) == Len(checked[c])

Left(c) ==
  CASE pc[c] = "lookUp" -> 3 * Unchecked(c) + Uncached(c) + 1
    [] pc[c] = "getConnection" -> 3 * Unchecked(c) + Uncached(c)
    [] pc[c] = "setNX" -> 3 * Unchecked(c) + Uncached(c) - 1
    [] OTHER -> Uncached(c)

LEMMA LengthOfRest ==
  ASSUME NEW S, NEW q \in Seq(S), q # <<>>
  PROVE  /\ Len(q) \in Nat \ {0}
         /\ Len(Tail(q)) = Len(q) - 1
  OBVIOUS

LEMMA LeftIsNatural ==
  ASSUME NEW c \in Callers, Typed
  PROVE  /\ Unchecked(c) \in Nat /\ Uncached(c) \in Nat
         /\ Left(c) \in Nat
<1>1. Unchecked(c) \in Nat /\ Uncached(c) \in Nat
  BY DEF Typed, TypeOK, Unchecked, Uncached
<1>2. pc[c] = "setNX" => Unchecked(c) # 0
  <2>1. pc[c] = "setNX" => todo[c] # <<>> /\ todo[c] \in Seq(Ids)
    BY DEF Typed, TypeOK, HasWork
  <2>2. QED
    BY <2>1, LengthOfRest DEF Unchecked
<1>3. QED
  BY <1>1, <1>2 DEF Left

(* Only the call itself changes what is left of it. *)
LEMMA OthersKeepCall ==
  ASSUME NEW c \in Callers, Typed, Calling(c), [Next]_vars, ~Advance(c)
  PROVE  pc'[c] = pc[c] /\ todo'[c] = todo[c] /\ checked'[c] = checked[c]
<1> USE DEF calls
<1>1. CASE UNCHANGED calls
  BY <1>1
<1>2. ASSUME NEW d \in Callers, d # c, Decide(d, "ERROR") \/ (\E r \in Results : Decide(d, r))
      PROVE  pc'[c] = pc[c] /\ todo'[c] = todo[c] /\ checked'[c] = checked[c]
  BY <1>2 DEF Decide, Vanish, Typed, TypeOK
<1>3. ASSUME NEW d \in Callers, Advance(d)
      PROVE  pc'[c] = pc[c] /\ todo'[c] = todo[c] /\ checked'[c] = checked[c]
  <2>1. d # c
    BY <1>3
  <2>2. CASE CheckWithCache(d) \/ UpdateLocalCache(d) \/ Undefined(d)
    BY <2>1, <2>2 DEF CheckWithCache, UpdateLocalCache, Undefined, Vanish, Typed, TypeOK
  <2>3. CASE GetConnection(d)
    BY <1>2, <2>1, <2>3 DEF GetConnection, Typed, TypeOK
  <2>4. CASE SetNX(d)
    <3>1. \E r \in Results : Decide(d, r)
      BY <2>4 DEF SetNX, Results
    <3>2. QED
      BY <1>2, <2>1, <3>1
  <2>5. QED
    BY <1>3, <2>2, <2>3, <2>4 DEF Advance
<1>4. ASSUME NEW d \in Callers, NEW m \in Ids, IsDuplicate(d, m)
      PROVE  pc'[c] = pc[c] /\ todo'[c] = todo[c] /\ checked'[c] = checked[c]
  BY <1>4 DEF IsDuplicate, Accepts, Calling, Typed, TypeOK
<1>5. ASSUME NEW d \in Callers, NEW batch \in Batches, AreDuplicates(d, batch)
      PROVE  pc'[c] = pc[c] /\ todo'[c] = todo[c] /\ checked'[c] = checked[c]
  BY <1>5 DEF AreDuplicates, Accepts, Calling, Typed, TypeOK
<1>6. QED
  BY <1>1, <1>3, <1>4, <1>5
     DEF Next, Initialize, InitializeFails, InitializeThrows, MakeBoth, Shutdown, Closing,
         JoinMaintenance, DestroyPool,
         DestroyCache, SetLocalCacheFallbackEnabled, Upkeep, Wake, PerformMaintenance, Expire,
         OtherSets, AgeCache, vars

(* A result leaves less to do. *)
LEMMA DecideNears ==
  ASSUME NEW c \in Callers, NEW r \in Results, Typed, Decide(c, r),
         pc[c] \in {"getConnection", "setNX"}
  PROVE  ~Calling(c)' \/ Left(c)' < Left(c)
<1>1. CASE c \in doomed /\ Vanish(c)
  BY <1>1 DEF Vanish, Calling, Typed, TypeOK
<1>2. CASE c \notin doomed
  <2>1. todo[c] \in Seq(Ids) /\ todo[c] # <<>> /\ checked[c] \in Seq(Entries)
    BY DEF Entries, Typed, TypeOK, HasWork
  <2>2. todo'[c] = Tail(todo[c])
    BY <1>2 DEF Decide, Typed, TypeOK
  <2>3. Unchecked(c) \in Nat \ {0} /\ Unchecked(c)' = Unchecked(c) - 1
    BY <2>1, <2>2, LengthOfRest DEF Unchecked
  <2>4. Checked(Head(todo[c]), r) \in Entries
    BY <2>1, TakeFirst DEF Checked, Entries
  <2>5. Len(Append(checked[c], Checked(Head(todo[c]), r))) = Uncached(c) + 1
    BY <2>1, <2>4 DEF Uncached
  <2>6. \/ pc'[c] = "idle"
        \/ /\ pc'[c] \in {"getConnection", "update"}
           /\ checked'[c] = Append(checked[c], Checked(Head(todo[c]), r))
    BY <1>2 DEF Decide, Typed, TypeOK
  <2>7. pc'[c] = "idle" \/ (pc'[c] \in {"getConnection", "update"} /\ Uncached(c)' = Uncached(c) + 1)
    BY <2>5, <2>6 DEF Uncached
  <2>8. Uncached(c) \in Nat
    BY LeftIsNatural
  <2>9. QED
    BY <2>3, <2>7, <2>8 DEF Calling, Left
<1>3. QED
  BY <1>1, <1>2 DEF Decide

(* Every step of a call leaves less of it, or ends it. *)
LEMMA AdvanceNears ==
  ASSUME NEW c \in Callers, Typed, Calling(c), Advance(c)
  PROVE  ~Calling(c)' \/ Left(c)' < Left(c)
<1>0. Unchecked(c) \in Nat /\ Uncached(c) \in Nat
  BY LeftIsNatural
<1>1. CASE CheckWithCache(c)
  <2>1. \/ pc'[c] = "idle"
        \/ pc'[c] = "getConnection" /\ todo'[c] = todo[c] /\ checked'[c] = checked[c]
    BY <1>1 DEF CheckWithCache, Typed, TypeOK
  <2>2. pc'[c] = "idle" \/ (pc'[c] = "getConnection" /\ Unchecked(c)' = Unchecked(c)
                            /\ Uncached(c)' = Uncached(c))
    BY <2>1 DEF Unchecked, Uncached
  <2>3. pc[c] = "lookUp"
    BY <1>1 DEF CheckWithCache
  <2>4. QED
    BY <1>0, <2>2, <2>3 DEF Calling, Left
<1>2. CASE GetConnection(c)
  <2>1. CASE Decide(c, "ERROR")
    BY <1>2, <2>1, DecideNears DEF GetConnection, Results
  <2>2. CASE pc' = [pc EXCEPT ![c] = "setNX"] /\ UNCHANGED <<todo, checked>>
    <3>1. pc[c] = "getConnection" /\ pc'[c] = "setNX"
      BY <1>2, <2>2 DEF GetConnection, Typed, TypeOK
    <3>2. Unchecked(c)' = Unchecked(c) /\ Uncached(c)' = Uncached(c)
      BY <2>2 DEF Unchecked, Uncached
    <3>3. QED
      BY <1>0, <3>1, <3>2 DEF Left
  <2>3. QED
    BY <1>2, <2>1, <2>2 DEF GetConnection
<1>3. CASE SetNX(c)
  <2>1. PICK r \in Results : Decide(c, r)
    BY <1>3 DEF SetNX, Results
  <2>2. QED
    BY <1>3, <2>1, DecideNears DEF SetNX
<1>4. CASE UpdateLocalCache(c)
  <2>1. pc[c] = "update" /\ checked[c] \in Seq(Entries) /\ checked[c] # <<>>
    BY <1>4 DEF UpdateLocalCache, Entries, Typed, TypeOK, HasWork
  <2>2. checked'[c] = Tail(checked[c]) /\ pc'[c] \in {"idle", "update"}
    BY <1>4 DEF UpdateLocalCache, Typed, TypeOK
  <2>3. Uncached(c)' = Uncached(c) - 1
    BY <2>1, <2>2, LengthOfRest DEF Uncached
  <2>4. QED
    BY <1>0, <2>1, <2>2, <2>3 DEF Calling, Left
<1>5. CASE Undefined(c)
  BY <1>5 DEF Undefined, Vanish, Calling, Typed, TypeOK
<1>6. QED
  BY <1>1, <1>2, <1>3, <1>4, <1>5 DEF Advance

(* Every call, also one of areDuplicates with a batch of any length, comes  *)
(* nearer to its return again and again until it is there (induction over   *)
(* what is left, a natural number, gives CallReturns), whatever Redis, the  *)
(* pool, other callers and a shutdown do meanwhile.                         *)
THEOREM EveryCallNears ==
  FairSpec /\ []CallsGoOn =>
    \A c \in Callers, n \in Nat :
      Calling(c) /\ Left(c) = n ~> ~Calling(c) \/ Left(c) < n
<1>1. ASSUME NEW c \in Callers, NEW n \in Nat
      PROVE  FairSpec /\ []CallsGoOn =>
               (Calling(c) /\ Left(c) = n ~> ~Calling(c) \/ Left(c) < n)
  <2> DEFINE P == Calling(c) /\ Left(c) = n
             Q == ~Calling(c) \/ Left(c) < n
  <2>1. Typed /\ P /\ [Next]_vars => P' \/ Q'
    <3> SUFFICES ASSUME Typed, P, [Next]_vars PROVE P' \/ Q'
      OBVIOUS
    <3>1. CASE Advance(c)
      BY <3>1, AdvanceNears
    <3>2. CASE ~Advance(c)
      BY <3>2, OthersKeepCall DEF Calling, Left, Unchecked, Uncached
    <3>3. QED
      BY <3>1, <3>2
  <2>2. Typed /\ P /\ <<Advance(c)>>_vars => Q'
    BY AdvanceNears
  <2>3. CallsGoOn /\ P => ENABLED <<Advance(c)>>_vars
    BY DEF CallsGoOn
  <2>4. FairSpec => Spec /\ CallFairness(c)
    BY DEF FairSpec
  <2>5. QED
    BY <2>1, <2>2, <2>3, <2>4, Typing, PTL DEF Spec, CallFairness
<1>2. QED
  BY <1>1
=============================================================================
