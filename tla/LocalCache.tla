------------------------------ MODULE LocalCache ------------------------------
(***************************************************************************)
(* redis_deduplication::LocalCache: a list of entries in the order of      *)
(* their last use, an index of its keys, and expiry times that are looked  *)
(* at when an entry is met.  Every operation holds cacheMutex_ from end to *)
(* end and is one action.  The overload of insert without an expiry time   *)
(* computes now + ttl_ before it takes the mutex, so that any expiry time  *)
(* may have passed by the time the entry is made.                          *)
(***************************************************************************)
EXTENDS Integers, FiniteSets, Sequences

CONSTANTS
  Ids,           (* message identifiers                                      *)
  MaxSize,       (* LocalCache::maxSize_                                     *)
  Intervals,     (* values given to setCleanupInterval; 0 disables cleanup   *)
  MaxTime        (* bound: the last tick of the clock                        *)

ASSUME LocalCacheAssumption ==
  MaxSize \in Nat \ {0} /\ MaxTime \in Nat /\ Intervals \subseteq Nat

VARIABLES
  cacheList,     (* entries, most recently used first                        *)
  cacheMap,      (* the keys of cacheMap_                                    *)
  now,           (* system_clock::now()                                      *)
  interval,      (* cleanupInterval_                                         *)
  nextCleanup,   (* nextCleanup_                                             *)
  answer,        (* the last contains(): its identifier and its result       *)
  used           (* history: all identifiers, those used last first          *)

Seqs == INSTANCE SequencesExt

timing == <<now, interval, nextCleanup>>
vars == <<cacheList, cacheMap, timing, answer, used>>

Times == 0..MaxTime
Never == MaxTime + 1
Entry(m, t) == [id |-> m, expiry |-> t]
Listed(list) == {e.id : e \in Seqs!ToSet(list)}
Expired(e) == now > e.expiry
InDate == {e.id : e \in {x \in Seqs!ToSet(cacheList) : ~Expired(x)}}

TypeOK ==
  /\ cacheList \in Seq([id : Ids, expiry : Times])
  /\ cacheMap \subseteq Ids
  /\ now \in Times /\ interval \in Nat /\ nextCleanup \in Nat
  /\ answer = <<>> \/ answer \in Ids \X BOOLEAN
  /\ used \in Seq(Ids)

Init ==
  /\ cacheList = <<>> /\ cacheMap = {}
  /\ now = 0
  /\ interval \in Intervals \ {0}
  /\ nextCleanup = interval
  /\ answer = <<>> /\ used = <<>>
-----------------------------------------------------------------------------
(* The private operations, on the value they change. *)

(* Kept(s, S)[i] is what a scan of the first i elements of s that erases    *)
(* those outside S leaves of them.                                          *)
Kept(s, S) ==
  LET kept[i \in 0..Len(s)] ==
        IF i = 0 THEN <<>>
        ELSE IF s[i] \in S THEN Append(kept[i - 1], s[i]) ELSE kept[i - 1]
  IN  kept
Keep(s, S) == Kept(s, S)[Len(s)]

Without(list, m) == Keep(list, {e \in Seqs!ToSet(list) : e.id # m})
EntryOf(list, m) == CHOOSE e \in Seqs!ToSet(list) : e.id = m
MoveToFront(list, e) == <<e>> \o Without(list, e.id)

(* removeExpiredEntries leaves this of the list and of the index. *)
RemoveExpiredEntries(list) == Keep(list, {e \in Seqs!ToSet(list) : ~Expired(e)})

CleanupDue == interval > 0 /\ now >= nextCleanup

(* checkAndRunCleanup, which contains and insert begin with: the list and  *)
(* the index the operation goes on with, and the time of the next cleanup. *)
Swept == IF CleanupDue THEN RemoveExpiredEntries(cacheList) ELSE cacheList
SweptMap == cacheMap \ (Listed(cacheList) \ Listed(Swept))
CheckAndRunCleanup ==
  /\ nextCleanup' = IF CleanupDue THEN now + interval ELSE nextCleanup
  /\ UNCHANGED <<now, interval>>

Use(m) == used' = <<m>> \o Keep(used, Ids \ {m})
-----------------------------------------------------------------------------
Miss(m) ==
  /\ m \notin SweptMap
  /\ CheckAndRunCleanup
  /\ cacheList' = Swept /\ cacheMap' = SweptMap
  /\ answer' = <<m, FALSE>>
  /\ UNCHANGED used

(* The key is known, but out of date: the entry goes. *)
MissExpired(m) ==
  /\ m \in SweptMap /\ Expired(EntryOf(Swept, m))
  /\ CheckAndRunCleanup
  /\ cacheList' = Without(Swept, m)
  /\ cacheMap' = SweptMap \ {m}
  /\ answer' = <<m, FALSE>>
  /\ UNCHANGED used

(* Mutant: a hit that leaves the entry where it is in the list. *)
HitInPlace(m) ==
  /\ m \in SweptMap /\ ~Expired(EntryOf(Swept, m))
  /\ CheckAndRunCleanup
  /\ cacheList' = Swept /\ cacheMap' = SweptMap
  /\ answer' = <<m, TRUE>>
  /\ Use(m)

(* Mutant: an entry that is out of date is found all the same. *)
HitExpired(m) ==
  /\ m \in SweptMap
  /\ CheckAndRunCleanup
  /\ cacheList' = MoveToFront(Swept, EntryOf(Swept, m))
  /\ cacheMap' = SweptMap
  /\ answer' = <<m, TRUE>>
  /\ Use(m)

Hit(m) ==
  /\ m \in SweptMap /\ ~Expired(EntryOf(Swept, m))
  /\ CheckAndRunCleanup
  /\ cacheList' = MoveToFront(Swept, EntryOf(Swept, m))
  /\ cacheMap' = SweptMap
  /\ answer' = <<m, TRUE>>
  /\ Use(m)

Contains(m) == Miss(m) \/ MissExpired(m) \/ Hit(m)

(* The key is known: the entry gets the new expiry time, even one that is  *)
(* earlier than its own or that revives it.                                *)
Renew(m, t) ==
  /\ m \in SweptMap
  /\ CheckAndRunCleanup
  /\ cacheList' = MoveToFront(Swept, Entry(m, t))
  /\ cacheMap' = SweptMap
  /\ Use(m)
  /\ UNCHANGED answer

(* Mutant: the entry is evicted, its key stays in the index. *)
InsertLeaksKey(m, t) ==
  /\ m \notin SweptMap
  /\ CheckAndRunCleanup
  /\ cacheList' = <<Entry(m, t)>> \o
       IF Len(Swept) >= MaxSize THEN Seqs!Front(Swept) ELSE Swept
  /\ cacheMap' = SweptMap \cup {m}
  /\ Use(m)
  /\ UNCHANGED answer

(* A new entry at the front; evictLRU drops the last one of a full list,   *)
(* whether or not others are out of date.                                  *)
InsertNew(m, t) ==
  /\ m \notin SweptMap
  /\ CheckAndRunCleanup
  /\ LET full == Len(Swept) >= MaxSize
     IN /\ cacheList' = <<Entry(m, t)>> \o IF full THEN Seqs!Front(Swept) ELSE Swept
        /\ cacheMap' = (IF full THEN SweptMap \ {Seqs!Last(Swept).id} ELSE SweptMap)
                       \cup {m}
  /\ Use(m)
  /\ UNCHANGED answer

Insert(m, t) == Renew(m, t) \/ InsertNew(m, t)

Remove(m) ==
  /\ m \in cacheMap
  /\ cacheList' = Without(cacheList, m)
  /\ cacheMap' = cacheMap \ {m}
  /\ UNCHANGED <<timing, answer, used>>

Clear ==
  /\ cacheList' = <<>> /\ cacheMap' = {}
  /\ UNCHANGED <<timing, answer, used>>

CleanupExpired ==
  /\ cacheList' = RemoveExpiredEntries(cacheList)
  /\ cacheMap' = cacheMap \ (Listed(cacheList) \ Listed(cacheList'))
  /\ UNCHANGED <<timing, answer, used>>

SetCleanupInterval(d) ==
  /\ interval' = d
  /\ nextCleanup' = IF d > 0 THEN now + d ELSE Never
  /\ UNCHANGED <<cacheList, cacheMap, now, answer, used>>

Tick ==
  /\ now < MaxTime
  /\ now' = now + 1
  /\ UNCHANGED <<cacheList, cacheMap, interval, nextCleanup, answer, used>>

Next ==
  \/ \E m \in Ids : Contains(m) \/ Remove(m)
  \/ \E m \in Ids, t \in Times : Insert(m, t)
  \/ Clear
  \/ CleanupExpired
  \/ \E d \in Intervals : SetCleanupInterval(d)
  \/ Tick

Spec == Init /\ [][Next]_vars
-----------------------------------------------------------------------------
(* The index and the list are changed side by side by six operations: they *)
(* always hold the same keys, each once, and no more than maxSize_ of them *)
(* (a stale key in the index is an iterator to an erased entry), and every *)
(* variable a value of its type.                                           *)
IndexMatchesList ==
  /\ TypeOK
  /\ cacheMap = Listed(cacheList)
  /\ Cardinality(cacheMap) = Len(cacheList)
  /\ Len(cacheList) <= MaxSize

(* LRU: an entry that is in date is only ever pushed out by an insertion,  *)
(* and then it was used less recently than every entry that stays.         *)
Rank(m) == CHOOSE i \in DOMAIN used : used[i] = m
EvictsLeastRecent ==
  [][cacheMap' \ cacheMap # {} =>
       \A v \in InDate \ cacheMap', w \in cacheMap \cap cacheMap' :
         Rank(w) < Rank(v)]_vars

(* The list, the index, the clock and the lazy cleanup implement the plain *)
(* set of identifiers that callers may think of: in particular no entry    *)
(* out of date is ever found, and none in date is lost to a cleanup.       *)
Contract == INSTANCE CacheContract
              WITH Capacity <- MaxSize, held <- Listed(cacheList), fresh <- InDate
ImplementsContract == Contract!ContractSpec
=============================================================================
