----------------------------- MODULE Deduplicator -----------------------------
(***************************************************************************)
(* redis_deduplication::Deduplicator: callers ask whether messages are     *)
(* duplicates; the answer comes from the local cache or from a SET NX on   *)
(* the Redis server that the connection in hand leads to, and goes into    *)
(* the cache.  A maintenance thread visits pool and cache; shutdown()      *)
(* destroys both.  The cache is the one of AbstractCache, the pool gives   *)
(* out a connection to any server or none, and other gateways use the same *)
(* servers.  Keys and cache entries expire at any time, so that nothing    *)
(* depends on how deduplicationWindow and localCacheTtl compare.           *)
(***************************************************************************)
EXTENDS AbstractCache, Sequences

CONSTANTS
  Callers,     (* threads that call the deduplicator                         *)
  Servers,     (* the Redis master and its standby                           *)
  Batches      (* lists of identifiers that areDuplicates is called with     *)

ASSUME DeduplicatorAssumption == Batches \subseteq Seq(Ids) \ {<<>>}

VARIABLES
  keys,            (* keys[s]: identifiers with a key on server s            *)
  initialized,     (* initialized_                                           *)
  shuttingDown,    (* shuttingDown_                                          *)
  cacheEnabled,    (* localCacheFallbackEnabled_                             *)
  hasPool,         (* connectionPool_ points to a pool                       *)
  hasCache,        (* localCache_ points to a cache                          *)
  maintenance,     (* what the maintenance thread does                       *)
  maintenanceRunning, (* maintenanceRunning_                                 *)
  closing,         (* how far shutdown() is                                  *)
  pc,              (* pc[c]: what caller c does next                         *)
  todo,            (* todo[c]: identifiers of its call not yet checked       *)
  checked,         (* checked[c]: results not yet put in the cache           *)
  connection,      (* connection[c]: the server its connection leads to      *)
  doomed,          (* callers inside an object that shutdown() destroyed     *)
  claims,          (* history: UNIQUE answers in the life of a key           *)
  origins,         (* history: identifiers answered UNIQUE to some gateway,  *)
                   (* and those whose SET failed or lost its reply           *)
  refused          (* history: identifiers ever answered DUPLICATE           *)

flags == <<initialized, shuttingDown, cacheEnabled>>
objects == <<hasPool, hasCache>>
upkeep == <<maintenance, maintenanceRunning>>
calls == <<pc, todo, checked, connection>>
redis == <<keys, claims, origins>>
vars == <<cacheVars, redis, flags, objects, upkeep, closing, calls, doomed, refused>>

Results == {"UNIQUE", "DUPLICATE", "ERROR"}
Checked(m, r) == [id |-> m, result |-> r]

Init ==
  /\ CacheInit
  /\ keys = [s \in Servers |-> {}]
  /\ initialized = FALSE /\ shuttingDown = FALSE
  /\ cacheEnabled \in BOOLEAN
  /\ hasPool = FALSE /\ hasCache = FALSE
  /\ maintenance = "none" /\ maintenanceRunning = FALSE
  /\ closing = "no"
  /\ pc = [c \in Callers |-> "idle"]
  /\ todo = [c \in Callers |-> <<>>] /\ checked = [c \in Callers |-> <<>>]
  /\ connection \in [Callers -> Servers]
  /\ doomed = {}
  /\ claims = [s \in Servers |-> [m \in Ids |-> 0]]
  /\ origins = {} /\ refused = {}
-----------------------------------------------------------------------------
(* initialize() and shutdown(), called by one thread. *)

(* Who uses a pool or a cache that goes: a caller that holds a connection   *)
(* will give it back to that pool, and one that has seen the pointer may be *)
(* inside the object.                                                       *)
At(places) == {c \in Callers : pc[c] \in places}
PoolUsers == {inside \cup At({"setNX"}) : inside \in SUBSET At({"getConnection"})}
CacheUsers == SUBSET At({"lookUp", "update"})

(* New objects replace those that a failed initialization left behind. *)
MakePool ==
  /\ ~initialized /\ closing = "no"
  /\ hasPool' = TRUE
MakeBoth ==
  /\ MakePool
  /\ hasCache' = TRUE /\ Clear
  /\ \E users \in IF hasPool THEN PoolUsers ELSE {{}}, others \in IF hasCache THEN CacheUsers ELSE {{}} :
       doomed' = doomed \cup users \cup others
  /\ maintenanceRunning' = TRUE

(* shuttingDown_ stays what it is: set for ever after a shutdown. *)
Initialize ==
  /\ MakeBoth
  /\ maintenance' = "asleep"
  /\ initialized' = TRUE
  /\ UNCHANGED <<redis, shuttingDown, cacheEnabled, closing, calls, refused>>

(* The pool has no connection, or making it ready or making the cache       *)
(* throws: the pool stays, unused.                                          *)
InitializeFails ==
  /\ MakePool
  /\ \E users \in IF hasPool THEN PoolUsers ELSE {{}} : doomed' = doomed \cup users
  /\ UNCHANGED <<cacheVars, redis, flags, hasCache, upkeep, closing, calls, refused>>

(* Creating the thread throws: pool, cache and maintenanceRunning_ stay.    *)
InitializeThrows ==
  /\ MakeBoth
  /\ UNCHANGED <<redis, flags, maintenance, closing, calls, refused>>

(* Mutant: the maintenance thread is not told to stop. *)
ShutdownWithoutStop ==
  /\ initialized /\ closing = "no"
  /\ shuttingDown' = TRUE
  /\ closing' = "joining"
  /\ UNCHANGED <<cacheVars, redis, initialized, cacheEnabled, objects, upkeep,
                 calls, doomed, refused>>

Shutdown ==
  /\ initialized /\ closing = "no"
  /\ shuttingDown' = TRUE
  /\ maintenanceRunning' = FALSE
  /\ closing' = "joining"
  /\ UNCHANGED <<cacheVars, redis, initialized, cacheEnabled, objects,
                 maintenance, calls, doomed, refused>>

(* Mutant: the pool is destroyed before the maintenance thread has ended. *)
DetachMaintenance ==
  /\ closing = "joining"
  /\ closing' = "pool"
  /\ UNCHANGED <<cacheVars, redis, flags, objects, upkeep, calls, doomed, refused>>

JoinMaintenance ==
  /\ closing = "joining" /\ maintenance = "done"
  /\ closing' = "pool"
  /\ UNCHANGED <<cacheVars, redis, flags, objects, upkeep, calls, doomed, refused>>

(* The pool is shut down and destroyed. *)
DestroyPool ==
  /\ closing = "pool"
  /\ closing' = "cache" /\ hasPool' = FALSE
  /\ \E users \in PoolUsers : doomed' = doomed \cup users
  /\ UNCHANGED <<cacheVars, redis, flags, hasCache, upkeep, calls, refused>>

(* The cache is cleared and destroyed. *)
DestroyCache ==
  /\ closing = "cache"
  /\ closing' = "no" /\ hasCache' = FALSE /\ initialized' = FALSE
  /\ Clear
  /\ \E users \in CacheUsers : doomed' = doomed \cup users
  /\ UNCHANGED <<redis, shuttingDown, cacheEnabled, hasPool, upkeep, calls, refused>>

SetLocalCacheFallbackEnabled ==
  /\ cacheEnabled' = ~cacheEnabled
  /\ UNCHANGED <<cacheVars, redis, initialized, shuttingDown, objects, upkeep,
                 closing, calls, doomed, refused>>
-----------------------------------------------------------------------------
(* The maintenance thread. *)

(* The test of maintenanceRunning_ after a sleep; performMaintenance does   *)
(* nothing once shuttingDown_ is set.                                       *)
Wake ==
  /\ maintenance = "asleep"
  /\ maintenance' = IF ~maintenanceRunning THEN "done"
                    ELSE IF shuttingDown THEN "asleep" ELSE "working"
  /\ UNCHANGED <<cacheVars, redis, flags, objects, maintenanceRunning, closing,
                 calls, doomed, refused>>

(* performMaintenance cleans the cache and tests the pool's connections. *)
PerformMaintenance ==
  /\ maintenance = "working"
  /\ IF hasCache THEN CleanUp ELSE UNCHANGED cacheVars
  /\ maintenance' = "asleep"
  /\ UNCHANGED <<redis, flags, objects, maintenanceRunning, closing, calls,
                 doomed, refused>>
-----------------------------------------------------------------------------
(* A call of isDuplicate or areDuplicates.  One that finds the flags wrong, *)
(* or the identifier invalid, answers ERROR and changes nothing.            *)

Accepts(c) == pc[c] = "idle" /\ initialized /\ ~shuttingDown

IsDuplicate(c, m) ==
  /\ Accepts(c)
  /\ todo' = [todo EXCEPT ![c] = <<m>>]
  /\ pc' = [pc EXCEPT ![c] = IF cacheEnabled THEN "lookUp" ELSE "getConnection"]
  /\ UNCHANGED <<cacheVars, redis, flags, objects, upkeep, closing, checked,
                 connection, doomed, refused>>

(* A batch is neither validated nor looked up in the cache. *)
AreDuplicates(c, batch) ==
  /\ Accepts(c)
  /\ todo' = [todo EXCEPT ![c] = batch]
  /\ pc' = [pc EXCEPT ![c] = "getConnection"]
  /\ UNCHANGED <<cacheVars, redis, flags, objects, upkeep, closing, checked,
                 connection, doomed, refused>>

(* checkWithCache: a hit is the answer, anything else leads to Redis. *)
CheckWithCache(c) ==
  /\ pc[c] = "lookUp" /\ c \notin doomed
  /\ LET m == Head(todo[c])
     IN \/ /\ hasCache /\ Hit(m)
           /\ refused' = refused \cup {m}
           /\ pc' = [pc EXCEPT ![c] = "idle"]
           /\ todo' = [todo EXCEPT ![c] = <<>>]
        \/ /\ IF hasCache THEN Miss(m) ELSE UNCHANGED cacheVars
           /\ pc' = [pc EXCEPT ![c] = "getConnection"]
           /\ UNCHANGED <<todo, refused>>
  /\ UNCHANGED <<redis, flags, objects, upkeep, closing, checked, connection, doomed>>

(* c uses a destroyed object: nothing is known of its call any more. *)
Vanish(c) ==
  /\ pc' = [pc EXCEPT ![c] = "undefined"]
  /\ todo' = [todo EXCEPT ![c] = <<>>]
  /\ checked' = [checked EXCEPT ![c] = <<>>]

(* c's first identifier has result r; the next one is checked, or the       *)
(* results go to the cache if it is enabled.  A doomed c gives its          *)
(* connection back to a destroyed pool.                                     *)
Decide(c, r) ==
  \/ c \in doomed /\ Vanish(c) /\ UNCHANGED refused
  \/ /\ c \notin doomed
     /\ todo' = [todo EXCEPT ![c] = Tail(@)]
     /\ refused' = refused \cup {m \in {Head(todo[c])} : r = "DUPLICATE"}
     /\ LET results == Append(checked[c], Checked(Head(todo[c]), r))
            next == IF Len(todo[c]) # 1 THEN "getConnection"
                    ELSE IF cacheEnabled THEN "update" ELSE "idle"
        IN /\ pc' = [pc EXCEPT ![c] = next]
           /\ checked' = [checked EXCEPT ![c] = IF next = "idle" THEN <<>> ELSE results]

(* Mutant: a check without a connection starts over. *)
RetryConnection(c) ==
  /\ pc[c] = "getConnection" /\ c \notin doomed /\ hasPool
  /\ \/ \E s \in Servers :
          /\ connection' = [connection EXCEPT ![c] = s]
          /\ pc' = [pc EXCEPT ![c] = "setNX"]
     \/ pc' = [pc EXCEPT ![c] = "lookUp"] /\ UNCHANGED connection
  /\ UNCHANGED <<cacheVars, redis, flags, objects, upkeep, closing, todo, checked,
                 doomed, refused>>

(* checkWithRedis: the pool has a connection, or the answer is ERROR. *)
GetConnection(c) ==
  /\ pc[c] = "getConnection" /\ c \notin doomed /\ hasPool
  /\ \/ \E s \in Servers :
          /\ connection' = [connection EXCEPT ![c] = s]
          /\ pc' = [pc EXCEPT ![c] = "setNX"]
          /\ UNCHANGED <<todo, checked, refused>>
     \/ Decide(c, "ERROR") /\ UNCHANGED connection
  /\ UNCHANGED <<cacheVars, redis, flags, objects, upkeep, closing, doomed>>

(* Mutant: a command that fails lets the message through. *)
FailOpen(c) ==
  /\ pc[c] = "setNX"
  /\ LET s == connection[c]
         m == Head(todo[c])
     IN /\ m \notin keys[s] => keys' \in {keys, [keys EXCEPT ![s] = @ \cup {m}]}
        /\ m \in keys[s] => UNCHANGED keys
        /\ claims' = [claims EXCEPT ![s][m] = @ + 1]
        /\ origins' = origins \cup {m}
        /\ Decide(c, "UNIQUE")
  /\ UNCHANGED <<cacheVars, flags, objects, upkeep, closing, connection, doomed>>

(* setNX returns false for a key that exists and for a command that failed, *)
(* executed by the server or not; the connection then goes back to its pool.*)
SetNX(c) ==
  /\ pc[c] = "setNX"
  /\ LET s == connection[c]
         m == Head(todo[c])
         Known == m \in keys[s] /\ UNCHANGED redis /\ Decide(c, "DUPLICATE")
         Set == [keys EXCEPT ![s] = @ \cup {m}]
         New == /\ m \notin keys[s]
                /\ keys' = Set
                /\ claims' = [claims EXCEPT ![s][m] = @ + 1]
                /\ origins' = origins \cup {m}
                /\ Decide(c, "UNIQUE")
         Failed == /\ keys' \in {keys, Set}
                   /\ origins' = origins \cup {m}
                   /\ UNCHANGED claims
                   /\ Decide(c, "DUPLICATE")
     IN Known \/ New \/ Failed
  /\ UNCHANGED <<cacheVars, flags, objects, upkeep, closing, connection, doomed>>

(* Mutant: an identifier that could not be checked goes in the cache too. *)
CacheErrors(c) ==
  /\ pc[c] = "update" /\ c \notin doomed
  /\ LET e == Head(checked[c])
     IN IF cacheEnabled /\ hasCache
        THEN \E inDate \in BOOLEAN : Put(e.id, inDate)
        ELSE UNCHANGED cacheVars
  /\ checked' = [checked EXCEPT ![c] = Tail(@)]
  /\ pc' = [pc EXCEPT ![c] = IF Len(checked[c]) = 1 THEN "idle" ELSE "update"]
  /\ UNCHANGED <<redis, flags, objects, upkeep, closing, todo, connection, doomed, refused>>

(* updateLocalCache, for a result that is no ERROR; the call returns after *)
(* the last one.  insert may come after the entry's expiry time.           *)
UpdateLocalCache(c) ==
  /\ pc[c] = "update" /\ c \notin doomed
  /\ LET e == Head(checked[c])
     IN IF e.result # "ERROR" /\ cacheEnabled /\ hasCache
        THEN \E inDate \in BOOLEAN : Put(e.id, inDate)
        ELSE UNCHANGED cacheVars
  /\ checked' = [checked EXCEPT ![c] = Tail(@)]
  /\ pc' = [pc EXCEPT ![c] = IF Len(checked[c]) = 1 THEN "idle" ELSE "update"]
  /\ UNCHANGED <<redis, flags, objects, upkeep, closing, todo, connection, doomed, refused>>

(* The next use of a destroyed object, or of the null pointer to the pool,  *)
(* which is not tested.                                                     *)
Undefined(c) ==
  /\ \/ pc[c] \in {"lookUp", "getConnection", "update"} /\ c \in doomed
     \/ pc[c] = "getConnection" /\ ~hasPool
  /\ Vanish(c)
  /\ UNCHANGED <<cacheVars, redis, flags, objects, upkeep, closing, connection,
                 doomed, refused>>
-----------------------------------------------------------------------------
(* Redis, other gateways, and time. *)

Expire(s, m) ==
  /\ m \in keys[s]
  /\ keys' = [keys EXCEPT ![s] = @ \ {m}]
  /\ claims' = [claims EXCEPT ![s][m] = 0]
  /\ UNCHANGED <<cacheVars, origins, flags, objects, upkeep, closing, calls,
                 doomed, refused>>

(* Another gateway sets a key, and learns it or not. *)
OtherSets(s, m) ==
  /\ m \notin keys[s]
  /\ keys' = [keys EXCEPT ![s] = @ \cup {m}]
  /\ claims' \in {claims, [claims EXCEPT ![s][m] = @ + 1]}
  /\ origins' = origins \cup {m}
  /\ UNCHANGED <<cacheVars, flags, objects, upkeep, closing, calls, doomed, refused>>

AgeCache ==
  /\ \E S \in SUBSET fresh : Age(S)
  /\ UNCHANGED <<redis, flags, objects, upkeep, closing, calls, doomed, refused>>
-----------------------------------------------------------------------------
Advance(c) ==
  CheckWithCache(c) \/ GetConnection(c) \/ SetNX(c) \/ UpdateLocalCache(c) \/ Undefined(c)

Upkeep == Wake \/ PerformMaintenance
Closing == JoinMaintenance \/ DestroyPool \/ DestroyCache

Next ==
  \/ Initialize \/ InitializeFails \/ InitializeThrows \/ Shutdown \/ Closing
  \/ SetLocalCacheFallbackEnabled
  \/ Upkeep
  \/ \E c \in Callers :
       \/ \E m \in Ids : IsDuplicate(c, m)
       \/ \E batch \in Batches : AreDuplicates(c, batch)
       \/ Advance(c)
  \/ \E s \in Servers, m \in Ids : Expire(s, m) \/ OtherSets(s, m)
  \/ AgeCache

Spec == Init /\ [][Next]_vars

(* Calls and a shutdown in progress go on (every wait in them has a         *)
(* deadline), and the maintenance thread wakes up after each sleep.         *)
CallFairness(c) == WF_vars(Advance(c))
UpkeepFairness == WF_vars(Upkeep) /\ WF_vars(Closing)
FairSpec == Spec /\ (\A c \in Callers : CallFairness(c)) /\ UpkeepFairness
-----------------------------------------------------------------------------
TypeOK ==
  /\ CacheTypeOK
  /\ keys \in [Servers -> SUBSET Ids]
  /\ initialized \in BOOLEAN /\ shuttingDown \in BOOLEAN /\ cacheEnabled \in BOOLEAN
  /\ hasPool \in BOOLEAN /\ hasCache \in BOOLEAN
  /\ maintenance \in {"none", "asleep", "working", "done"}
  /\ maintenanceRunning \in BOOLEAN
  /\ closing \in {"no", "joining", "pool", "cache"}
  /\ pc \in [Callers -> {"idle", "lookUp", "getConnection", "setNX", "update", "undefined"}]
  /\ todo \in [Callers -> Seq(Ids)]
  /\ checked \in [Callers -> Seq([id : Ids, result : Results])]
  /\ connection \in [Callers -> Servers]
  /\ doomed \subseteq Callers
  /\ claims \in [Servers -> [Ids -> Nat]]
  /\ origins \subseteq Ids /\ refused \subseteq Ids

(* Whatever is lost, retried, batched or asked by several gateways at once, *)
(* a server's key makes a message UNIQUE at most once in its life.          *)
OneUniquePerWindow == \A s \in Servers, m \in Ids : claims[s][m] <= 1

(* A message is called a duplicate only if some gateway was told it is      *)
(* unique, or a SET of it failed: an ERROR answer, which a caller may       *)
(* repeat, never turns the message into a duplicate, through the cache or   *)
(* otherwise.                                                               *)
DuplicateHasOrigin == refused \subseteq origins

(* shutdown() joins the maintenance thread before it destroys what that     *)
(* thread uses, after any number of initializations.                        *)
MaintenanceIsSafe == maintenance = "working" => hasPool /\ hasCache

(* A call in progress can always go on, and so can a shutdown and the       *)
(* maintenance thread it waits for.                                         *)
Calling(c) == pc[c] \notin {"idle", "undefined"}
CallsGoOn == \A c \in Callers : Calling(c) => ENABLED <<Advance(c)>>_vars

Stopping == maintenance = "working" \/ (maintenance = "asleep" /\ ~maintenanceRunning)
Joined == closing \in {"pool", "cache"} \/ (closing = "joining" /\ maintenance = "done")
ShutdownGoesOn ==
  /\ Stopping => ENABLED <<Upkeep>>_vars
  /\ Joined => ENABLED <<Closing>>_vars

(* No call hangs, whatever Redis, the pool and shutdown() do meanwhile.     *)
CallReturns ==
  /\ []CallsGoOn
  /\ \A c \in Callers : pc[c] # "idle" ~> pc[c] \in {"idle", "undefined"}

(* shutdown() gets past its join and ends. *)
ShutdownEnds == []ShutdownGoesOn /\ (closing # "no" ~> closing = "no")
=============================================================================
