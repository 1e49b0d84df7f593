---------------------------- MODULE AbstractCache ----------------------------
(***************************************************************************)
(* What the deduplicator's local cache promises its callers: identifiers   *)
(* are held until they are removed, evicted or found to be out of date; a  *)
(* lookup finds exactly the identifiers that are held and in date; and an  *)
(* identifier is evicted only to make room for a new one in a full cache.  *)
(* Deduplicator is built on this; LocalCache implements CacheContract,     *)
(* the specification made of these actions.                                *)
(***************************************************************************)
EXTENDS Naturals, FiniteSets

CONSTANTS
  Ids,         (* message identifiers                                        *)
  Capacity     (* LocalCache::maxSize_                                       *)

ASSUME CacheAssumption == Capacity \in Nat \ {0}

VARIABLES
  held,        (* identifiers in the cache, out of date or not               *)
  fresh        (* those whose expiry time has not passed                     *)

cacheVars == <<held, fresh>>

CacheTypeOK == held \subseteq Ids /\ fresh \subseteq held

CacheInit == held = {} /\ fresh = {}

(* Every operation may come across entries that are out of date, and drop  *)
(* them; dropping some of them leaves one of these.                        *)
Remains == {held \ S : S \in SUBSET (held \ fresh)}

(* Time passes: entries go out of date. *)
Age(S) ==
  /\ S # {} /\ S \subseteq fresh
  /\ fresh' = fresh \ S
  /\ UNCHANGED held

Hit(m) ==
  /\ m \in fresh
  /\ held' \in Remains
  /\ UNCHANGED fresh

Miss(m) ==
  /\ m \notin fresh
  /\ held' \in Remains /\ m \notin held'
  /\ UNCHANGED fresh

(* m is put in the cache, with an expiry time to come or one long past. *)
Put(m, inDate) ==
  \E kept \in Remains, evicted \in SUBSET held :
    /\ evicted \subseteq kept \ {m}
    /\ Cardinality(evicted) = IF m \in kept \/ Cardinality(kept) < Capacity
                              THEN 0 ELSE 1
    /\ held' = (kept \ evicted) \cup {m}
    /\ fresh' = (fresh \ (evicted \cup {m})) \cup {x \in {m} : inDate}

Delete(m) ==
  /\ held' = held \ {m}
  /\ fresh' = fresh \ {m}

Clear == held' = {} /\ fresh' = {}

CleanUp ==
  /\ held' = fresh
  /\ UNCHANGED fresh
=============================================================================
