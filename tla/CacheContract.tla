---------------------------- MODULE CacheContract ----------------------------
(***************************************************************************)
(* The actions of AbstractCache as a specification, with the answers that  *)
(* lookups give.                                                           *)
(***************************************************************************)
EXTENDS AbstractCache

VARIABLE answer   (* the last lookup's identifier and whether it was found    *)

NoAnswer == <<>>

ContractInit == CacheInit /\ answer = NoAnswer

ContractNext ==
  \/ \E m \in Ids : Hit(m) /\ answer' = <<m, TRUE>>
  \/ \E m \in Ids : Miss(m) /\ answer' = <<m, FALSE>>
  \/ /\ \/ \E S \in SUBSET fresh : Age(S)
        \/ \E m \in Ids, inDate \in BOOLEAN : Put(m, inDate)
        \/ \E m \in Ids : Delete(m)
        \/ Clear
        \/ CleanUp
     /\ UNCHANGED answer

ContractSpec == ContractInit /\ [][ContractNext]_<<cacheVars, answer>>
=============================================================================
