--------------------------- MODULE MCDeduplicator ---------------------------
(* Deduplicator for TLC: a batch that names an identifier twice, and one   *)
(* that names two.                                                         *)
EXTENDS Deduplicator

MCBatches == {<<m, m>> : m \in Ids}
=============================================================================
