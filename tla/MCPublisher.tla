----------------------------- MODULE MCPublisher -----------------------------
(* Publisher for TLC: two messages, which a batch may hold together. *)
EXTENDS Publisher

CONSTANTS m1, m2
MCMessages == {m1, m2}
MCBatches == {<<m1, m2>>}
=============================================================================
