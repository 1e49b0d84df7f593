----------------------------- MODULE MCSession -----------------------------
(* Session with two gateway instances for TLC: every command is for the    *)
(* sender of every message.                                                *)
EXTENDS Session, TLC

MCAddressees == [c \in Commands |-> Messages]
Symmetry == Permutations(Sessions)
=============================================================================
