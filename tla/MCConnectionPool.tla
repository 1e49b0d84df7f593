-------------------------- MODULE MCConnectionPool --------------------------
(* ConnectionPool for TLC: the .cfg files give all constants their values. *)
EXTENDS ConnectionPool
=============================================================================
