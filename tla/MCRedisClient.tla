---------------------------- MODULE MCRedisClient ----------------------------
(* RedisClient for TLC. *)
EXTENDS RedisClient
=============================================================================
