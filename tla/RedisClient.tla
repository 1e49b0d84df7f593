----------------------------- MODULE RedisClient -----------------------------
(***************************************************************************)
(* redis_deduplication::RedisClient: one hiredis connection with a status. *)
(* The pool lends a client to one thread at a time, so that operations do  *)
(* not overlap; connect() is three exchanges with the server, any of which *)
(* may fail.                                                               *)
(***************************************************************************)

CONSTANT HasPassword   (* a password is configured                           *)

VARIABLES
  context,    (* context_ is not null                                        *)
  status,     (* connectionStatus_                                           *)
  at,         (* the next exchange of a connect() in progress                *)
  answered,   (* history: the server did its part in all of this connect()   *)
  connected   (* what the last connect() returned, "none" before that        *)

vars == <<context, status, at, answered, connected>>

Init ==
  /\ context = FALSE
  /\ status = "DISCONNECTED"
  /\ at = "idle"
  /\ answered = FALSE /\ connected = "none"

(* connect() fails with the given status; the context is freed. *)
GiveUp(s) ==
  /\ context' = FALSE
  /\ status' = s
  /\ at' = "idle" /\ connected' = "no"

(* connect() frees the old context and begins. *)
Connect ==
  /\ at = "idle"
  /\ context' = FALSE
  /\ status' = "CONNECTING"
  /\ at' = "open"
  /\ answered' = TRUE
  /\ UNCHANGED connected

(* redisConnectWithTimeout; handleConnectionError sets FAILED. *)
Open ==
  /\ at = "open"
  /\ \/ /\ context' = TRUE
        /\ at' = IF HasPassword THEN "authenticate" ELSE "ping"
        /\ UNCHANGED <<status, answered, connected>>
     \/ GiveUp("FAILED") /\ answered' = FALSE

(* No answer and an error reply set FAILED; an answer that is neither OK    *)
(* nor an error leaves CONNECTING behind.                                   *)
Authenticate ==
  /\ at = "authenticate"
  /\ \/ at' = "ping" /\ UNCHANGED <<context, status, answered, connected>>
     \/ \E s \in {"FAILED", "CONNECTING"} : GiveUp(s) /\ answered' = FALSE

(* ping(): nothing is sent unless the status is CONNECTED. *)
Pings(pong) == context /\ status = "CONNECTED" /\ pong

(* connect() pings before it sets CONNECTED. *)
FinishConnect ==
  /\ at = "ping"
  /\ \E pong \in BOOLEAN :
       /\ answered' = (answered /\ pong)
       /\ IF Pings(pong)
          THEN /\ status' = "CONNECTED" /\ connected' = "yes"
               /\ at' = "idle"
               /\ UNCHANGED context
          ELSE GiveUp(status)

(* setNX, deleteKey, executeCommand: on a client that is not connected, and *)
(* when no reply comes, handleConnectionError sets FAILED; the context      *)
(* stays. ping() changes nothing.                                           *)
Command ==
  /\ at = "idle"
  /\ status' \in IF context /\ status = "CONNECTED" THEN {status, "FAILED"} ELSE {"FAILED"}
  /\ UNCHANGED <<context, at, answered, connected>>

Disconnect ==
  /\ at = "idle"
  /\ context' = FALSE
  /\ status' = "DISCONNECTED"
  /\ UNCHANGED <<at, answered, connected>>

Next == Connect \/ Open \/ Authenticate \/ FinishConnect \/ Command \/ Disconnect

Spec == Init /\ [][Next]_vars
-----------------------------------------------------------------------------
(* test/integration/test_redis_client.cpp: with a running server,           *)
(* EXPECT_TRUE(client->connect()).  A connect() that the server answered in *)
(* all its exchanges, the connection, the password and the ping, does not   *)
(* return false.                                                            *)
ConnectSucceeds == at = "idle" /\ answered => connected # "no"
=============================================================================
