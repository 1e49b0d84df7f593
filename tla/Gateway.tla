------------------------------- MODULE Gateway -------------------------------
(***************************************************************************)
(* udp_gateway::Gateway: its life from start() over stop() to the          *)
(* destructor.  One thread owns the gateway and calls these; the worker    *)
(* threads run the io_context as long as it has work: the work guard, the  *)
(* metrics timer or a session that receives.  What a session does with a   *)
(* datagram is in Session.                                                 *)
(***************************************************************************)
EXTENDS GatewayState

io == <<guard, timer, session, stopped>>
vars == <<running, socket, io, threads, inRun, owner, aborted>>

Init ==
  /\ running = FALSE /\ socket = "closed"
  /\ guard = FALSE /\ timer = FALSE /\ session = FALSE /\ stopped = FALSE
  /\ threads = {} /\ inRun = {}
  /\ owner = "idle" /\ aborted = FALSE
-----------------------------------------------------------------------------
(* start().  An exception of any step ends it with an error and undoes      *)
(* nothing.  Called while the gateway is running it changes nothing.        *)
(* startAccept() throws nothing, because it returns at once.                *)

Start ==
  /\ owner = "idle" /\ ~running
  /\ owner' = "socket"
  /\ UNCHANGED <<running, socket, io, threads, inRun, aborted>>

(* The address may be malformed and the socket may fail to open or to bind. *)
(* One that was opened before cannot be opened again.                       *)
SetupSocket ==
  /\ owner = "socket"
  /\ \/ socket = "closed" /\ socket' = "bound" /\ owner' = "guard"
     \/ socket = "closed" /\ socket' \in {"closed", "open"} /\ owner' = "idle"
     \/ socket # "closed" /\ owner' = "idle" /\ UNCHANGED socket
  /\ UNCHANGED <<running, io, threads, inRun, aborted>>

(* Mutant: no work guard. *)
HoldNoWork ==
  /\ owner = "guard"
  /\ owner' = "spawn"
  /\ UNCHANGED <<running, socket, io, threads, inRun, aborted>>

(* The guard is created, or creating it throws. *)
HoldWork ==
  /\ owner = "guard"
  /\ \/ guard' = TRUE /\ owner' = "spawn"
     \/ owner' = "idle" /\ UNCHANGED guard
  /\ UNCHANGED <<running, socket, timer, session, stopped, threads, inRun, aborted>>

SpawnWorker ==
  /\ owner = "spawn" /\ threads # Workers
  /\ LET w == CHOOSE k \in Workers \ threads : \A j \in Workers \ threads : k <= j IN
     \/ threads' = threads \cup {w} /\ inRun' = inRun \cup {w} /\ UNCHANGED <<owner, aborted>>
     \/ owner' = "idle" /\ aborted' = TRUE /\ UNCHANGED <<threads, inRun>>
  /\ UNCHANGED <<running, socket, io>>

(* The metrics timer, whose creation may throw.  updateMetrics(), which     *)
(* arms it, returns at once unless the gateway is running.                  *)
StartMetrics ==
  /\ owner = "spawn" /\ threads = Workers
  /\ \/ timer' = (Metrics /\ running) /\ owner' = "accept" /\ UNCHANGED aborted
     \/ Metrics /\ owner' = "idle" /\ aborted' = TRUE /\ UNCHANGED timer
  /\ UNCHANGED <<running, socket, guard, session, stopped, threads, inRun>>

(* So does startAccept(). *)
StartAccept ==
  /\ owner = "accept"
  /\ session' = running
  /\ owner' = "mark"
  /\ UNCHANGED <<running, socket, guard, timer, stopped, threads, inRun, aborted>>

MarkRunning ==
  /\ owner = "mark"
  /\ running' = TRUE
  /\ owner' = "idle"
  /\ UNCHANGED <<socket, io, threads, inRun, aborted>>
-----------------------------------------------------------------------------
(* A worker leaves run() when the io_context is stopped or out of work.     *)
(* An exception of a handler would end it too (Session, Escape), but there  *)
(* is no handler: no session is ever created (RunningAccepts), and the      *)
(* timer is never armed.                                                    *)

HasWork == guard \/ timer \/ session

LeaveRun(w) ==
  /\ w \in inRun /\ (stopped \/ ~HasWork)
  /\ inRun' = inRun \ {w}
  /\ UNCHANGED <<running, socket, io, threads, owner, aborted>>
-----------------------------------------------------------------------------
(* stop().  A gateway that is not running is left as it is. *)

Stop ==
  /\ owner = "idle" /\ running
  /\ running' = FALSE
  /\ guard' = FALSE /\ timer' = FALSE
  /\ owner' = "sessions"
  /\ UNCHANGED <<socket, session, stopped, threads, inRun, aborted>>

StopSessions ==
  /\ owner = "sessions"
  /\ session' = FALSE
  /\ owner' = "stop"
  /\ UNCHANGED <<running, socket, guard, timer, stopped, threads, inRun, aborted>>

StopContext ==
  /\ owner = "stop"
  /\ stopped' = TRUE
  /\ owner' = "join"
  /\ UNCHANGED <<running, socket, guard, timer, session, threads, inRun, aborted>>

(* Mutant: stop() goes on until no thread is left to join, and forgets to   *)
(* clear the vector.                                                        *)
JoinAgain ==
  /\ owner = "join" /\ threads \cap inRun = {}
  /\ owner' = IF threads = {} THEN "idle" ELSE "stop"
  /\ UNCHANGED <<running, socket, io, threads, inRun, aborted>>

(* Mutant: the threads are detached. *)
DetachWorkers ==
  /\ owner = "join"
  /\ threads' = {}
  /\ owner' = "idle"
  /\ UNCHANGED <<running, socket, io, inRun, aborted>>

JoinWorkers ==
  /\ owner = "join" /\ threads \cap inRun = {}
  /\ threads' = {}
  /\ owner' = "idle"
  /\ UNCHANGED <<running, socket, io, inRun, aborted>>

(* The destructor, after its stop(): a vector that holds threads nobody     *)
(* joined terminates the process.                                           *)
Destroy ==
  /\ owner = "idle" /\ ~running
  /\ owner' = IF threads = {} THEN "gone" ELSE "terminated"
  /\ UNCHANGED <<running, socket, io, threads, inRun, aborted>>
-----------------------------------------------------------------------------
OwnerStep ==
  \/ SetupSocket \/ HoldWork \/ SpawnWorker \/ StartMetrics \/ StartAccept \/ MarkRunning
  \/ StopSessions \/ StopContext \/ JoinWorkers

Next == Start \/ Stop \/ Destroy \/ OwnerStep \/ \E w \in Workers : LeaveRun(w)

Spec == Init /\ [][Next]_vars

(* The owner's calls and the worker threads go on. *)
OwnerFairness == WF_vars(OwnerStep)
WorkerFairness(w) == WF_vars(LeaveRun(w))
FairSpec == Spec /\ OwnerFairness /\ \A w \in Workers : WorkerFairness(w)
-----------------------------------------------------------------------------
TypeOK ==
  /\ running \in BOOLEAN /\ socket \in {"closed", "open", "bound"}
  /\ guard \in BOOLEAN /\ timer \in BOOLEAN /\ session \in BOOLEAN /\ stopped \in BOOLEAN
  /\ threads \subseteq Workers /\ inRun \subseteq Workers
  /\ owner \in {"idle", "socket", "guard", "spawn", "accept", "mark", "sessions", "stop", "join",
             "gone", "terminated"}
  /\ aborted \in BOOLEAN

(* What stop() waits for can happen: its own next step, or that a worker   *)
(* thread it joins leaves run().                                           *)
OwnersTurn == owner \in {"sessions", "stop"} \/ (owner = "join" /\ threads \cap inRun = {})
StopGoesOn ==
  /\ OwnersTurn => ENABLED <<OwnerStep>>_vars
  /\ \A w \in inRun : owner = "join" => ENABLED <<LeaveRun(w)>>_vars

(* stop() returns. *)
StopReturns == []StopGoesOn /\ (owner = "sessions" ~> owner = "idle")

(* gateway.cpp, startAccept: "For now, we'll create a single session for    *)
(* the main socket".                                                        *)
RunningAccepts == running => session
=============================================================================
