---------------------------- MODULE GatewayState ----------------------------
(***************************************************************************)
(* The state of a udp_gateway::Gateway and of its worker threads, and what *)
(* must hold of it.                                                        *)
(***************************************************************************)
EXTENDS Naturals

CONSTANTS
  NumWorkers,   (* config_.numWorkerThreads                                  *)
  Metrics       (* config_.enableMetrics && metricsCollector_                *)

ASSUME GatewayAssumption == NumWorkers \in Nat /\ Metrics \in BOOLEAN

Workers == 1..NumWorkers

VARIABLES
  running,   (* running_                                                     *)
  socket,    (* socket_: closed, open (not bound) or bound                   *)
  guard,     (* workGuard_ is set                                            *)
  timer,     (* the metrics timer waits                                      *)
  session,   (* activeSessions_ has the session of the main socket           *)
  stopped,   (* ioContext_ was stopped                                       *)
  threads,   (* workerThreads_                                               *)
  inRun,     (* worker threads inside ioContext_.run()                       *)
  owner,     (* what the owner does next                                     *)
  aborted    (* history: creating a thread or the metrics timer threw        *)
-----------------------------------------------------------------------------
(* While the gateway is running every worker thread is there to serve it:   *)
(* none has found the io_context out of work and left.                      *)
WorkersServe == running => threads = Workers /\ inRun = Workers

(* No worker thread outlives the gateway's stop() or its destruction, and   *)
(* the process ends in std::terminate only after a start() that an          *)
(* exception ended among or after its threads, whose workers nobody stops:  *)
(* running_ is not set, so that stop() leaves them alone.                   *)
NoThreadIsLeft ==
  /\ inRun \subseteq threads
  /\ owner = "idle" /\ ~running /\ threads # {} => aborted
  /\ owner = "gone" => inRun = {}
  /\ owner = "terminated" => aborted
=============================================================================
