--------------------------- MODULE ConnectionPool ---------------------------
(***************************************************************************)
(* The pool of Redis connections that the threads of a Deduplicator share: *)
(* redis_deduplication::ConnectionPool.  A critical section under          *)
(* poolMutex_ is one step; what the code reads outside the lock (the flags *)
(* tested on entry and on return, the ping of a connection just taken) is  *)
(* a step of its own.  createConnection may fail whenever it is called,    *)
(* and a ping may find any connection dead.                                *)
(*                                                                         *)
(* As the Deduplicator uses it, a pool is initialized once and destroyed   *)
(* after its shutdown.  Connections differ by the Redis they lead to; the  *)
(* order in which idle ones are handed out is left open, and the counters  *)
(* kept for statistics only are left out.                                  *)
(***************************************************************************)
EXTENDS Integers, FiniteSets

CONSTANTS
  Threads,     (* the threads that borrow connections                        *)
  PoolSize,    (* connectionPoolSize                                         *)
  HasStandby   (* a standby host is configured                               *)

ASSUME PoolAssumption ==
  /\ IsFiniteSet(Threads)
  /\ PoolSize \in Nat
  /\ HasStandby \in BOOLEAN

VARIABLES
  phase,         (* initialized_ and the progress of initialize(), shutdown()*)
  shuttingDown,  (* shuttingDown_                                            *)
  available,     (* available[h]: idle connections to h, to be handed out    *)
  standby,       (* standby[h]: connections to h in standbyConnections_      *)
  usingStandby,  (* usingStandby_                                            *)
  active,        (* activeConnections_                                       *)
  pc,            (* pc[t]: what thread t does next                           *)
  conn,          (* conn[t]: where the connection of t leads                 *)
  switching,     (* what the operator of the pool is about to do             *)
  wasted         (* history: a thread was woken and gave up all the same     *)

queues == <<available, standby, usingStandby>>
owner == <<phase, shuttingDown>>
vars == <<owner, queues, active, pc, conn, switching, wasted>>

Hosts == {"master", "standby"}
None == [h \in Hosts |-> 0]
Size(q) == q["master"] + q["standby"]

Borrowing == {"checking", "holding", "returning"}
Borrowers == {t \in Threads : pc[t] \in Borrowing}
Waiting == {t \in Threads : pc[t] = "waiting"}
Woken == {t \in Threads : pc[t] = "woken"}

CurrentHost == IF usingStandby THEN "standby" ELSE "master"

Init ==
  /\ phase = "new" /\ shuttingDown = FALSE
  /\ available = None /\ standby = None /\ usingStandby = FALSE
  /\ active = 0
  /\ pc = [t \in Threads |-> "idle"]
  /\ conn = [t \in Threads |-> "master"]
  /\ switching = "no"
  /\ wasted = FALSE
-----------------------------------------------------------------------------
(* initialize() and shutdown(). *)

(* The pool opens if one master connection can be made. *)
Initialize ==
  /\ phase = "new"
  /\ \E n \in 0..PoolSize, k \in 0..PoolSize :
       /\ HasStandby \/ k = 0
       /\ available' = [None EXCEPT !["master"] = n]
       /\ standby' = [None EXCEPT !["standby"] = k]
       /\ phase' = IF n = 0 THEN "failed" ELSE "open"
  /\ UNCHANGED <<shuttingDown, usingStandby, active, pc, conn, switching, wasted>>

BeginShutdown ==
  /\ phase = "open"
  /\ phase' = "stopping" /\ shuttingDown' = TRUE
  /\ UNCHANGED <<queues, active, pc, conn, switching, wasted>>

JoinMonitor ==
  /\ phase = "stopping"
  /\ phase' = "joined"
  /\ UNCHANGED <<shuttingDown, queues, active, pc, conn, switching, wasted>>

(* The waiters of getConnection are not notified. *)
Clear ==
  /\ phase = "joined"
  /\ phase' = "closed"
  /\ available' = None /\ standby' = None
  /\ active' = 0
  /\ UNCHANGED <<shuttingDown, usingStandby, pc, conn, switching, wasted>>
-----------------------------------------------------------------------------
(* getConnection(), with the test before the lock first. *)

GetConnection(t) ==
  /\ pc[t] = "idle" /\ phase \in {"open", "stopping", "joined"} /\ ~shuttingDown
  /\ pc' = [pc EXCEPT ![t] = "entering"]
  /\ UNCHANGED <<owner, queues, active, conn, switching, wasted>>

Take(t) ==
  \E h \in Hosts :
    /\ available[h] > 0
    /\ available' = [available EXCEPT ![h] = @ - 1]
    /\ conn' = [conn EXCEPT ![t] = h]
    /\ active' = active + 1
    /\ pc' = [pc EXCEPT ![t] = "checking"]

(* With the lock held, on entry and after each wakeup. *)
Acquire(t) ==
  /\ pc[t] \in {"entering", "woken"}
  /\ \/ /\ shuttingDown
        /\ pc' = [pc EXCEPT ![t] = "idle"]
        /\ UNCHANGED <<available, active, conn>>
     \/ ~shuttingDown /\ Take(t)
     \/ /\ ~shuttingDown /\ Size(available) = 0
        /\ pc' = [pc EXCEPT ![t] = "waiting"]
        /\ UNCHANGED <<available, active, conn>>
  /\ UNCHANGED <<owner, standby, usingStandby, switching, wasted>>

SpuriousWakeup(t) ==
  /\ pc[t] = "waiting"
  /\ pc' = [pc EXCEPT ![t] = "woken"]
  /\ UNCHANGED <<owner, queues, active, conn, switching, wasted>>

(* Mutant: a call that ran into its deadline tries again. *)
EnterAgain(t) ==
  /\ pc[t] \in {"waiting", "woken"}
  /\ pc' = [pc EXCEPT ![t] = "entering"]
  /\ wasted' = (wasted \/ pc[t] = "woken")
  /\ UNCHANGED <<owner, queues, active, conn, switching>>

(* wait_until reports a timeout after the deadline, notified or not, and   *)
(* the call gives up without another look at the queue.                    *)
TimeOut(t) ==
  /\ pc[t] \in {"waiting", "woken"}
  /\ pc' = [pc EXCEPT ![t] = "idle"]
  /\ wasted' = (wasted \/ pc[t] = "woken")
  /\ UNCHANGED <<owner, queues, active, conn, switching>>

(* Mutant: a connection that cannot be replaced stays accounted active. *)
LeakActive(t) ==
  /\ pc[t] = "checking"
  /\ \/ pc' = [pc EXCEPT ![t] = "holding"] /\ UNCHANGED conn
     \/ pc' = [pc EXCEPT ![t] = "idle"] /\ UNCHANGED conn
  /\ UNCHANGED <<owner, queues, active, switching, wasted>>

(* The connection taken is pinged without the lock; a dead one is replaced *)
(* under the lock, or given up.                                            *)
CheckConnection(t) ==
  /\ pc[t] = "checking"
  /\ \/ pc' = [pc EXCEPT ![t] = "holding"] /\ UNCHANGED <<active, conn>>
     \/ /\ pc' = [pc EXCEPT ![t] = "holding"]
        /\ conn' = [conn EXCEPT ![t] = CurrentHost]
        /\ active' = (active - 1) + 1
     \/ /\ pc' = [pc EXCEPT ![t] = "idle"]
        /\ active' = active - 1
        /\ UNCHANGED conn
  /\ UNCHANGED <<owner, queues, switching, wasted>>
-----------------------------------------------------------------------------
(* returnConnection(), called by ~PooledConnection. *)

Release(t) ==
  /\ pc[t] = "holding"
  /\ pc' = [pc EXCEPT ![t] = IF shuttingDown THEN "idle" ELSE "returning"]
  /\ UNCHANGED <<owner, queues, active, conn, switching, wasted>>

WakeOne(p) ==
  IF Waiting = {} THEN {p} ELSE {[p EXCEPT ![w] = "woken"] : w \in Waiting}
WakeAll == [t \in Threads |-> IF pc[t] = "waiting" THEN "woken" ELSE pc[t]]

(* Mutant: the connection goes back and nobody is told. *)
ReturnSilently(t) ==
  /\ pc[t] = "returning"
  /\ active' = active - 1
  /\ available' = [available EXCEPT ![conn[t]] = @ + 1]
  /\ pc' = [pc EXCEPT ![t] = "idle"]
  /\ UNCHANGED <<owner, standby, usingStandby, conn, switching, wasted>>

ReturnConnection(t) ==
  /\ pc[t] = "returning"
  /\ active' = active - 1
  /\ \/ /\ available' = [available EXCEPT ![conn[t]] = @ + 1]
        /\ pc' \in WakeOne([pc EXCEPT ![t] = "idle"])
     \/ /\ pc' = [pc EXCEPT ![t] = "idle"]
        /\ UNCHANGED available
  /\ UNCHANGED <<owner, standby, usingStandby, conn, switching, wasted>>
-----------------------------------------------------------------------------
(* The health monitor thread, and testConnections(), which the maintenance *)
(* thread of the Deduplicator calls until it shuts the pool down.          *)

(* Mutant: a full pool's worth of connections whatever is idle. *)
ReplaceAll ==
  /\ phase \in {"open", "stopping"}
  /\ \E k \in 1..PoolSize :
       available' = [available EXCEPT ![CurrentHost] = @ + k]
  /\ pc' = WakeAll
  /\ UNCHANGED <<owner, standby, usingStandby, active, conn, switching, wasted>>

ReplaceFailedConnections ==
  /\ phase \in {"open", "stopping"}
  /\ \E k \in 1..(PoolSize - Size(available)) :
       available' = [available EXCEPT ![CurrentHost] = @ + k]
  /\ pc' = WakeAll
  /\ UNCHANGED <<owner, standby, usingStandby, active, conn, switching, wasted>>

TestConnections ==
  /\ phase = "open"
  /\ \E m \in 0..available["master"], s \in 0..available["standby"] :
       available' = [available EXCEPT !["master"] = m, !["standby"] = s]
  /\ UNCHANGED <<owner, standby, usingStandby, active, pc, conn, switching, wasted>>
-----------------------------------------------------------------------------
(* Failover and failback: public, called by one operator, never by the     *)
(* pool itself.  usingStandby is tested before the lock.                   *)

FailoverToStandby ==
  /\ switching = "no" /\ phase \notin {"new", "failed"}
  /\ HasStandby /\ ~usingStandby
  /\ switching' = "toStandby"
  /\ UNCHANGED <<owner, queues, active, pc, conn, wasted>>

SwitchToStandby ==
  /\ switching = "toStandby"
  /\ switching' = "no"
  /\ available' = standby /\ standby' = available
  /\ usingStandby' = TRUE
  /\ pc' = WakeAll
  /\ UNCHANGED <<owner, active, conn, wasted>>

FailbackToMaster ==
  /\ switching = "no" /\ phase \notin {"new", "failed"}
  /\ usingStandby
  /\ switching' = "toMaster"
  /\ UNCHANGED <<owner, queues, active, pc, conn, wasted>>

(* The master must answer a test connection; then the idle connections are *)
(* replaced by new ones to the master, if any can be made.                 *)
SwitchToMaster ==
  /\ switching = "toMaster"
  /\ switching' = "no"
  /\ \/ UNCHANGED <<available, usingStandby, pc>>
     \/ /\ \E n \in 1..PoolSize : available' = [None EXCEPT !["master"] = n]
        /\ usingStandby' = FALSE
        /\ pc' = WakeAll
  /\ UNCHANGED <<owner, standby, active, conn, wasted>>
-----------------------------------------------------------------------------
Owner == Initialize \/ BeginShutdown \/ JoinMonitor \/ Clear
Operator == FailoverToStandby \/ SwitchToStandby \/ FailbackToMaster \/ SwitchToMaster
Call(t) == Acquire(t) \/ CheckConnection(t) \/ ReturnConnection(t)

Next ==
  \/ Owner \/ Operator \/ ReplaceFailedConnections \/ TestConnections
  \/ \E t \in Threads :
       GetConnection(t) \/ SpuriousWakeup(t) \/ TimeOut(t) \/ Release(t) \/ Call(t)

Spec == Init /\ [][Next]_vars

(* The lock is given in the end to a thread that wants it, no ping blocks  *)
(* for ever (socket timeouts), and deadlines pass.  Nobody need release.   *)
Fairness(t) == WF_vars(Call(t)) /\ WF_vars(TimeOut(t))
FairSpec == Spec /\ \A t \in Threads : Fairness(t)
-----------------------------------------------------------------------------
(* The variables hold values of their types; no queue is read when empty.  *)
TypeOK ==
  /\ phase \in {"new", "open", "failed", "stopping", "joined", "closed"}
  /\ shuttingDown \in BOOLEAN
  /\ available \in [Hosts -> Nat] /\ standby \in [Hosts -> Nat]
  /\ usingStandby \in BOOLEAN
  /\ active \in Int
  /\ pc \in [Threads -> {"idle", "entering", "waiting", "woken"} \cup Borrowing]
  /\ conn \in [Threads -> Hosts]
  /\ switching \in {"no", "toStandby", "toMaster"}
  /\ wasted \in BOOLEAN

(* activeConnections_ is the number of connections that threads have taken *)
(* and not given back, through every path of getConnection and             *)
(* returnConnection; while shutdown() runs it may be too high, never too   *)
(* low.                                                                    *)
ActiveIsBorrowed ==
  /\ phase = "open" => active = Cardinality(Borrowers)
  /\ phase \in {"stopping", "joined"} => active >= Cardinality(Borrowers)

(* The connections a pool ever has are bounded, although the monitor fills *)
(* the queue up without a look at what is borrowed, and a failover adds    *)
(* the borrowed master connections to the standby ones on their return.    *)
PoolBound ==
  /\ Size(standby) <= PoolSize + Cardinality(Threads)
  /\ Size(available) + Cardinality(Borrowers) <=
       PoolSize + (IF usingStandby THEN 2 ELSE 1) * Cardinality(Threads)

(* No wakeup is lost: while connections are idle and threads wait, as many *)
(* threads as there are idle connections have been woken, unless one that  *)
(* was woken ran into its deadline and left without looking.               *)
IdleWakes ==
  (phase = "open" /\ Waiting # {} /\ ~wasted)
    => Size(available) <= Cardinality(Woken)

(* A call of getConnection or returnConnection that waits for nothing can  *)
(* go on, and a waiting one can meet its deadline.                         *)
InCall(t) == pc[t] \in {"entering", "woken", "checking", "returning"}
InWait(t) == pc[t] \in {"waiting", "woken"}
NeverStuck ==
  \A t \in Threads : /\ InCall(t) => ENABLED <<Call(t)>>_vars
                     /\ InWait(t) => ENABLED <<TimeOut(t)>>_vars

(* A call of getConnection or returnConnection is never stuck, and returns, *)
(* in the middle of a shutdown too, which notifies nobody.                 *)
CallReturns ==
  /\ []NeverStuck
  /\ \A t \in Threads : InCall(t) \/ InWait(t) ~> pc[t] \in {"idle", "holding"}
=============================================================================
