----------------------------- MODULE AsyncPublisher -----------------------------
(***************************************************************************)
(* rabbitmq_integration::Publisher, the asynchronous half: publishAsync    *)
(* queues a task and starts the thread that runs the tasks when it is the  *)
(* first; the destructor stops that thread.  What a task does, a call of   *)
(* publish, is in Publisher: it returns, unless a drain of the local queue *)
(* has locked itself out (Publisher!LockedOut) with the mutex in its hands.*)
(*                                                                         *)
(* Callers publish through the current publisher.  Its owner may move it   *)
(* once, between two calls, into a second one that the callers use from    *)
(* then on, and destroys each when no call of a caller is in it.           *)
(***************************************************************************)
EXTENDS Naturals, Sequences

CONSTANTS
  Callers,   (* threads that call publishAsync                               *)
  Calls,     (* bound: the calls each of them makes                          *)
  None       (* no thread                                                    *)

ASSUME AsyncAssumption == Calls \in [Callers -> Nat] /\ None \notin Callers

(* The k-th call of a caller queues the task <<c, k>>. *)
Tasks == UNION {{c} \X (1..Calls[c]) : c \in Callers}

(* The publisher, and the one its contents are moved to. *)
Publishers == 1..2

VARIABLES
  current,   (* the publisher the callers use                                *)
  life,      (* of a publisher: absent, alive, a step of its destructor, dead *)
  tasks,     (* asyncTasks_                                                  *)
  running,   (* asyncRunning_                                                *)
  handle,    (* asyncPublishThread_; a thread is named after its creator     *)
  pc,        (* where each caller is in publishAsync                         *)
  made,      (* the calls it has made                                        *)
  old,       (* the handle its assignment to asyncPublishThread_ replaces    *)
  at,        (* where each async thread is                                   *)
  of,        (* the publisher it belongs to                                  *)
  hand,      (* the task it took from the queue                              *)
  future,    (* the future of each task                                      *)
  dead,      (* std::terminate ended the process                             *)
  order,     (* history: the tasks in the order they were queued             *)
  done,      (* history: the tasks in the order their futures became ready   *)
  raced,     (* history: a second caller set asyncRunning_                   *)
  deaf,      (* history: the publisher was moved while its thread ran        *)
  missed,    (* history: a thread was about to sleep when it was notified    *)
  failed     (* history: creating a thread threw                             *)

callerVars == <<pc, made, old>>
threadVars == <<at, of, hand>>
histories == <<order, done, raced, deaf, missed, failed>>
vars == <<current, life, tasks, running, handle, callerVars, threadVars, future, dead,
          histories>>

Init ==
  /\ current = 1
  /\ life = [p \in Publishers |-> IF p = 1 THEN "alive" ELSE "absent"]
  /\ tasks = [p \in Publishers |-> <<>>]
  /\ running = [p \in Publishers |-> FALSE]
  /\ handle = [p \in Publishers |-> None]
  /\ pc = [c \in Callers |-> "idle"]
  /\ made = [c \in Callers |-> 0]
  /\ old = [c \in Callers |-> None]
  /\ at = [c \in Callers |-> "none"]
  /\ of = [c \in Callers |-> 1]
  /\ hand = [c \in Callers |-> <<>>]
  /\ future = [t \in Tasks |-> "none"]
  /\ dead = FALSE
  /\ order = [p \in Publishers |-> <<>>]
  /\ done = [p \in Publishers |-> <<>>]
  /\ raced = FALSE /\ deaf = FALSE /\ missed = FALSE
  /\ failed = FALSE
-----------------------------------------------------------------------------
(* A thread holds asyncMutex_ from its test of the queue until it sleeps or *)
(* takes a task.                                                           *)
MutexFree(p) == \A w \in Callers : of[w] = p => at[w] \notin {"dozing", "looping"}

Asleep(p) == {w \in Callers : of[w] = p /\ at[w] = "asleep"}

(* publishAsync: the task is queued under the mutex, and one thread         *)
(* notified.                                                                *)
Push(c) ==
  /\ ~dead /\ pc[c] = "idle" /\ made[c] < Calls[c]
  /\ life[current] = "alive" /\ MutexFree(current)
  /\ made' = [made EXCEPT ![c] = @ + 1]
  /\ tasks' = [tasks EXCEPT ![current] = Append(@, <<c, made[c] + 1>>)]
  /\ order' = [order EXCEPT ![current] = Append(@, <<c, made[c] + 1>>)]
  /\ future' = [future EXCEPT ![<<c, made[c] + 1>>] = "pending"]
  /\ pc' = [pc EXCEPT ![c] = "notify"]
  /\ UNCHANGED <<current, life, running, handle, old, threadVars, dead, done, raced,
                 deaf, missed, failed>>

(* Mutant: nobody is notified. *)
NotifyNone(c) ==
  /\ ~dead /\ pc[c] = "notify"
  /\ pc' = [pc EXCEPT ![c] = "test"]
  /\ UNCHANGED <<current, life, tasks, running, handle, made, old, threadVars, future, dead,
                 histories>>

NotifyOne(c) ==
  /\ ~dead /\ pc[c] = "notify"
  /\ \/ Asleep(current) = {} /\ UNCHANGED at
     \/ \E w \in Asleep(current) : at' = [at EXCEPT ![w] = "locking"]
  /\ pc' = [pc EXCEPT ![c] = "test"]
  /\ UNCHANGED <<current, life, tasks, running, handle, made, old, of, hand, future, dead,
                 histories>>

(* The test of asyncRunning_ in publishAsync, and the same test again in    *)
(* startAsyncPublishing.                                                    *)
TestRunning(c) ==
  /\ ~dead /\ pc[c] \in {"test", "start"}
  /\ pc' = [pc EXCEPT ![c] =
              IF running[current] THEN "idle" ELSE IF @ = "test" THEN "start" ELSE "mark"]
  /\ UNCHANGED <<current, life, tasks, running, handle, made, old, threadVars, future, dead,
                 histories>>

MarkRunning(c) ==
  /\ ~dead /\ pc[c] = "mark"
  /\ running' = [running EXCEPT ![current] = TRUE]
  /\ raced' = (raced \/ running[current])
  /\ pc' = [pc EXCEPT ![c] = "spawn"]
  /\ UNCHANGED <<current, life, tasks, handle, made, old, threadVars, future, dead, order,
                 done, deaf, missed, failed>>

(* The constructor of std::thread may throw, and the exception leaves       *)
(* publishAsync: the task stays queued and asyncRunning_ true.              *)
Spawn(c) ==
  /\ ~dead /\ pc[c] = "spawn"
  /\ \/ /\ at' = [at EXCEPT ![c] = "testing"]
        /\ of' = [of EXCEPT ![c] = current]
        /\ pc' = [pc EXCEPT ![c] = "assign"]
        /\ UNCHANGED failed
     \/ /\ pc' = [pc EXCEPT ![c] = "idle"]
        /\ failed' = TRUE
        /\ UNCHANGED <<at, of>>
  /\ UNCHANGED <<current, life, tasks, running, handle, made, old, hand, future, dead, order,
                 done, raced, deaf, missed>>

(* The assignment reads the old pointer, writes the new one and destroys    *)
(* the old thread object; no thread may be joinable then.                   *)
ReadHandle(c) ==
  /\ ~dead /\ pc[c] = "assign"
  /\ old' = [old EXCEPT ![c] = handle[current]]
  /\ pc' = [pc EXCEPT ![c] = "replace"]
  /\ UNCHANGED <<current, life, tasks, running, handle, made, threadVars, future, dead,
                 histories>>

WriteHandle(c) ==
  /\ ~dead /\ pc[c] = "replace"
  /\ handle' = [handle EXCEPT ![current] = c]
  /\ dead' = (old[c] # None)
  /\ old' = [old EXCEPT ![c] = None]
  /\ pc' = [pc EXCEPT ![c] = "idle"]
  /\ UNCHANGED <<current, life, tasks, running, made, threadVars, future, histories>>
-----------------------------------------------------------------------------
(* asyncPublishThreadFunc.  Once its publisher is dead a thread touches     *)
(* freed memory, and the model has no more to say about it.                 *)

Runs(w, place) == ~dead /\ at[w] \in place /\ life[of[w]] # "dead"

TestStop(w) ==
  /\ Runs(w, {"testing"})
  /\ at' = [at EXCEPT ![w] = IF running[of[w]] THEN "locking" ELSE "ended"]
  /\ UNCHANGED <<current, life, tasks, running, handle, callerVars, of, hand, future, dead,
                 histories>>

(* The mutex is taken, for the first time or after a wake-up, and the       *)
(* condition evaluated.                                                     *)
TestQueue(w) ==
  /\ Runs(w, {"locking"}) /\ MutexFree(of[w])
  /\ at' = [at EXCEPT ![w] =
              IF tasks[of[w]] # <<>> \/ ~running[of[w]] THEN "looping" ELSE "dozing"]
  /\ UNCHANGED <<current, life, tasks, running, handle, callerVars, of, hand, future, dead,
                 histories>>

(* The mutex is released and the thread sleeps in one step. *)
Sleep(w) ==
  /\ Runs(w, {"dozing"})
  /\ at' = [at EXCEPT ![w] = "asleep"]
  /\ UNCHANGED <<current, life, tasks, running, handle, callerVars, of, hand, future, dead,
                 histories>>

SpuriousWakeup(w) ==
  /\ Runs(w, {"asleep"})
  /\ at' = [at EXCEPT ![w] = "locking"]
  /\ UNCHANGED <<current, life, tasks, running, handle, callerVars, of, hand, future, dead,
                 histories>>

(* Mutant: the front is taken but stays in the queue. *)
TakeCopy(w) ==
  /\ Runs(w, {"looping"})
  /\ \/ /\ tasks[of[w]] # <<>> /\ running[of[w]]
        /\ hand' = [hand EXCEPT ![w] = <<Head(tasks[of[w]])>>]
        /\ at' = [at EXCEPT ![w] = "executing"]
     \/ /\ tasks[of[w]] = <<>> \/ ~running[of[w]]
        /\ at' = [at EXCEPT ![w] = "testing"]
        /\ UNCHANGED hand
  /\ UNCHANGED <<current, life, tasks, running, handle, callerVars, of, future, dead, histories>>

Take(w) ==
  /\ Runs(w, {"looping"})
  /\ \/ /\ tasks[of[w]] # <<>> /\ running[of[w]]
        /\ hand' = [hand EXCEPT ![w] = <<Head(tasks[of[w]])>>]
        /\ tasks' = [tasks EXCEPT ![of[w]] = Tail(@)]
        /\ at' = [at EXCEPT ![w] = "executing"]
     \/ /\ tasks[of[w]] = <<>> \/ ~running[of[w]]
        /\ at' = [at EXCEPT ![w] = "testing"]
        /\ UNCHANGED <<hand, tasks>>
  /\ UNCHANGED <<current, life, running, handle, callerVars, of, future, dead, histories>>

(* The task publishes, whatever comes of it, and its future is ready.  A    *)
(* publish may wait for localQueueMutex_, which it gets (Publisher) unless  *)
(* a drain keeps it.                                                        *)
Execute(w) ==
  /\ Runs(w, {"executing"})
  /\ future' = [future EXCEPT ![Head(hand[w])] = "ready"]
  /\ done' = [done EXCEPT ![of[w]] = Append(@, Head(hand[w]))]
  /\ hand' = [hand EXCEPT ![w] = <<>>]
  /\ at' = [at EXCEPT ![w] = "relocking"]
  /\ UNCHANGED <<current, life, tasks, running, handle, callerVars, of, dead, order, raced,
                 deaf, missed, failed>>

(* A drain has locked itself out, which any may do at any time: the task's  *)
(* publish waits for localQueueMutex_ for ever.                             *)
Block(w) ==
  /\ Runs(w, {"executing"})
  /\ at' = [at EXCEPT ![w] = "blocked"]
  /\ UNCHANGED <<current, life, tasks, running, handle, callerVars, of, hand, future, dead,
                 histories>>

Relock(w) ==
  /\ Runs(w, {"relocking"}) /\ MutexFree(of[w])
  /\ at' = [at EXCEPT ![w] = "looping"]
  /\ UNCHANGED <<current, life, tasks, running, handle, callerVars, of, hand, future, dead,
                 histories>>
-----------------------------------------------------------------------------
(* The owner. *)

NoCall == \A c \in Callers : pc[c] = "idle"

(* The move constructor takes asyncRunning_ over, and neither the queue nor *)
(* the thread.                                                              *)
Move ==
  /\ ~dead /\ current = 1 /\ life[1] = "alive" /\ NoCall
  /\ current' = 2
  /\ life' = [life EXCEPT ![2] = "alive"]
  /\ running' = [p \in Publishers |-> p = 2 /\ running[1]]
  /\ deaf' = running[1]
  /\ UNCHANGED <<tasks, handle, callerVars, threadVars, future, dead, order, done, raced, missed,
                 failed>>

(* The destructor calls stopAsyncPublishing, which does not take the mutex. *)
StopAsync(p) ==
  /\ ~dead /\ life[p] = "alive" /\ (p = current => NoCall)
  /\ running' = [running EXCEPT ![p] = FALSE]
  /\ life' = [life EXCEPT ![p] = "stopped"]
  /\ UNCHANGED <<current, tasks, handle, callerVars, threadVars, future, dead, histories>>

(* Mutant: the sleeping thread is not notified. *)
NotifyNobody(p) ==
  /\ ~dead /\ life[p] = "stopped"
  /\ life' = [life EXCEPT ![p] = "joining"]
  /\ UNCHANGED <<current, tasks, running, handle, callerVars, threadVars, future, dead,
                 histories>>

NotifyAll(p) ==
  /\ ~dead /\ life[p] = "stopped"
  /\ at' = [w \in Callers |-> IF w \in Asleep(p) THEN "locking" ELSE at[w]]
  /\ missed' = (missed \/ \E w \in Callers : of[w] = p /\ at[w] = "dozing")
  /\ life' = [life EXCEPT ![p] = "joining"]
  /\ UNCHANGED <<current, tasks, running, handle, callerVars, of, hand, future, dead, order,
                 done, raced, deaf, failed>>

Waiting(p) == {tasks[p][i] : i \in DOMAIN tasks[p]}

(* Mutant: the thread is not waited for. *)
DestroyEarly(p) ==
  /\ ~dead /\ life[p] = "joining"
  /\ handle' = [handle EXCEPT ![p] = None]
  /\ future' = [t \in Tasks |-> IF t \in Waiting(p) THEN "broken" ELSE future[t]]
  /\ tasks' = [tasks EXCEPT ![p] = <<>>]
  /\ life' = [life EXCEPT ![p] = "dead"]
  /\ UNCHANGED <<current, running, callerVars, threadVars, dead, histories>>

(* The thread is joined; then the members go, and the futures of the tasks  *)
(* that are left break.                                                     *)
Join(p) ==
  /\ ~dead /\ life[p] = "joining"
  /\ handle[p] # None => at[handle[p]] = "ended"
  /\ handle' = [handle EXCEPT ![p] = None]
  /\ future' = [t \in Tasks |-> IF t \in Waiting(p) THEN "broken" ELSE future[t]]
  /\ tasks' = [tasks EXCEPT ![p] = <<>>]
  /\ life' = [life EXCEPT ![p] = "dead"]
  /\ UNCHANGED <<current, running, callerVars, threadVars, dead, histories>>
-----------------------------------------------------------------------------
CallStep(c) ==
  NotifyOne(c) \/ TestRunning(c) \/ MarkRunning(c) \/ Spawn(c) \/ ReadHandle(c) \/ WriteHandle(c)

ThreadStep(w) ==
  TestStop(w) \/ TestQueue(w) \/ Sleep(w) \/ Take(w) \/ Execute(w) \/ Relock(w)

(* What may befall a thread. *)
Disturb(w) == SpuriousWakeup(w) \/ Block(w)

Destroy(p) == NotifyAll(p) \/ Join(p)

Next ==
  \/ \E c \in Callers : Push(c) \/ CallStep(c) \/ ThreadStep(c) \/ Disturb(c)
  \/ Move
  \/ \E p \in Publishers : StopAsync(p) \/ Destroy(p)

(* A caller may stop calling and an owner keep its publisher for ever, but  *)
(* a call, a destructor and a thread that is not blocked go on.  A task     *)
(* that is not blocked ends, since a publish returns (Publisher's           *)
(* CallReturns).                                                            *)
CallerFairness(c) == WF_vars(CallStep(c))
ThreadFairness(w) == WF_vars(ThreadStep(w))
OwnerFairness(p) == WF_vars(Destroy(p))
Fairness ==
  /\ \A c \in Callers : CallerFairness(c) /\ ThreadFairness(c)
  /\ \A p \in Publishers : OwnerFairness(p)

Spec == Init /\ [][Next]_vars /\ Fairness
-----------------------------------------------------------------------------
TypeOK ==
  /\ current \in Publishers
  /\ life \in [Publishers -> {"absent", "alive", "stopped", "joining", "dead"}]
  /\ tasks \in [Publishers -> Seq(Tasks)]
  /\ running \in [Publishers -> BOOLEAN]
  /\ handle \in [Publishers -> Callers \cup {None}]
  /\ pc \in [Callers -> {"idle", "notify", "test", "start", "mark", "spawn", "assign", "replace"}]
  /\ made \in [Callers -> Nat] /\ \A c \in Callers : made[c] <= Calls[c]
  /\ old \in [Callers -> Callers \cup {None}]
  /\ at \in [Callers -> {"none", "testing", "locking", "dozing", "asleep", "looping", "executing",
                         "blocked", "relocking", "ended"}]
  /\ of \in [Callers -> Publishers]
  /\ hand \in [Callers -> {<<>>} \cup {<<t>> : t \in Tasks}]
  /\ future \in [Tasks -> {"none", "pending", "ready", "broken"}]
  /\ dead \in BOOLEAN /\ raced \in BOOLEAN /\ deaf \in BOOLEAN
  /\ missed \in BOOLEAN /\ failed \in BOOLEAN
  /\ order \in [Publishers -> Seq(Tasks)] /\ done \in [Publishers -> Seq(Tasks)]

Alive(w) == at[w] \notin {"none", "ended"}

(* Unless two callers start the thread at once, a publisher has one thread  *)
(* at most, which its destructor waits for, and the process never ends in   *)
(* std::terminate.                                                          *)
OneThread ==
  ~raced => /\ ~dead
            /\ \A v, w \in Callers :
                 Alive(v) /\ Alive(w) /\ of[v] = of[w] => v = w
            /\ \A w \in Callers : Alive(w) => life[of[w]] # "dead"

(* Futures become ready in the order of the calls, and none twice, unless   *)
(* two callers start the thread at once.                                    *)
ReadyInOrder ==
  \A p \in Publishers :
    ~raced => /\ Len(done[p]) <= Len(order[p])
              /\ \A i \in 1..Len(done[p]) : done[p][i] = order[p][i]
              /\ \A i, j \in 1..Len(done[p]) : done[p][i] = done[p][j] => i = j

(* No wake-up of the thread is lost: while a publisher has a task to run,   *)
(* a caller is about to notify its thread or to start one, or the thread is *)
(* awake and will test the queue again, or it is blocked in the task before *)
(* by a drain that locked itself out.  Excepted are a publisher that was    *)
(* moved while its thread ran, and one whose thread could not be created:   *)
(* asyncRunning_ says that it has one.                                      *)
Awake(w) == at[w] \in {"testing", "locking", "looping", "executing", "relocking"}
Blocked(p) == \E w \in Callers : of[w] = p /\ at[w] = "blocked"
NoTaskForgotten ==
  \A p \in Publishers :
    ~deaf /\ ~failed /\ life[p] = "alive" /\ tasks[p] # <<>> =>
      \/ \E c \in Callers : pc[c] \in {"notify", "spawn"}
      \/ \E c \in Callers : ~running[p] /\ pc[c] \in {"test", "start", "mark"}
      \/ \E w \in Callers : of[w] = p /\ Awake(w)
      \/ Blocked(p)

(* A future that is asked for becomes ready, or breaks with the publisher,  *)
(* unless two callers started the thread at once, the publisher was moved   *)
(* while its thread ran, the thread could not be created, or it is blocked  *)
(* in a task by a drain that locked itself out: no thread runs what is      *)
(* queued then or afterwards.                                               *)
FuturesSettle ==
  \A t \in Tasks :
    future[t] = "pending" ~>
      future[t] # "pending" \/ deaf \/ raced \/ failed \/ \E p \in Publishers : Blocked(p)

(* A thread that is not blocked can go on, and so can a destructor whose    *)
(* thread has ended.                                                        *)
Ready(w) ==
  /\ ~dead /\ life[of[w]] # "dead"
  /\ \/ at[w] \in {"testing", "dozing", "looping", "executing"}
     \/ at[w] \in {"locking", "relocking"} /\ MutexFree(of[w])
Joinable(p) == ~dead /\ life[p] = "joining" /\ (handle[p] # None => at[handle[p]] = "ended")
DestructorGoesOn ==
  /\ \A w \in Callers : Ready(w) => ENABLED <<ThreadStep(w)>>_vars
  /\ \A p \in Publishers : Joinable(p) => ENABLED <<Destroy(p)>>_vars

(* The destructor returns unless its notification came when the thread had  *)
(* tested the queue and was not asleep yet, or the thread is blocked in a   *)
(* task by a drain that locked itself out.                                  *)
DestructorReturns ==
  /\ []DestructorGoesOn
  /\ \A p \in Publishers : life[p] = "joining" ~> life[p] = "dead" \/ missed \/ dead \/ Blocked(p)
=============================================================================
