------------------------- MODULE AsyncPublisherProofs -------------------------
(***************************************************************************)
(* One thread per publisher, futures in order, no lost wake-up and a       *)
(* destructor that returns, for any number of callers and calls.           *)
(***************************************************************************)
EXTENDS AsyncPublisher, SequenceTheorems, TLAPS

(* A publisher that is called is alive, and one that is not there yet has   *)
(* never been used.                                                         *)
Called == \A c \in Callers : pc[c] # "idle" => life[current] = "alive"
SecondAbsent == current = 1 => life[2] = "absent"

Started(w) == at[w] # "none"
NothingStarted == (\A w \in Callers : ~Started(w)) /\ \A p \in Publishers : handle[p] = None

(* Whoever starts a thread without having raced is the only one to start    *)
(* one, ever: asyncRunning_ stays true until the destructor.                *)
Starting(c) == pc[c] \in {"spawn", "assign", "replace"}
OneStarts ==
  /\ life[current] = "alive" /\ ~running[current] => NothingStarted
  /\ \A c \in Callers : Starting(c) => running[current]
  /\ \A c, d \in Callers : Starting(c) /\ Starting(d) => c = d
  /\ \A c \in Callers : pc[c] = "spawn" => NothingStarted
  /\ \A c \in Callers : pc[c] \in {"assign", "replace"} =>
       Started(c) /\ of[c] = current /\ \A p \in Publishers : handle[p] = None
  /\ \A c \in Callers : pc[c] = "replace" => old[c] = None
  /\ \A v, w \in Callers : Started(v) /\ Started(w) => v = w

(* Nobody starts a second thread, not even one who raced. *)
FirstStart ==
  \A c \in Callers :
    /\ pc[c] \in {"start", "mark", "spawn"} => ~Started(c)
    /\ Started(c) \/ Starting(c) => life[current] # "alive" \/ running[current]

(* The handle leads to the thread, from its assignment to the join. *)
Handled ==
  /\ \A w \in Callers : Started(w) =>
       \/ handle[of[w]] = w
       \/ pc[w] \in {"assign", "replace"}
       \/ at[w] = "ended"
  /\ \A w \in Callers : Alive(w) => life[of[w]] # "dead"
  /\ ~dead

ThreadInv == ~raced => OneStarts /\ Handled

(* What was queued is what has run, what runs and what waits. *)
HandFull == \A w \in Callers : hand[w] # <<>> <=> at[w] \in {"executing", "blocked"}
Line(p) ==
  /\ \A w \in Callers : Started(w) /\ of[w] = p => order[p] = done[p] \o hand[w] \o tasks[p]
  /\ (\A w \in Callers : Started(w) => of[w] # p) => done[p] = <<>> /\ order[p] = tasks[p]
Prefix(s, t) == Len(s) <= Len(t) /\ \A i \in 1..Len(s) : s[i] = t[i]
Distinct(s) == \A i, j \in 1..Len(s) : s[i] = s[j] => i = j
LineInv ==
  ~raced => \A p \in Publishers : Prefix(done[p], order[p]) /\ (life[p] # "dead" => Line(p))
OrderDistinct ==
  \A p \in Publishers :
    /\ Distinct(order[p])
    /\ \A i \in 1..Len(order[p]) : order[p][i][2] <= made[order[p][i][1]]

IInv ==
  /\ TypeOK /\ Called /\ SecondAbsent /\ FirstStart /\ ThreadInv /\ HandFull
  /\ LineInv /\ OrderDistinct
-----------------------------------------------------------------------------
LEMMA TaskFacts ==
  ASSUME NEW c \in Callers, NEW k \in 1..Calls[c]
  PROVE  <<c, k>> \in Tasks
<1>1. <<c, k>> \in {c} \X (1..Calls[c])
  OBVIOUS
<1>2. QED
  BY <1>1 DEF Tasks

LEMMA PushedTask ==
  ASSUME TypeOK, NEW c \in Callers, Push(c)
  PROVE  made[c] + 1 \in 1..Calls[c] /\ <<c, made[c] + 1>> \in Tasks
<1>0. made[c] \in Nat /\ Calls[c] \in Nat /\ made[c] < Calls[c]
  BY AsyncAssumption DEF TypeOK, Push
<1>1. made[c] + 1 \in 1..Calls[c]
  BY <1>0
<1>2. QED
  BY <1>1, TaskFacts

LEMMA TypeInit == Init => TypeOK
<1> SUFFICES ASSUME Init PROVE TypeOK
  OBVIOUS
<1>1. /\ tasks \in [Publishers -> Seq(Tasks)] /\ order \in [Publishers -> Seq(Tasks)]
      /\ done \in [Publishers -> Seq(Tasks)]
  BY DEF Init
<1>2. made \in [Callers -> Nat] /\ \A c \in Callers : made[c] <= Calls[c]
  BY AsyncAssumption DEF Init
<1>3. hand \in [Callers -> {<<>>} \cup {<<t>> : t \in Tasks}]
  BY DEF Init
<1>4. /\ current \in Publishers
      /\ life \in [Publishers -> {"absent", "alive", "stopped", "joining", "dead"}]
      /\ of \in [Callers -> Publishers]
  BY DEF Init, Publishers
<1>5. QED
  BY <1>1, <1>2, <1>3, <1>4 DEF Init, TypeOK

LEMMA TypeStep == TypeOK /\ HandFull /\ [Next]_vars => TypeOK'
<1> SUFFICES ASSUME TypeOK, HandFull, [Next]_vars PROVE TypeOK'
  OBVIOUS
<1> USE AsyncAssumption
<1>1. ASSUME NEW c \in Callers, Push(c) PROVE TypeOK'
  <2>1. made[c] + 1 \in 1..Calls[c] /\ <<c, made[c] + 1>> \in Tasks
    BY <1>1, PushedTask
  <2>2. tasks' \in [Publishers -> Seq(Tasks)] /\ order' \in [Publishers -> Seq(Tasks)]
    BY <1>1, <2>1 DEF TypeOK, Push
  <2>3. made' \in [Callers -> Nat] /\ \A d \in Callers : made'[d] <= Calls[d]
    BY <1>1, <2>1 DEF TypeOK, Push
  <2>4. future' \in [Tasks -> {"none", "pending", "ready", "broken"}]
    BY <1>1, <2>1 DEF TypeOK, Push
  <2>5. pc' \in [Callers -> {"idle", "notify", "test", "start", "mark", "spawn", "assign",
                            "replace"}]
    BY <1>1 DEF TypeOK, Push
  <2>6. QED
    BY <1>1, <2>2, <2>3, <2>4, <2>5 DEF TypeOK, Push, threadVars
<1>2. ASSUME NEW c \in Callers, NotifyOne(c) PROVE TypeOK'
  BY <1>2 DEF TypeOK, NotifyOne, Asleep, histories
<1>3. ASSUME NEW c \in Callers, TestRunning(c) PROVE TypeOK'
  BY <1>3 DEF TypeOK, TestRunning, threadVars, histories
<1>4. ASSUME NEW c \in Callers, MarkRunning(c) PROVE TypeOK'
  BY <1>4 DEF TypeOK, MarkRunning, threadVars
<1>5. ASSUME NEW c \in Callers, Spawn(c) PROVE TypeOK'
  <2>1. /\ pc' \in [Callers -> {"idle", "notify", "test", "start", "mark", "spawn", "assign",
                               "replace"}]
        /\ of' \in [Callers -> Publishers]
    <3>1. CASE pc' = [pc EXCEPT ![c] = "assign"] /\ of' = [of EXCEPT ![c] = current]
      BY <3>1 DEF TypeOK
    <3>2. CASE pc' = [pc EXCEPT ![c] = "idle"] /\ UNCHANGED of
      BY <3>2 DEF TypeOK
    <3>3. QED
      BY <1>5, <3>1, <3>2 DEF Spawn
  <2>2. at' \in [Callers -> {"none", "testing", "locking", "dozing", "asleep", "looping",
                             "executing", "blocked", "relocking", "ended"}]
    BY <1>5 DEF TypeOK, Spawn
  <2>3. failed' \in BOOLEAN
    BY <1>5 DEF TypeOK, Spawn
  <2>4. UNCHANGED <<current, life, tasks, running, handle, made, old, hand, future, dead, order,
                    done, raced, deaf, missed>>
    BY <1>5 DEF Spawn
  <2>5. QED
    BY <2>1, <2>2, <2>3, <2>4 DEF TypeOK
<1>6. ASSUME NEW c \in Callers, ReadHandle(c) PROVE TypeOK'
  BY <1>6 DEF TypeOK, ReadHandle, threadVars, histories
<1>7. ASSUME NEW c \in Callers, WriteHandle(c) PROVE TypeOK'
  BY <1>7 DEF TypeOK, WriteHandle, threadVars, histories
<1>8. ASSUME NEW w \in Callers, TestStop(w) PROVE TypeOK'
  BY <1>8 DEF TypeOK, TestStop, callerVars, histories
<1>9. ASSUME NEW w \in Callers, TestQueue(w) PROVE TypeOK'
  BY <1>9 DEF TypeOK, TestQueue, callerVars, histories
<1>10. ASSUME NEW w \in Callers, Sleep(w) \/ Disturb(w) \/ Relock(w) PROVE TypeOK'
  BY <1>10 DEF TypeOK, Sleep, Disturb, SpuriousWakeup, Block, Relock, callerVars, histories
<1>11. ASSUME NEW w \in Callers, Take(w) PROVE TypeOK'
  <2>1. /\ at' \in [Callers -> {"none", "testing", "locking", "dozing", "asleep", "looping",
                                "executing", "blocked", "relocking", "ended"}]
        /\ hand' \in [Callers -> {<<>>} \cup {<<t>> : t \in Tasks}]
        /\ tasks' \in [Publishers -> Seq(Tasks)]
    <3>1. CASE tasks[of[w]] # <<>> /\ running[of[w]]
      <4>1. Head(tasks[of[w]]) \in Tasks /\ Tail(tasks[of[w]]) \in Seq(Tasks)
        BY <3>1 DEF TypeOK
      <4>2. of[w] \in Publishers /\ tasks' = [tasks EXCEPT ![of[w]] = Tail(@)]
        BY <1>11, <3>1 DEF TypeOK, Take
      <4>3. tasks' \in [Publishers -> Seq(Tasks)]
        BY <4>1, <4>2 DEF TypeOK
      <4>4. hand' \in [Callers -> {<<>>} \cup {<<t>> : t \in Tasks}]
        <5> DEFINE item == <<Head(tasks[of[w]])>>
        <5>1. item \in {<<t>> : t \in Tasks}
          BY <4>1
        <5>2. hand' = [hand EXCEPT ![w] = item]
          BY <1>11, <3>1 DEF Take
        <5> HIDE DEF item
        <5>3. QED
          BY <5>1, <5>2 DEF TypeOK
      <4>5. at' = [at EXCEPT ![w] = "executing"]
        BY <1>11, <3>1 DEF Take
      <4>6. at' \in [Callers -> {"none", "testing", "locking", "dozing", "asleep", "looping",
                                "executing", "blocked", "relocking", "ended"}]
        BY <4>5 DEF TypeOK
      <4>7. QED
        BY <4>3, <4>4, <4>6
    <3>2. CASE ~(tasks[of[w]] # <<>> /\ running[of[w]])
      BY <1>11, <3>2 DEF TypeOK, Take
    <3>3. QED
      BY <3>1, <3>2
  <2>2. QED
    BY <1>11, <2>1 DEF TypeOK, Take, callerVars, histories
<1>12. ASSUME NEW w \in Callers, Execute(w) PROVE TypeOK'
  <2>1. Head(hand[w]) \in Tasks
    BY <1>12 DEF TypeOK, Execute, Runs, HandFull
  <2>2. done' \in [Publishers -> Seq(Tasks)] /\ future' \in [Tasks -> {"none", "pending", "ready", "broken"}]
    BY <1>12, <2>1 DEF TypeOK, Execute
  <2>3. QED
    BY <1>12, <2>1, <2>2 DEF TypeOK, Execute, callerVars
<1>13. ASSUME Move PROVE TypeOK'
  BY <1>13 DEF TypeOK, Move, Publishers, callerVars, threadVars
<1>14. ASSUME NEW p \in Publishers, StopAsync(p) PROVE TypeOK'
  BY <1>14 DEF TypeOK, StopAsync, callerVars, threadVars, histories
<1>15. ASSUME NEW p \in Publishers, NotifyAll(p) PROVE TypeOK'
  BY <1>15 DEF TypeOK, NotifyAll, callerVars
<1>16. ASSUME NEW p \in Publishers, Join(p) PROVE TypeOK'
  BY <1>16 DEF TypeOK, Join, callerVars, threadVars, histories
<1>17. CASE UNCHANGED vars
  BY <1>17 DEF TypeOK, vars, callerVars, threadVars, histories
<1>18. QED
  BY <1>1, <1>2, <1>3, <1>4, <1>5, <1>6, <1>7, <1>8, <1>9, <1>10, <1>11, <1>12, <1>13, <1>14,
     <1>15, <1>16, <1>17 DEF Next, CallStep, ThreadStep, Destroy
-----------------------------------------------------------------------------
LEMMA CalledInit == Init => Called /\ SecondAbsent
BY DEF Init, Called, SecondAbsent, Publishers

LEMMA CalledStep ==
  TypeOK /\ Called /\ SecondAbsent /\ [Next]_vars => Called' /\ SecondAbsent'
<1> SUFFICES ASSUME TypeOK, Called, SecondAbsent, [Next]_vars PROVE Called' /\ SecondAbsent'
  OBVIOUS
<1>1. ASSUME NEW c \in Callers, Push(c) PROVE Called' /\ SecondAbsent'
  BY <1>1 DEF TypeOK, Called, SecondAbsent, Push
<1>2. ASSUME NEW c \in Callers, CallStep(c) PROVE Called' /\ SecondAbsent'
  <2>1. life' = life /\ current' = current
    BY <1>2 DEF CallStep, NotifyOne, TestRunning, MarkRunning, Spawn, ReadHandle, WriteHandle
  <2>2. pc[c] # "idle" /\ \A d \in Callers : d # c => pc'[d] = pc[d]
    BY <1>2 DEF TypeOK, CallStep, NotifyOne, TestRunning, MarkRunning, Spawn, ReadHandle,
                WriteHandle
  <2>3. QED
    BY <2>1, <2>2 DEF Called, SecondAbsent
<1>3. ASSUME NEW w \in Callers, ThreadStep(w) \/ Disturb(w) PROVE Called' /\ SecondAbsent'
  BY <1>3 DEF ThreadStep, TestStop, TestQueue, Sleep, Disturb, SpuriousWakeup, Block, Take, Execute, Relock,
              callerVars, Called, SecondAbsent
<1>4. CASE Move
  BY <1>4 DEF TypeOK, Called, SecondAbsent, Move, NoCall, Publishers, callerVars
<1>5. ASSUME NEW p \in Publishers, StopAsync(p) PROVE Called' /\ SecondAbsent'
  BY <1>5 DEF TypeOK, Called, SecondAbsent, StopAsync, NoCall, callerVars
<1>6. ASSUME NEW p \in Publishers, NotifyAll(p) PROVE Called' /\ SecondAbsent'
  BY <1>6 DEF TypeOK, Called, SecondAbsent, NotifyAll, callerVars
<1>7. ASSUME NEW p \in Publishers, Join(p) PROVE Called' /\ SecondAbsent'
  BY <1>7 DEF TypeOK, Called, SecondAbsent, Join, callerVars
<1>8. CASE UNCHANGED vars
  BY <1>8 DEF vars, callerVars, Called, SecondAbsent
<1>9. QED
  BY <1>1, <1>2, <1>3, <1>4, <1>5, <1>6, <1>7, <1>8 DEF Next, Destroy
-----------------------------------------------------------------------------
LEMMA ThreadInit == Init => ThreadInv
BY DEF Init, ThreadInv, OneStarts, Handled, NothingStarted, Started, Starting, Alive

LEMMA RacedStays == [Next]_vars /\ raced => raced'
<1>1. ASSUME NEW c \in Callers, Push(c) \/ CallStep(c) PROVE raced => raced'
  BY <1>1 DEF Push, CallStep, NotifyOne, TestRunning, MarkRunning, Spawn, ReadHandle, WriteHandle,
              histories
<1>2. ASSUME NEW w \in Callers, ThreadStep(w) \/ Disturb(w) PROVE raced => raced'
  BY <1>2 DEF ThreadStep, TestStop, TestQueue, Sleep, Disturb, SpuriousWakeup, Block, Take, Execute, Relock,
              histories
<1>3. ASSUME NEW p \in Publishers, StopAsync(p) \/ Destroy(p) PROVE raced => raced'
  BY <1>3 DEF StopAsync, Destroy, NotifyAll, Join, histories
<1>4. CASE Move \/ UNCHANGED vars
  BY <1>4 DEF Move, vars, histories
<1>5. QED
  BY <1>1, <1>2, <1>3, <1>4 DEF Next

LEMMA ThreadStepInv == TypeOK /\ Called /\ SecondAbsent /\ ThreadInv /\ [Next]_vars => ThreadInv'
<1> SUFFICES ASSUME TypeOK, Called, SecondAbsent, ThreadInv, [Next]_vars, ~raced'
             PROVE  OneStarts' /\ Handled'
  BY DEF ThreadInv
<1> USE DEF Started, Starting, NothingStarted, Alive
<1>0. ~raced /\ OneStarts /\ Handled
  BY RacedStays DEF ThreadInv
<1>1. ASSUME NEW c \in Callers, Push(c) PROVE OneStarts' /\ Handled'
  BY <1>0, <1>1 DEF TypeOK, OneStarts, Handled, Push, threadVars
<1>2. ASSUME NEW c \in Callers, NotifyOne(c) PROVE OneStarts' /\ Handled'
  <2>1. \A v \in Callers : at'[v] = at[v] \/ (Alive(v) /\ at'[v] # "none")
    BY <1>2 DEF TypeOK, NotifyOne, Asleep
  <2>3. \A d \in Callers : pc'[d] = pc[d] \/ (pc'[d] = "test" /\ pc[d] = "notify")
    BY <1>2 DEF TypeOK, NotifyOne
  <2>4. UNCHANGED <<life, current, running, handle, old, of, dead>>
    BY <1>2 DEF NotifyOne
  <2>5. QED
    BY <1>0, <2>1, <2>3, <2>4 DEF OneStarts, Handled
<1>3. ASSUME NEW c \in Callers, TestRunning(c) PROVE OneStarts' /\ Handled'
  BY <1>0, <1>3 DEF TypeOK, OneStarts, Handled, TestRunning, threadVars
<1>4. ASSUME NEW c \in Callers, MarkRunning(c) PROVE OneStarts' /\ Handled'
  <2>1. ~running[current] /\ life[current] = "alive"
    BY <1>0, <1>4 DEF MarkRunning, Called
  <2>2. \A d \in Callers : ~Starting(d)
    BY <1>0, <2>1 DEF OneStarts
  <2>3. NothingStarted
    BY <1>0, <2>1 DEF OneStarts
  <2>4. QED
    BY <1>0, <1>4, <2>2, <2>3 DEF TypeOK, OneStarts, Handled, MarkRunning, threadVars
<1>5. ASSUME NEW c \in Callers, Spawn(c) PROVE OneStarts' /\ Handled'
  <2>1. NothingStarted /\ running[current] /\ life[current] = "alive"
    BY <1>0, <1>5 DEF OneStarts, Spawn, Called
  <2>2. \A d \in Callers : Starting(d) => d = c
    BY <1>0, <1>5 DEF OneStarts, Spawn
  <2>3. UNCHANGED <<current, life, running, handle, old, dead>>
    BY <1>5 DEF Spawn
  <2>4. CASE UNCHANGED <<at, of>> /\ pc' = [pc EXCEPT ![c] = "idle"]
    <3>1. \A d \in Callers : d # c => pc'[d] = pc[d]
      BY <2>4 DEF TypeOK
    <3>2. pc'[c] = "idle"
      BY <2>4 DEF TypeOK
    <3>3. OneStarts'
      BY <1>0, <2>1, <2>2, <2>3, <2>4, <3>1, <3>2 DEF OneStarts
    <3>4. Handled'
      BY <1>0, <2>1, <2>3, <2>4 DEF Handled
    <3>5. QED
      BY <3>3, <3>4
  <2>5. CASE /\ at' = [at EXCEPT ![c] = "testing"] /\ of' = [of EXCEPT ![c] = current]
             /\ pc' = [pc EXCEPT ![c] = "assign"]
    BY <1>0, <2>1, <2>2, <2>3, <2>5 DEF TypeOK, OneStarts, Handled
  <2>6. QED
    BY <1>5, <2>4, <2>5 DEF Spawn
<1>6. ASSUME NEW c \in Callers, ReadHandle(c) PROVE OneStarts' /\ Handled'
  BY <1>0, <1>6 DEF TypeOK, OneStarts, Handled, ReadHandle, threadVars
<1>7. ASSUME NEW c \in Callers, WriteHandle(c) PROVE OneStarts' /\ Handled'
  <2>1. running[current] /\ of[c] = current /\ Started(c) /\ old[c] = None
    BY <1>0, <1>7 DEF OneStarts, WriteHandle
  <2>2. \A d \in Callers : Starting(d) \/ Started(d) => d = c
    BY <1>0, <1>7, <2>1 DEF OneStarts, WriteHandle
  <2>3. QED
    BY <1>0, <1>7, <2>1, <2>2 DEF TypeOK, OneStarts, Handled, WriteHandle, threadVars
<1>8. ASSUME NEW w \in Callers, ThreadStep(w) \/ Disturb(w) PROVE OneStarts' /\ Handled'
  <2>1. \A v \in Callers : at'[v] = at[v] \/ (Alive(v) /\ at'[v] # "none")
    BY <1>8 DEF TypeOK, ThreadStep, TestStop, TestQueue, Sleep, Disturb, SpuriousWakeup, Block, Take, Execute,
                Relock, Runs
  <2>2. UNCHANGED <<life, current, running, handle, pc, old, of, dead>>
    BY <1>8 DEF ThreadStep, TestStop, TestQueue, Sleep, Disturb, SpuriousWakeup, Block, Take, Execute, Relock,
                callerVars
  <2>3. QED
    BY <1>0, <2>1, <2>2 DEF OneStarts, Handled
<1>11. CASE Move
  <2>1. ~running[1] => NothingStarted
    BY <1>0, <1>11 DEF OneStarts, Move
  <2>2. QED
    BY <1>0, <1>11, <2>1 DEF TypeOK, OneStarts, Handled, Move, NoCall, Publishers, callerVars,
                             threadVars
<1>12. ASSUME NEW p \in Publishers, StopAsync(p) PROVE OneStarts' /\ Handled'
  <2>1. p = current => \A d \in Callers : ~Starting(d)
    BY <1>12 DEF StopAsync, NoCall
  <2>2. QED
    BY <1>0, <1>12, <2>1 DEF TypeOK, OneStarts, Handled, StopAsync, callerVars, threadVars
<1>13. ASSUME NEW p \in Publishers, NotifyAll(p) PROVE OneStarts' /\ Handled'
  BY <1>0, <1>13 DEF TypeOK, OneStarts, Handled, NotifyAll, Asleep, callerVars
<1>14. ASSUME NEW p \in Publishers, Join(p) PROVE OneStarts' /\ Handled'
  <2>1. \A w \in Callers : Started(w) /\ of[w] = p => at[w] = "ended"
    <3> SUFFICES ASSUME NEW w \in Callers, Started(w), of[w] = p PROVE at[w] = "ended"
      OBVIOUS
    <3>1. CASE handle[p] = w
      BY <1>14, <3>1, AsyncAssumption DEF Join
    <3>2. CASE pc[w] \in {"assign", "replace"}
      BY <1>0, <1>14, <3>2 DEF OneStarts, Join, Called
    <3>3. QED
      BY <1>0, <3>1, <3>2 DEF Handled
  <2>2. OneStarts'
    BY <1>0, <1>14 DEF TypeOK, OneStarts, Join, callerVars, threadVars
  <2>3. QED
    BY <1>0, <1>14, <2>1, <2>2 DEF TypeOK, Handled, Join, callerVars, threadVars
<1>15. CASE UNCHANGED vars
  BY <1>0, <1>15 DEF OneStarts, Handled, vars, callerVars, threadVars
<1>16. QED
  BY <1>1, <1>2, <1>3, <1>4, <1>5, <1>6, <1>7, <1>8, <1>11, <1>12, <1>13, <1>14, <1>15
  DEF Next, CallStep, Destroy
-----------------------------------------------------------------------------
LEMMA FirstInit == Init => FirstStart
BY DEF Init, FirstStart, Started, Starting

LEMMA FirstStep == TypeOK /\ Called /\ SecondAbsent /\ FirstStart /\ [Next]_vars => FirstStart'
<1> SUFFICES ASSUME TypeOK, Called, SecondAbsent, FirstStart, [Next]_vars PROVE FirstStart'
  OBVIOUS
<1> USE DEF Started, Starting, FirstStart
<1>1. ASSUME NEW c \in Callers, Push(c) PROVE FirstStart'
  BY <1>1 DEF TypeOK, Push, threadVars
<1>2. ASSUME NEW c \in Callers, NotifyOne(c) PROVE FirstStart'
  <2>1. \A v \in Callers : at'[v] = "none" <=> at[v] = "none"
    BY <1>2 DEF TypeOK, NotifyOne, Asleep
  <2>2. \A d \in Callers : pc'[d] = pc[d] \/ pc'[d] = "test"
    BY <1>2 DEF TypeOK, NotifyOne
  <2>3. UNCHANGED <<life, current, running>>
    BY <1>2 DEF NotifyOne
  <2>4. QED
    BY <2>1, <2>2, <2>3
<1>3. ASSUME NEW c \in Callers, TestRunning(c) PROVE FirstStart'
  BY <1>3 DEF TypeOK, TestRunning, Called, threadVars
<1>4. ASSUME NEW c \in Callers, MarkRunning(c) PROVE FirstStart'
  BY <1>4 DEF TypeOK, MarkRunning, threadVars
<1>5. ASSUME NEW c \in Callers, Spawn(c) PROVE FirstStart'
  BY <1>5 DEF TypeOK, Spawn
<1>6. ASSUME NEW c \in Callers, ReadHandle(c) PROVE FirstStart'
  BY <1>6 DEF TypeOK, ReadHandle, threadVars
<1>7. ASSUME NEW c \in Callers, WriteHandle(c) PROVE FirstStart'
  BY <1>7 DEF TypeOK, WriteHandle, threadVars
<1>8. ASSUME NEW w \in Callers, ThreadStep(w) \/ Disturb(w) PROVE FirstStart'
  <2>1. \A v \in Callers : at'[v] = "none" <=> at[v] = "none"
    BY <1>8 DEF TypeOK, ThreadStep, TestStop, TestQueue, Sleep, Disturb, SpuriousWakeup, Block, Take, Execute,
                Relock, Runs
  <2>2. UNCHANGED <<life, current, running, pc>>
    BY <1>8 DEF ThreadStep, TestStop, TestQueue, Sleep, Disturb, SpuriousWakeup, Block, Take, Execute, Relock,
                callerVars
  <2>3. QED
    BY <2>1, <2>2
<1>9. CASE Move
  BY <1>9 DEF TypeOK, Move, NoCall, Publishers, callerVars, threadVars
<1>10. ASSUME NEW p \in Publishers, StopAsync(p) PROVE FirstStart'
  BY <1>10 DEF TypeOK, StopAsync, callerVars, threadVars
<1>11. ASSUME NEW p \in Publishers, NotifyAll(p) PROVE FirstStart'
  BY <1>11 DEF TypeOK, NotifyAll, Asleep, callerVars
<1>12. ASSUME NEW p \in Publishers, Join(p) PROVE FirstStart'
  BY <1>12 DEF TypeOK, Join, callerVars, threadVars
<1>13. CASE UNCHANGED vars
  BY <1>13 DEF vars, callerVars, threadVars
<1>14. QED
  BY <1>1, <1>2, <1>3, <1>4, <1>5, <1>6, <1>7, <1>8, <1>9, <1>10, <1>11, <1>12, <1>13
  DEF Next, CallStep, Destroy
-----------------------------------------------------------------------------
LEMMA HandInit == Init => HandFull
BY DEF Init, HandFull

LEMMA HandStep == TypeOK /\ FirstStart /\ HandFull /\ [Next]_vars => HandFull'
<1> SUFFICES ASSUME TypeOK, FirstStart, HandFull, [Next]_vars PROVE HandFull'
  OBVIOUS
<1> USE DEF HandFull
<1>1. ASSUME NEW c \in Callers, Push(c) PROVE HandFull'
  BY <1>1 DEF Push, threadVars
<1>2. ASSUME NEW c \in Callers, NotifyOne(c) PROVE HandFull'
  <2>1. \A v \in Callers : at'[v] \in {"executing", "blocked"} <=> at[v] \in {"executing", "blocked"}
    BY <1>2 DEF TypeOK, NotifyOne, Asleep
  <2>2. hand' = hand
    BY <1>2 DEF NotifyOne
  <2>3. QED
    BY <2>1, <2>2
<1>3. ASSUME NEW c \in Callers, Spawn(c) PROVE HandFull'
  BY <1>3 DEF TypeOK, Spawn, FirstStart, Started
<1>4. ASSUME NEW c \in Callers,
             TestRunning(c) \/ MarkRunning(c) \/ ReadHandle(c) \/ WriteHandle(c)
      PROVE  HandFull'
  BY <1>4 DEF TestRunning, MarkRunning, ReadHandle, WriteHandle, threadVars
<1>5. ASSUME NEW w \in Callers, TestStop(w) \/ TestQueue(w) \/ Sleep(w) \/ Disturb(w)
                                \/ Relock(w)
      PROVE  HandFull'
  <2>1. \A v \in Callers : at'[v] \in {"executing", "blocked"} <=> at[v] \in {"executing", "blocked"}
    BY <1>5 DEF TypeOK, TestStop, TestQueue, Sleep, Disturb, SpuriousWakeup, Block, Relock, Runs
  <2>2. hand' = hand
    BY <1>5 DEF TestStop, TestQueue, Sleep, Disturb, SpuriousWakeup, Block, Relock
  <2>3. QED
    BY <2>1, <2>2
<1>6. ASSUME NEW w \in Callers, Take(w) PROVE HandFull'
  <2>1. CASE tasks[of[w]] # <<>> /\ running[of[w]]
    <3>1. /\ hand' = [hand EXCEPT ![w] = <<Head(tasks[of[w]])>>]
          /\ at' = [at EXCEPT ![w] = "executing"]
      BY <1>6, <2>1 DEF Take
    <3>2. <<Head(tasks[of[w]])>> # <<>>
      OBVIOUS
    <3>3. QED
      BY <3>1, <3>2 DEF TypeOK
  <2>2. CASE ~(tasks[of[w]] # <<>> /\ running[of[w]])
    BY <1>6, <2>2 DEF TypeOK, Take, Runs
  <2>3. QED
    BY <2>1, <2>2
<1>7. ASSUME NEW w \in Callers, Execute(w) PROVE HandFull'
  BY <1>7 DEF TypeOK, Execute
<1>8. ASSUME NEW p \in Publishers, NotifyAll(p) PROVE HandFull'
  BY <1>8 DEF TypeOK, NotifyAll, Asleep
<1>9. ASSUME NEW p \in Publishers, Move \/ StopAsync(p) \/ Join(p) PROVE HandFull'
  BY <1>9 DEF Move, StopAsync, Join, threadVars
<1>10. CASE UNCHANGED vars
  BY <1>10 DEF vars, threadVars
<1>11. QED
  BY <1>1, <1>2, <1>3, <1>4, <1>5, <1>6, <1>7, <1>8, <1>9, <1>10
  DEF Next, CallStep, ThreadStep, Destroy, Publishers
-----------------------------------------------------------------------------
(* The three ways the line moves on. *)
LEMMA Queued ==
  ASSUME NEW e \in Tasks, NEW d \in Seq(Tasks), NEW h \in Seq(Tasks), NEW t \in Seq(Tasks)
  PROVE  Append(d \o h \o t, e) = d \o h \o Append(t, e)
<1>1. d \o h \in Seq(Tasks) /\ (d \o h) \o t \in Seq(Tasks) /\ <<e>> \in Seq(Tasks)
  OBVIOUS
<1>2. (d \o h \o t) \o <<e>> = d \o h \o (t \o <<e>>)
  BY <1>1, ConcatAssociative
<1>3. QED
  BY <1>1, <1>2, AppendIsConcat

LEMMA Taken ==
  ASSUME NEW S, NEW d \in Seq(S), NEW t \in Seq(S), t # <<>>
  PROVE  d \o <<>> \o t = d \o <<Head(t)>> \o Tail(t)
<1>1. <<Head(t)>> \o Tail(t) = t /\ Head(t) \in S /\ Tail(t) \in Seq(S)
  OBVIOUS
<1>2. d \o <<Head(t)>> \o Tail(t) = d \o (<<Head(t)>> \o Tail(t))
  BY <1>1
<1>3. d \o <<>> = d
  OBVIOUS
<1>4. QED
  BY <1>1, <1>2, <1>3

LEMMA Finished ==
  ASSUME NEW S, NEW d \in Seq(S), NEW e \in S, NEW t \in Seq(S)
  PROVE  d \o <<e>> \o t = Append(d, e) \o <<>> \o t
<1>1. d \o <<e>> = Append(d, e) /\ Append(d, e) \in Seq(S)
  OBVIOUS
<1>2. Append(d, e) \o <<>> = Append(d, e)
  BY <1>1
<1>3. QED
  BY <1>1, <1>2

LEMMA FrontIsPrefix ==
  ASSUME NEW S, NEW d \in Seq(S), NEW h \in Seq(S), NEW t \in Seq(S)
  PROVE  Prefix(d, d \o h \o t)
BY DEF Prefix

LEMMA LineSeqs ==
  ASSUME TypeOK, NEW p \in Publishers, NEW w \in Callers
  PROVE  /\ order[p] \in Seq(Tasks) /\ done[p] \in Seq(Tasks) /\ tasks[p] \in Seq(Tasks)
         /\ hand[w] \in Seq(Tasks)
<1>1. hand[w] \in {<<>>} \cup {<<t>> : t \in Tasks}
  BY DEF TypeOK
<1>2. hand[w] = <<>> => hand[w] \in Seq(Tasks)
  OBVIOUS
<1>3. ASSUME NEW t \in Tasks, hand[w] = <<t>> PROVE hand[w] \in Seq(Tasks)
  BY <1>3
<1>4. QED
  BY <1>1, <1>2, <1>3 DEF TypeOK

LinesBegin == \A p \in Publishers : Line(p) => Prefix(done[p], order[p])

LEMMA LinePrefix == TypeOK => LinesBegin
<1> SUFFICES ASSUME TypeOK, NEW p \in Publishers, Line(p) PROVE Prefix(done[p], order[p])
  BY DEF LinesBegin
<1>1. CASE \E w \in Callers : Started(w) /\ of[w] = p
  <2>1. PICK w \in Callers : Started(w) /\ of[w] = p
    BY <1>1
  <2>2. order[p] = done[p] \o hand[w] \o tasks[p]
    BY <2>1 DEF Line
  <2>3. QED
    BY <2>2, LineSeqs, FrontIsPrefix
<1>2. CASE \A w \in Callers : Started(w) => of[w] # p
  <2>1. done[p] = <<>>
    BY <1>2 DEF Line
  <2>2. QED
    BY <2>1, LineSeqs DEF Prefix
<1>3. QED
  BY <1>1, <1>2

LEMMA LineInit == Init => LineInv
<1> SUFFICES ASSUME Init, NEW p \in Publishers PROVE Prefix(done[p], order[p]) /\ Line(p)
  BY DEF LineInv
<1>1. Line(p)
  BY DEF Init, Line, Started
<1>2. QED
  BY <1>1, TypeInit, LinePrefix DEF LinesBegin

LEMMA LineStep ==
  TypeOK /\ SecondAbsent /\ FirstStart /\ ThreadInv /\ HandFull /\ LineInv /\ [Next]_vars
    => LineInv'
<1> SUFFICES ASSUME TypeOK, SecondAbsent, FirstStart, ThreadInv, HandFull, LineInv,
                    [Next]_vars, ~raced', NEW p \in Publishers
             PROVE  Prefix(done'[p], order'[p]) /\ (life'[p] # "dead" => Line(p)')
  BY DEF LineInv
<1>0. ~raced /\ OneStarts /\ Handled
  BY RacedStays DEF ThreadInv
<1>1. Prefix(done[p], order[p]) /\ (life[p] # "dead" => Line(p))
  BY <1>0 DEF LineInv
<1>2. Line(p)' => Prefix(done'[p], order'[p])
  <2>1. LinesBegin'
    BY TypeStep, LinePrefix, PTL
  <2>2. QED
    BY <2>1 DEF LinesBegin
<1>3. ASSUME NEW c \in Callers, Push(c) PROVE life'[p] # "dead" => Line(p)'
  <2>1. CASE p = current
    <3>1. PICK item \in Tasks : item = <<c, made[c] + 1>>
      BY <1>3, PushedTask
    <3>2. /\ tasks'[p] = Append(tasks[p], item) /\ order'[p] = Append(order[p], item)
          /\ life[p] = "alive" /\ UNCHANGED <<at, of, hand, done>>
      <4>1. /\ tasks' = [tasks EXCEPT ![current] = Append(@, item)]
            /\ order' = [order EXCEPT ![current] = Append(@, item)]
            /\ life[current] = "alive" /\ UNCHANGED <<at, of, hand, done>>
        BY <1>3, <3>1 DEF Push, threadVars
      <4>2. QED
        BY <2>1, <4>1 DEF TypeOK
    <3>3. ASSUME NEW w \in Callers, Started(w), of[w] = p
          PROVE  order'[p] = done[p] \o hand[w] \o tasks'[p]
      <4>1. order[p] = done[p] \o hand[w] \o tasks[p]
        BY <1>1, <3>2, <3>3 DEF Line
      <4>2. Append(done[p] \o hand[w] \o tasks[p], item) = done[p] \o hand[w] \o Append(tasks[p], item)
        <5>1. done[p] \in Seq(Tasks) /\ hand[w] \in Seq(Tasks) /\ tasks[p] \in Seq(Tasks)
          BY LineSeqs
        <5>2. QED
          BY <5>1, Queued
      <4>3. QED
        BY <3>2, <4>1, <4>2
    <3>4. QED
      BY <1>1, <3>2, <3>3 DEF Line, Started
  <2>2. CASE p # current
    BY <1>1, <1>3, <2>2 DEF TypeOK, Push, threadVars, Line, Started
  <2>3. QED
    BY <2>1, <2>2
<1>4. ASSUME NEW c \in Callers, NotifyOne(c) PROVE life'[p] # "dead" => Line(p)'
  <2>1. \A w \in Callers : at'[w] = "none" <=> at[w] = "none"
    BY <1>4 DEF TypeOK, NotifyOne, Asleep
  <2>2. UNCHANGED <<life, of, hand, order, done, tasks>>
    BY <1>4 DEF NotifyOne, histories
  <2>3. QED
    BY <1>1, <2>1, <2>2 DEF Line, Started
<1>5. ASSUME NEW c \in Callers, Spawn(c) PROVE life'[p] # "dead" => Line(p)'
  <2>1. \A w \in Callers : ~Started(w)
    BY <1>0, <1>5 DEF OneStarts, Spawn, NothingStarted
  <2>2. hand[c] = <<>>
    BY <2>1 DEF HandFull, Started
  <2>3. life[p] # "dead" => done[p] = <<>> /\ order[p] = tasks[p]
    BY <1>1, <2>1 DEF Line
  <2>4. <<>> \o <<>> \o tasks[p] = tasks[p]
    BY LineSeqs, ConcatEmptySeq
  <2>5. \A w \in Callers : w # c => at'[w] = "none"
    BY <1>5, <2>1 DEF TypeOK, Spawn, Started
  <2>6. UNCHANGED <<life, hand, order, done, tasks>>
    BY <1>5 DEF Spawn
  <2>7. QED
    BY <2>2, <2>3, <2>4, <2>5, <2>6 DEF Line, Started
<1>6. ASSUME NEW c \in Callers,
             TestRunning(c) \/ MarkRunning(c) \/ ReadHandle(c) \/ WriteHandle(c)
      PROVE  life'[p] # "dead" => Line(p)'
  BY <1>1, <1>6 DEF TestRunning, MarkRunning, ReadHandle, WriteHandle, threadVars, histories, Line,
                    Started
<1>7. ASSUME NEW w \in Callers, TestStop(w) \/ TestQueue(w) \/ Sleep(w) \/ Disturb(w)
                                \/ Relock(w)
      PROVE  life'[p] # "dead" => Line(p)'
  <2>1. \A v \in Callers : at'[v] = "none" <=> at[v] = "none"
    BY <1>7 DEF TypeOK, TestStop, TestQueue, Sleep, Disturb, SpuriousWakeup, Block, Relock, Runs
  <2>2. UNCHANGED <<life, of, hand, order, done, tasks>>
    BY <1>7 DEF TestStop, TestQueue, Sleep, Disturb, SpuriousWakeup, Block, Relock, histories
  <2>3. QED
    BY <1>1, <2>1, <2>2 DEF Line, Started
<1>8. ASSUME NEW w \in Callers, Take(w) PROVE life'[p] # "dead" => Line(p)'
  <2>1. Started(w) /\ hand[w] = <<>> /\ \A v \in Callers : Started(v) => v = w
    BY <1>0, <1>8 DEF Take, Runs, HandFull, Started, OneStarts
  <2>2. \A v \in Callers : at'[v] = "none" <=> at[v] = "none"
    BY <1>8 DEF TypeOK, Take, Runs
  <2>3. UNCHANGED <<life, of, order, done>>
    BY <1>8 DEF Take, histories
  <2>4. CASE of[w] = p /\ tasks[p] # <<>> /\ running[p]
    <3>1. hand'[w] = <<Head(tasks[p])>> /\ tasks'[p] = Tail(tasks[p])
      BY <1>8, <2>4 DEF TypeOK, Take
    <3>2. life[p] # "dead" => order[p] = done[p] \o <<>> \o tasks[p]
      BY <1>1, <2>1, <2>4 DEF Line
    <3>3. done[p] \o <<>> \o tasks[p] = done[p] \o <<Head(tasks[p])>> \o Tail(tasks[p])
      BY <2>4, LineSeqs, Taken
    <3>4. QED
      BY <2>1, <2>2, <2>3, <2>4, <3>1, <3>2, <3>3 DEF Line, Started
  <2>5. CASE ~(of[w] = p /\ tasks[p] # <<>> /\ running[p])
    <3>1. tasks'[p] = tasks[p] /\ (of[w] = p => hand'[w] = hand[w])
      BY <1>8, <2>5 DEF TypeOK, Take
    <3>2. QED
      BY <1>1, <2>1, <2>2, <2>3, <3>1 DEF Line, Started
  <2>6. QED
    BY <2>4, <2>5
<1>9. ASSUME NEW w \in Callers, Execute(w) PROVE life'[p] # "dead" => Line(p)'
  <2>1. Started(w) /\ \A v \in Callers : Started(v) => v = w
    BY <1>0, <1>9 DEF Execute, Runs, Started, OneStarts
  <2>2. PICK t \in Tasks : hand[w] = <<t>>
    BY <1>9 DEF TypeOK, Execute, Runs, HandFull
  <2>3. \A v \in Callers : at'[v] = "none" <=> at[v] = "none"
    BY <1>9 DEF TypeOK, Execute, Runs
  <2>4. UNCHANGED <<life, of, order, tasks>>
    BY <1>9 DEF Execute
  <2>5. CASE of[w] = p
    <3>1. hand'[w] = <<>> /\ done'[p] = Append(done[p], t)
      BY <1>9, <2>2, <2>5 DEF TypeOK, Execute
    <3>2. done[p] \o <<t>> \o tasks[p] = Append(done[p], t) \o <<>> \o tasks[p]
      <4>1. done[p] \in Seq(Tasks) /\ tasks[p] \in Seq(Tasks)
        BY LineSeqs
      <4>2. \A d, u \in Seq(Tasks) : d \o <<t>> \o u = Append(d, t) \o <<>> \o u
        BY Finished
      <4>3. QED
        BY <4>1, <4>2
    <3>3. QED
      <4>1. life[p] # "dead" => order[p] = done[p] \o <<t>> \o tasks[p]
        BY <1>1, <2>1, <2>2, <2>5 DEF Line
      <4>2. life'[p] # "dead" => order'[p] = done'[p] \o hand'[w] \o tasks'[p]
        BY <2>4, <3>1, <3>2, <4>1
      <4>3. QED
        BY <2>1, <2>3, <2>4, <2>5, <4>2 DEF Line, Started
  <2>6. CASE of[w] # p
    <3>1. done'[p] = done[p]
      BY <1>9, <2>6 DEF TypeOK, Execute
    <3>2. QED
      BY <1>1, <2>1, <2>3, <2>4, <2>6, <3>1 DEF Line, Started
  <2>7. QED
    BY <2>5, <2>6
<1>10. CASE Move
  <2>1. UNCHANGED <<at, of, hand, order, done, tasks>>
    BY <1>10 DEF Move, threadVars
  <2>2. life'[p] # "dead" => life[p] # "dead"
    BY <1>10 DEF TypeOK, Move, SecondAbsent
  <2>3. QED
    BY <1>1, <2>1, <2>2 DEF Line, Started
<1>11. ASSUME NEW q \in Publishers, StopAsync(q) PROVE life'[p] # "dead" => Line(p)'
  BY <1>1, <1>11 DEF TypeOK, StopAsync, threadVars, histories, Line, Started
<1>12. ASSUME NEW q \in Publishers, NotifyAll(q) PROVE life'[p] # "dead" => Line(p)'
  <2>1. \A w \in Callers : at'[w] = "none" <=> at[w] = "none"
    BY <1>12 DEF TypeOK, NotifyAll, Asleep
  <2>2. UNCHANGED <<of, hand, order, done, tasks>> /\ (life'[p] # "dead" => life[p] # "dead")
    BY <1>12 DEF TypeOK, NotifyAll
  <2>3. QED
    BY <1>1, <2>1, <2>2 DEF Line, Started
<1>13. ASSUME NEW q \in Publishers, Join(q) PROVE life'[p] # "dead" => Line(p)'
  BY <1>1, <1>13 DEF TypeOK, Join, threadVars, histories, Line, Started
<1>14. CASE UNCHANGED vars
  BY <1>1, <1>14 DEF vars, threadVars, histories, Line, Started
<1>15. life'[p] # "dead" => Line(p)'
  BY <1>3, <1>4, <1>5, <1>6, <1>7, <1>8, <1>9, <1>10, <1>11, <1>12, <1>13, <1>14
  DEF Next, CallStep, ThreadStep, Destroy
<1>16. life'[p] = "dead" => done'[p] = done[p] /\ order'[p] = order[p]
  <2>1. ASSUME NEW c \in Callers, Push(c), life'[p] = "dead"
        PROVE  done'[p] = done[p] /\ order'[p] = order[p]
    BY <2>1 DEF TypeOK, Push
  <2>2. ASSUME NEW w \in Callers, Execute(w), life'[p] = "dead"
        PROVE  done'[p] = done[p] /\ order'[p] = order[p]
    BY <2>2 DEF TypeOK, Execute, Runs
  <2>3. ASSUME NEW c \in Callers, CallStep(c) PROVE UNCHANGED <<order, done>>
    BY <2>3 DEF CallStep, NotifyOne, TestRunning, MarkRunning, Spawn, ReadHandle, WriteHandle,
                histories
  <2>4. ASSUME NEW w \in Callers, ThreadStep(w) \/ Disturb(w), ~Execute(w)
        PROVE  UNCHANGED <<order, done>>
    BY <2>4 DEF ThreadStep, TestStop, TestQueue, Sleep, Disturb, SpuriousWakeup, Block, Take, Relock, histories
  <2>5. ASSUME NEW q \in Publishers, StopAsync(q) \/ Destroy(q) PROVE UNCHANGED <<order, done>>
    BY <2>5 DEF StopAsync, Destroy, NotifyAll, Join, histories
  <2>6. CASE Move \/ UNCHANGED vars
    BY <2>6 DEF Move, vars, histories
  <2>7. QED
    BY <2>1, <2>2, <2>3, <2>4, <2>5, <2>6 DEF Next
<1>17. QED
  BY <1>1, <1>2, <1>15, <1>16
-----------------------------------------------------------------------------
LEMMA OrderInit == Init => OrderDistinct
BY DEF Init, OrderDistinct, Distinct

LEMMA OrderStep == TypeOK /\ OrderDistinct /\ [Next]_vars => OrderDistinct'
<1> SUFFICES ASSUME TypeOK, OrderDistinct, [Next]_vars PROVE OrderDistinct'
  OBVIOUS
<1>1. ASSUME NEW c \in Callers, Push(c) PROVE OrderDistinct'
  <2> SUFFICES ASSUME NEW p \in Publishers
               PROVE  /\ Distinct(order'[p])
                      /\ \A i \in 1..Len(order'[p]) : order'[p][i][2] <= made'[order'[p][i][1]]
    BY DEF OrderDistinct
  <2>0. /\ made \in [Callers -> Nat] /\ made' = [made EXCEPT ![c] = @ + 1]
        /\ order[p] \in Seq(Tasks)
    BY <1>1 DEF TypeOK, Push
  <2>1. /\ Distinct(order[p])
        /\ \A i \in 1..Len(order[p]) : order[p][i][2] <= made[order[p][i][1]]
    BY DEF OrderDistinct
  <2>2. \A i \in 1..Len(order[p]) : order[p][i][1] \in Callers /\ order[p][i][2] \in Nat
    BY <2>0, AsyncAssumption DEF Tasks
  <2>3. \A i \in 1..Len(order[p]) : order[p][i][2] <= made'[order[p][i][1]]
    <3> SUFFICES ASSUME NEW i \in 1..Len(order[p])
                 PROVE  order[p][i][2] <= made'[order[p][i][1]]
      OBVIOUS
    <3>1. PICK d \in Callers : d = order[p][i][1]
      BY <2>2
    <3>2. made[d] <= made'[d] /\ made[d] \in Nat /\ made'[d] \in Nat
      BY <2>0
    <3>3. QED
      BY <2>1, <2>2, <3>1, <3>2
  <2>4. CASE p # current
    <3>1. order'[p] = order[p]
      BY <1>1, <2>4 DEF TypeOK, Push
    <3>2. QED
      BY <2>1, <2>3, <3>1
  <2>5. CASE p = current
    <3>1. PICK item \in Tasks : item = <<c, made[c] + 1>>
      BY <1>1, PushedTask
    <3>2. order'[p] = Append(order[p], item)
      BY <1>1, <2>5, <3>1 DEF TypeOK, Push
    <3>3. \A i \in 1..Len(order[p]) : order[p][i] # item
      BY <2>0, <2>1, <3>1
    <3>4. item[1] = c /\ item[2] = made'[c]
      BY <2>0, <3>1
    <3>5. /\ Len(order'[p]) = Len(order[p]) + 1 /\ order'[p][Len(order[p]) + 1] = item
          /\ \A i \in 1..Len(order[p]) : order'[p][i] = order[p][i]
      BY <2>0, <3>2
    <3>6. Len(order[p]) \in Nat
      BY <2>0
    <3>7. Distinct(order'[p])
      BY <2>1, <3>3, <3>5, <3>6 DEF Distinct
    <3>8. \A i \in 1..Len(order'[p]) : order'[p][i][2] <= made'[order'[p][i][1]]
      <4> SUFFICES ASSUME NEW i \in 1..Len(order'[p])
                   PROVE  order'[p][i][2] <= made'[order'[p][i][1]]
        OBVIOUS
      <4>1. CASE i \in 1..Len(order[p])
        BY <2>3, <3>5, <4>1
      <4>2. CASE i = Len(order[p]) + 1
        <5>1. made'[c] \in Nat
          BY <2>0
        <5>2. QED
          BY <3>4, <3>5, <4>2, <5>1
      <4>3. QED
        BY <3>5, <3>6, <4>1, <4>2
    <3>9. QED
      BY <3>7, <3>8
  <2>6. QED
    BY <2>4, <2>5
<1>2. ASSUME NEW c \in Callers, CallStep(c) PROVE UNCHANGED <<order, made>>
  BY <1>2 DEF CallStep, NotifyOne, TestRunning, MarkRunning, Spawn, ReadHandle, WriteHandle,
              histories
<1>3. ASSUME NEW w \in Callers, ThreadStep(w) \/ Disturb(w) PROVE UNCHANGED <<order, made>>
  BY <1>3 DEF ThreadStep, TestStop, TestQueue, Sleep, Disturb, SpuriousWakeup, Block, Take, Execute, Relock,
              callerVars, histories
<1>4. ASSUME NEW q \in Publishers, StopAsync(q) \/ Destroy(q) PROVE UNCHANGED <<order, made>>
  BY <1>4 DEF StopAsync, Destroy, NotifyAll, Join, callerVars, histories
<1>5. CASE Move \/ UNCHANGED vars
  BY <1>5 DEF Move, vars, callerVars, histories, OrderDistinct
<1>6. QED
  BY <1>1, <1>2, <1>3, <1>4, <1>5 DEF Next, OrderDistinct
-----------------------------------------------------------------------------
THEOREM Invariance == Spec => []IInv
<1>1. Init => IInv
  BY TypeInit, CalledInit, FirstInit, ThreadInit, HandInit, LineInit, OrderInit DEF IInv
<1>2. IInv /\ [Next]_vars => IInv'
  BY TypeStep, CalledStep, FirstStep, ThreadStepInv, HandStep, LineStep, OrderStep DEF IInv
<1>3. QED
  BY <1>1, <1>2, PTL DEF Spec

(* Every state of a run is well typed. *)
THEOREM TypeCorrect == Spec => []TypeOK
<1>1. IInv => TypeOK
  BY DEF IInv
<1>2. QED
  BY <1>1, Invariance, PTL

(* publishAsync: unless two callers started the thread at once, a publisher *)
(* has one thread, its destructor waits for it, and the process never ends  *)
(* in std::terminate.                                                       *)
THEOREM OneThreadHolds == Spec => []OneThread
<1>1. IInv => OneThread
  BY DEF IInv, ThreadInv, OneStarts, Handled, OneThread, Alive, Started
<1>2. QED
  BY <1>1, Invariance, PTL

(* asyncPublishThreadFunc: futures become ready in the order of the calls,  *)
(* and none twice.                                                          *)
THEOREM ReadyInOrderHolds == Spec => []ReadyInOrder
<1>1. IInv => ReadyInOrder
  <2> SUFFICES ASSUME TypeOK, LineInv, OrderDistinct, NEW p \in Publishers, ~raced
               PROVE  /\ Len(done[p]) <= Len(order[p])
                      /\ \A i \in 1..Len(done[p]) : done[p][i] = order[p][i]
                      /\ \A i, j \in 1..Len(done[p]) : done[p][i] = done[p][j] => i = j
    BY DEF IInv, ReadyInOrder
  <2>1. Prefix(done[p], order[p]) /\ Distinct(order[p])
    BY DEF LineInv, OrderDistinct
  <2>2. Len(done[p]) \in Nat /\ Len(order[p]) \in Nat
    BY DEF TypeOK
  <2>3. QED
    BY <2>1, <2>2 DEF Prefix, Distinct
<1>2. QED
  BY <1>1, Invariance, PTL
-----------------------------------------------------------------------------
(* No wake-up is lost. *)

(* Before it sleeps the thread keeps the mutex, and the queue stays empty. *)
DozesOverNothing == \A w \in Callers : at[w] = "dozing" => tasks[of[w]] = <<>>

(* A move leaves nothing running behind. *)
Moved ==
  /\ deaf => current = 2
  /\ current = 2 => ~running[1]
  /\ \A p \in Publishers : life[p] = "absent" => tasks[p] = <<>> /\ ~running[p]

(* Whoever queues the first task goes on to start the thread. *)
FirstTask ==
  \A p \in Publishers :
    ~deaf /\ life[p] = "alive" /\ tasks[p] # <<>> /\ ~running[p] =>
      p = current /\ \E c \in Callers : pc[c] \in {"notify", "test", "start", "mark"}

(* asyncRunning_ is set by somebody who then creates a thread, or fails to. *)
HasThread ==
  \A p \in Publishers :
    ~deaf /\ ~failed /\ life[p] = "alive" /\ running[p] =>
      \/ \E c \in Callers : pc[c] = "spawn"
      \/ \E w \in Callers : of[w] = p /\ Alive(w)

LEMMA DozeStep ==
  ASSUME TypeOK, DozesOverNothing, [Next]_vars
  PROVE  DozesOverNothing'
<1> USE DEF TypeOK, DozesOverNothing
<1>1. ASSUME NEW c \in Callers, Push(c) PROVE DozesOverNothing'
  <2>1. \A w \in Callers : of[w] = current => at[w] # "dozing"
    BY <1>1 DEF Push, MutexFree
  <2>2. UNCHANGED <<at, of>> /\ \A p \in Publishers : p # current => tasks'[p] = tasks[p]
    BY <1>1 DEF Push, threadVars
  <2>3. QED
    BY <2>1, <2>2
<1>2. ASSUME NEW c \in Callers, CallStep(c) PROVE DozesOverNothing'
  <2>1. tasks' = tasks /\ \A w \in Callers : at'[w] = "dozing" => at[w] = "dozing" /\ of'[w] = of[w]
    BY <1>2 DEF CallStep, NotifyOne, Asleep, TestRunning, MarkRunning, Spawn, ReadHandle,
                WriteHandle, threadVars
  <2>2. QED
    BY <2>1
<1>3. ASSUME NEW w \in Callers, ThreadStep(w) \/ Disturb(w) PROVE DozesOverNothing'
  <2>1. CASE Take(w)
    <3>1. of' = of /\ \A v \in Callers : at'[v] = "dozing" => at[v] = "dozing"
      BY <2>1 DEF Take, callerVars
    <3>2. tasks' = tasks \/ (tasks[of[w]] # <<>> /\ \A p \in Publishers : p # of[w] => tasks'[p] = tasks[p])
      BY <2>1 DEF Take
    <3>3. QED
      BY <3>1, <3>2
  <2>2. CASE TestQueue(w)
    BY <2>2 DEF TestQueue
  <2>3. CASE TestStop(w) \/ Sleep(w) \/ Execute(w) \/ Relock(w) \/ Disturb(w)
    BY <2>3 DEF TestStop, Sleep, Execute, Relock, Disturb, SpuriousWakeup, Block
  <2>4. QED
    BY <1>3, <2>1, <2>2, <2>3 DEF ThreadStep
<1>4. ASSUME NEW p \in Publishers, StopAsync(p) \/ NotifyAll(p) \/ Join(p) PROVE DozesOverNothing'
  BY <1>4 DEF StopAsync, NotifyAll, Join, Asleep, threadVars
<1>5. CASE Move \/ UNCHANGED vars
  BY <1>5 DEF Move, vars, threadVars
<1>6. QED
  BY <1>1, <1>2, <1>3, <1>4, <1>5 DEF Next, Destroy

LEMMA FailedStays == [Next]_vars /\ failed => failed'
<1>1. ASSUME NEW c \in Callers, Push(c) \/ CallStep(c) PROVE failed => failed'
  BY <1>1 DEF Push, CallStep, NotifyOne, TestRunning, MarkRunning, Spawn, ReadHandle, WriteHandle,
              histories
<1>2. ASSUME NEW w \in Callers, ThreadStep(w) \/ Disturb(w) PROVE failed => failed'
  BY <1>2 DEF ThreadStep, TestStop, TestQueue, Sleep, Disturb, SpuriousWakeup, Block, Take, Execute,
              Relock, histories
<1>3. ASSUME NEW p \in Publishers, StopAsync(p) \/ Destroy(p) PROVE failed => failed'
  BY <1>3 DEF StopAsync, Destroy, NotifyAll, Join, histories
<1>4. CASE Move \/ UNCHANGED vars
  BY <1>4 DEF Move, vars, histories
<1>5. QED
  BY <1>1, <1>2, <1>3, <1>4 DEF Next

(* What the callers and the threads leave alone. *)
LEMMA CallFrame ==
  ASSUME NEW c \in Callers, Push(c) \/ CallStep(c)
  PROVE  UNCHANGED <<current, life, deaf>>
  BY DEF Push, CallStep, NotifyOne, TestRunning, MarkRunning, Spawn, ReadHandle, WriteHandle,
         histories

LEMMA ThreadFrame ==
  ASSUME TypeOK, NEW w \in Callers, ThreadStep(w) \/ Disturb(w)
  PROVE  /\ UNCHANGED <<current, life, deaf, running, pc, of>>
         /\ \A v \in Callers : v # w => at'[v] = at[v]
<1>1. UNCHANGED <<current, life, deaf, running, pc, of>>
  BY DEF ThreadStep, TestStop, TestQueue, Sleep, Take, Execute, Relock, Disturb, SpuriousWakeup, Block,
         callerVars, histories
<1>2. \E place : at' = [at EXCEPT ![w] = place]
  BY DEF ThreadStep, TestStop, TestQueue, Sleep, Take, Execute, Relock, Disturb, SpuriousWakeup, Block
<1>3. QED
  BY <1>1, <1>2 DEF TypeOK

LEMMA TasksShrink ==
  ASSUME TypeOK, NEW w \in Callers, ThreadStep(w) \/ Disturb(w),
         NEW p \in Publishers, tasks'[p] # <<>>
  PROVE  tasks[p] # <<>>
<1>1. CASE Take(w)
  BY <1>1 DEF Take, TypeOK
<1>2. CASE ~Take(w)
  BY <1>2 DEF ThreadStep, TestStop, TestQueue, Sleep, Execute, Relock, Disturb, SpuriousWakeup, Block
<1>3. QED
  BY <1>1, <1>2

LEMMA MovedStep ==
  ASSUME TypeOK, Called, SecondAbsent, Moved, [Next]_vars
  PROVE  Moved' /\ (deaf => deaf')
<1> USE DEF TypeOK, Moved, Publishers
<1>1. ASSUME NEW c \in Callers, Push(c) \/ CallStep(c) PROVE Moved' /\ (deaf => deaf')
  <2>1. life[current] = "alive"
    BY <1>1 DEF Called, Push, CallStep, NotifyOne, TestRunning, MarkRunning, Spawn, ReadHandle,
                WriteHandle
  <2>2. UNCHANGED <<current, life, deaf>>
    BY <1>1, CallFrame
  <2>3. \A p \in Publishers : p # current => tasks'[p] = tasks[p] /\ running'[p] = running[p]
    BY <1>1 DEF Push, CallStep, NotifyOne, TestRunning, MarkRunning, Spawn, ReadHandle, WriteHandle
  <2>4. QED
    BY <2>1, <2>2, <2>3
<1>2. ASSUME NEW w \in Callers, ThreadStep(w) \/ Disturb(w) PROVE Moved' /\ (deaf => deaf')
  BY <1>2, ThreadFrame, TasksShrink
<1>3. ASSUME NEW p \in Publishers, StopAsync(p) \/ NotifyAll(p) \/ Join(p)
      PROVE  Moved' /\ (deaf => deaf')
  BY <1>3 DEF StopAsync, NotifyAll, Join, histories
<1>4. CASE Move
  BY <1>4 DEF Move, SecondAbsent
<1>5. CASE UNCHANGED vars
  BY <1>5 DEF vars, histories
<1>6. QED
  BY <1>1, <1>2, <1>3, <1>4, <1>5 DEF Next, Destroy

LEMMA FirstTaskStep ==
  ASSUME TypeOK, Called, SecondAbsent, Moved, FirstTask, [Next]_vars
  PROVE  FirstTask'
<1> SUFFICES ASSUME ~deaf', NEW p \in Publishers, life'[p] = "alive", tasks'[p] # <<>>,
                    ~running'[p]
             PROVE  p = current' /\ \E c \in Callers : pc'[c] \in {"notify", "test", "start", "mark"}
  BY DEF FirstTask
<1> USE DEF TypeOK
<1>0. ~deaf
  BY MovedStep
<1>1. ASSUME NEW c \in Callers, Push(c)
      PROVE  p = current' /\ \E d \in Callers : pc'[d] \in {"notify", "test", "start", "mark"}
  <2>1. pc'[c] = "notify" /\ UNCHANGED <<current, life, running>>
    BY <1>1 DEF Push
  <2>2. p # current => tasks'[p] = tasks[p]
    BY <1>1 DEF Push
  <2>3. QED
    BY <1>0, <2>1, <2>2 DEF FirstTask
<1>2. ASSUME NEW c \in Callers, CallStep(c)
      PROVE  p = current' /\ \E d \in Callers : pc'[d] \in {"notify", "test", "start", "mark"}
  <2>1. UNCHANGED <<current, life, tasks>> /\ (running'[p] = running[p] \/ running'[p])
    BY <1>2 DEF CallStep, NotifyOne, TestRunning, MarkRunning, Spawn, ReadHandle, WriteHandle
  <2>2. p = current /\ ~running[p]
    BY <1>0, <2>1 DEF FirstTask
  <2>3. PICK d \in Callers : pc[d] \in {"notify", "test", "start", "mark"}
    BY <1>0, <2>1 DEF FirstTask
  <2>4. CASE d = c
    <3>1. NotifyOne(c) \/ TestRunning(c) \/ MarkRunning(c)
      BY <1>2, <2>3, <2>4 DEF CallStep, Spawn, ReadHandle, WriteHandle
    <3>2. CASE NotifyOne(c)
      BY <2>1, <2>2, <3>2 DEF NotifyOne
    <3>3. CASE TestRunning(c)
      BY <2>1, <2>2, <3>3 DEF TestRunning
    <3>4. CASE MarkRunning(c)
      BY <2>2, <3>4 DEF MarkRunning
    <3>5. QED
      BY <3>1, <3>2, <3>3, <3>4
  <2>5. CASE d # c
    <3>1. pc'[d] = pc[d]
      BY <1>2, <2>5 DEF CallStep, NotifyOne, TestRunning, MarkRunning, Spawn, ReadHandle,
                        WriteHandle
    <3>2. QED
      BY <2>1, <2>2, <2>3, <3>1
  <2>6. QED
    BY <2>4, <2>5
<1>3. ASSUME NEW w \in Callers, ThreadStep(w) \/ Disturb(w)
      PROVE  p = current' /\ \E d \in Callers : pc'[d] \in {"notify", "test", "start", "mark"}
  BY <1>0, <1>3, ThreadFrame, TasksShrink DEF FirstTask
<1>4. ASSUME NEW q \in Publishers, StopAsync(q) \/ NotifyAll(q) \/ Join(q)
      PROVE  p = current' /\ \E d \in Callers : pc'[d] \in {"notify", "test", "start", "mark"}
  BY <1>0, <1>4 DEF StopAsync, NotifyAll, Join, callerVars, FirstTask
<1>5. CASE Move
  <2>1. ~running[1] /\ life[1] = "alive" /\ life[2] = "absent" /\ tasks' = tasks
    BY <1>5 DEF Move, SecondAbsent
  <2>2. tasks[1] = <<>>
    BY <1>0, <1>5, <2>1 DEF Move, NoCall, FirstTask, Publishers
  <2>3. tasks[2] = <<>>
    BY <2>1 DEF Moved, Publishers
  <2>4. QED
    BY <2>1, <2>2, <2>3 DEF Publishers
<1>6. CASE UNCHANGED vars
  BY <1>0, <1>6 DEF vars, callerVars, FirstTask
<1>7. QED
  BY <1>1, <1>2, <1>3, <1>4, <1>5, <1>6 DEF Next, Destroy

LEMMA HasThreadStep ==
  ASSUME TypeOK, Called, SecondAbsent, Moved, HasThread, [Next]_vars
  PROVE  HasThread'
<1> SUFFICES ASSUME ~deaf', ~failed', NEW p \in Publishers, life'[p] = "alive", running'[p]
             PROVE  \/ \E c \in Callers : pc'[c] = "spawn"
                    \/ \E w \in Callers : of'[w] = p /\ Alive(w)'
  BY DEF HasThread
<1> USE DEF TypeOK, Alive
<1>0. ~deaf /\ ~failed
  BY MovedStep, FailedStays
<1>1. ASSUME NEW c \in Callers, Spawn(c) PROVE of'[c] = p /\ Alive(c)'
  <2>1. p = current
    BY <1>1 DEF Spawn, Moved, SecondAbsent, Publishers
  <2>2. QED
    BY <1>1, <2>1 DEF Spawn
<1>2. ASSUME NEW c \in Callers, MarkRunning(c) PROVE pc'[c] = "spawn"
  BY <1>2 DEF MarkRunning
<1>3. ASSUME NEW c \in Callers,
             Push(c) \/ NotifyOne(c) \/ TestRunning(c) \/ ReadHandle(c) \/ WriteHandle(c)
      PROVE  \/ \E d \in Callers : pc'[d] = "spawn"
             \/ \E w \in Callers : of'[w] = p /\ Alive(w)'
  <2>1. UNCHANGED <<life, running, of>>
    BY <1>3 DEF Push, NotifyOne, TestRunning, ReadHandle, WriteHandle, threadVars
  <2>2. \A d \in Callers : pc[d] = "spawn" => pc'[d] = "spawn"
    BY <1>3 DEF Push, NotifyOne, TestRunning, ReadHandle, WriteHandle
  <2>3. \A w \in Callers : at'[w] = at[w] \/ at'[w] = "locking"
    BY <1>3 DEF Push, NotifyOne, TestRunning, ReadHandle, WriteHandle, threadVars
  <2>4. \/ \E d \in Callers : pc[d] = "spawn"
        \/ \E w \in Callers : of[w] = p /\ Alive(w)
    BY <1>0, <2>1 DEF HasThread
  <2>5. QED
    BY <2>1, <2>2, <2>3, <2>4
<1>4. ASSUME NEW w \in Callers, ThreadStep(w) \/ Disturb(w)
      PROVE  \/ \E d \in Callers : pc'[d] = "spawn"
             \/ \E v \in Callers : of'[v] = p /\ Alive(v)'
  <2>1. of[w] = p => Alive(w)'
    BY <1>4, ThreadFrame
       DEF ThreadStep, TestStop, TestQueue, Sleep, Take, Execute, Relock, Disturb, SpuriousWakeup, Block, Runs
  <2>2. /\ UNCHANGED <<life, running, pc, of>>
        /\ \A v \in Callers : v # w => at'[v] = at[v]
    BY <1>4, ThreadFrame
  <2>3. \/ \E d \in Callers : pc[d] = "spawn"
        \/ \E v \in Callers : of[v] = p /\ Alive(v)
    BY <1>0, <2>2 DEF HasThread
  <2>4. QED
    BY <2>1, <2>2, <2>3
<1>5. ASSUME NEW q \in Publishers, StopAsync(q) \/ NotifyAll(q) \/ Join(q)
      PROVE  \/ \E d \in Callers : pc'[d] = "spawn"
             \/ \E v \in Callers : of'[v] = p /\ Alive(v)'
  <2>1. life[p] = "alive" /\ running[p] /\ UNCHANGED <<pc, of>>
    BY <1>5 DEF StopAsync, NotifyAll, Join, callerVars, threadVars
  <2>2. \A v \in Callers : at'[v] = at[v] \/ at'[v] = "locking"
    BY <1>5 DEF StopAsync, NotifyAll, Join, callerVars, threadVars
  <2>3. \/ \E d \in Callers : pc[d] = "spawn"
        \/ \E v \in Callers : of[v] = p /\ Alive(v)
    BY <1>0, <2>1 DEF HasThread
  <2>4. QED
    BY <2>1, <2>2, <2>3
<1>6. CASE Move
  BY <1>6 DEF Move
<1>7. CASE UNCHANGED vars
  BY <1>0, <1>7 DEF vars, callerVars, threadVars, HasThread
<1>8. QED
  BY <1>1, <1>2, <1>3, <1>4, <1>5, <1>6, <1>7 DEF Next, CallStep, Destroy

(* Only the publisher in use has tasks waiting. *)
LEMMA TasksOfCurrent ==
  ASSUME TypeOK, SecondAbsent, Moved, FirstTask, ~deaf,
         NEW p \in Publishers, life[p] = "alive", tasks[p] # <<>>
  PROVE  p = current
  BY DEF TypeOK, SecondAbsent, Moved, FirstTask, Publishers

LEMMA ForgottenStep ==
  ASSUME TypeOK, Called, SecondAbsent, Moved, FirstTask, HasThread, DozesOverNothing,
         NoTaskForgotten, [Next]_vars
  PROVE  NoTaskForgotten'
<1> DEFINE Seen(p) == \/ \E c \in Callers : pc[c] \in {"notify", "spawn"}
                      \/ \E c \in Callers : ~running[p] /\ pc[c] \in {"test", "start", "mark"}
                      \/ \E w \in Callers : of[w] = p /\ Awake(w)
                      \/ Blocked(p)
<1> SUFFICES ASSUME ~deaf', ~failed', NEW p \in Publishers, life'[p] = "alive", tasks'[p] # <<>>
             PROVE  Seen(p)'
  BY DEF NoTaskForgotten
<1>0. ~deaf /\ ~failed
  BY MovedStep, FailedStays
<1>00. life[p] = "alive" /\ tasks[p] # <<>> => Seen(p) /\ p = current
  BY <1>0, TasksOfCurrent DEF NoTaskForgotten
<1> USE DEF TypeOK, Awake, Blocked
<1>1. ASSUME NEW c \in Callers, Push(c) PROVE Seen(p)'
  BY <1>1 DEF Push
<1>2. ASSUME NEW c \in Callers, NotifyOne(c) PROVE Seen(p)'
  <2>1. UNCHANGED <<current, life, running, tasks, of>> /\ pc'[c] = "test"
    BY <1>2 DEF NotifyOne
  <2>2. p = current
    BY <1>00, <2>1
  <2>3. CASE Asleep(current) # {}
    <3>1. PICK w \in Asleep(current) : at' = [at EXCEPT ![w] = "locking"]
      BY <1>2, <2>3 DEF NotifyOne
    <3>2. w \in Callers /\ of[w] = p /\ at'[w] = "locking"
      BY <2>2, <3>1 DEF Asleep
    <3>3. QED
      BY <2>1, <3>2
  <2>4. CASE Asleep(current) = {} /\ ~running[p]
    BY <2>1, <2>4
  <2>5. CASE Asleep(current) = {} /\ running[p]
    <3>1. at' = at
      BY <1>2, <2>5 DEF NotifyOne
    <3>2. CASE \E d \in Callers : pc[d] = "spawn"
      <4>1. PICK d \in Callers : pc[d] = "spawn"
        BY <3>2
      <4>2. pc'[d] = "spawn"
        BY <1>2, <4>1 DEF NotifyOne
      <4>3. QED
        BY <4>2
    <3>3. CASE \E w \in Callers : of[w] = p /\ Alive(w)
      <4>1. PICK w \in Callers : of[w] = p /\ Alive(w)
        BY <3>3
      <4>2. at[w] # "asleep"
        BY <2>2, <2>5, <4>1 DEF Asleep
      <4>3. at[w] # "dozing"
        BY <2>1, <4>1 DEF DozesOverNothing
      <4>4. Awake(w) \/ at[w] = "blocked"
        BY <4>1, <4>2, <4>3 DEF Alive
      <4>5. QED
        BY <2>1, <3>1, <4>1, <4>4
    <3>4. QED
      BY <1>0, <2>1, <2>5, <3>2, <3>3 DEF HasThread
  <2>6. QED
    BY <2>3, <2>4, <2>5
<1>3. ASSUME NEW c \in Callers, TestRunning(c) \/ MarkRunning(c) PROVE Seen(p)'
  <2>1. UNCHANGED <<current, life, tasks, at, of>>
    BY <1>3 DEF TestRunning, MarkRunning, threadVars
  <2>2. p = current /\ Seen(p)
    BY <1>00, <2>1
  <2>3. \A d \in Callers : d # c => pc'[d] = pc[d]
    BY <1>3 DEF TestRunning, MarkRunning
  <2>4. CASE MarkRunning(c)
    BY <2>4 DEF MarkRunning
  <2>5. CASE TestRunning(c)
    <3>1. running' = running /\ pc[c] \in {"test", "start"}
      BY <2>5 DEF TestRunning
    <3>2. ~running[p] => pc'[c] \in {"start", "mark"}
      BY <2>2, <2>5 DEF TestRunning
    <3>3. QED
      BY <2>1, <2>2, <2>3, <3>1, <3>2
  <2>6. QED
    BY <1>3, <2>4, <2>5
<1>4. ASSUME NEW c \in Callers, Spawn(c) PROVE Seen(p)'
  <2>0. ~failed'
    OBVIOUS
  <2>1. of'[c] = current /\ at'[c] = "testing"
    BY <1>4, <2>0 DEF Spawn
  <2>2. p = current
    BY <1>4, <1>00 DEF Spawn
  <2>3. QED
    BY <2>1, <2>2
<1>5. ASSUME NEW c \in Callers, ReadHandle(c) \/ WriteHandle(c) PROVE Seen(p)'
  <2>1. UNCHANGED <<life, tasks, running, at, of>>
    BY <1>5 DEF ReadHandle, WriteHandle, threadVars
  <2>2. \A d \in Callers : pc'[d] = pc[d] \/ pc[d] \in {"assign", "replace"}
    BY <1>5 DEF ReadHandle, WriteHandle
  <2>3. QED
    BY <1>00, <2>1, <2>2
<1>6. ASSUME NEW w \in Callers, ThreadStep(w) \/ Disturb(w) PROVE Seen(p)'
  <2>1. /\ UNCHANGED <<life, running, pc, of>>
        /\ \A v \in Callers : v # w => at'[v] = at[v]
    BY <1>6, ThreadFrame
  <2>2. tasks[p] # <<>>
    BY <1>6, TasksShrink
  <2>3. CASE of[w] = p /\ ~running[p]
    <3>1. \E d \in Callers : pc[d] \in {"notify", "test", "start", "mark"}
      BY <1>0, <2>1, <2>2, <2>3 DEF FirstTask
    <3>2. QED
      BY <2>1, <2>3, <3>1
  <2>4. CASE of[w] = p /\ running[p]
    <3>1. Awake(w) \/ at[w] = "blocked" => Awake(w)' \/ at'[w] = "blocked"
      BY <1>6, <2>2, <2>4
         DEF ThreadStep, TestStop, TestQueue, Sleep, Take, Execute, Relock, Disturb, SpuriousWakeup, Block, Runs
    <3>2. QED
      BY <1>00, <2>1, <2>2, <2>4, <3>1
  <2>5. CASE of[w] # p
    BY <1>00, <2>1, <2>2, <2>5
  <2>6. QED
    BY <2>3, <2>4, <2>5
<1>7. ASSUME NEW q \in Publishers, StopAsync(q) \/ NotifyAll(q) \/ Join(q) PROVE Seen(p)'
  <2>1. life[p] = "alive" /\ tasks[p] # <<>> /\ UNCHANGED <<pc, of>> /\ running'[p] = running[p]
    BY <1>7 DEF StopAsync, NotifyAll, Join, callerVars, threadVars
  <2>2. \A v \in Callers : at'[v] = at[v] \/ at'[v] = "locking"
    BY <1>7 DEF StopAsync, NotifyAll, Join, callerVars, threadVars
  <2>3. QED
    BY <1>00, <2>1, <2>2
<1>8. CASE Move
  <2>1. ~running[1] /\ life[1] = "alive" /\ life[2] = "absent" /\ tasks' = tasks
    BY <1>8 DEF Move, SecondAbsent
  <2>2. tasks[1] = <<>>
    BY <1>0, <1>8, <2>1 DEF Move, NoCall, FirstTask, Publishers
  <2>3. tasks[2] = <<>>
    BY <2>1 DEF Moved, Publishers
  <2>4. QED
    BY <2>1, <2>2, <2>3 DEF Publishers
<1>9. CASE UNCHANGED vars
  BY <1>00, <1>9 DEF vars, callerVars, threadVars
<1>10. QED
  BY <1>1, <1>2, <1>3, <1>4, <1>5, <1>6, <1>7, <1>8, <1>9 DEF Next, CallStep, Destroy

(* publishAsync and asyncPublishThreadFunc: however many callers queue      *)
(* tasks, start the thread and notify it at once, no task waits for a       *)
(* thread that sleeps with nobody about to wake it, and unless creating it  *)
(* threw, there is a thread to wait for.                                    *)
THEOREM NoTaskForgottenHolds == Spec => []NoTaskForgotten
<1> DEFINE Kept == DozesOverNothing /\ Moved /\ FirstTask /\ HasThread /\ NoTaskForgotten
<1>1. Init => Kept
  BY DEF Init, DozesOverNothing, Moved, FirstTask, HasThread, NoTaskForgotten, Publishers
<1>2. IInv /\ Kept /\ [Next]_vars => Kept'
  BY DozeStep, MovedStep, FirstTaskStep, HasThreadStep, ForgottenStep DEF IInv
<1>3. QED
  BY <1>1, <1>2, Invariance, PTL DEF Spec
-----------------------------------------------------------------------------
(* The destructor returns.  That a step is possible (ENABLED) is a          *)
(* hypothesis.                                                              *)

StopsRunning == \A p \in Publishers : life[p] \in {"stopped", "joining"} => ~running[p]

(* notify_all has woken the thread up, unless it came too early. *)
WokenUp ==
  ~missed => \A p \in Publishers, w \in Callers :
               life[p] = "joining" /\ of[w] = p => at[w] \notin {"asleep", "dozing"}

HandleLeads ==
  ~raced => \A p \in Publishers :
              handle[p] # None => of[handle[p]] = p /\ Started(handle[p])

LEMMA StopsStep ==
  ASSUME TypeOK, Called, SecondAbsent, StopsRunning, [Next]_vars
  PROVE  StopsRunning'
<1> USE DEF TypeOK, StopsRunning
<1>1. ASSUME NEW c \in Callers, Push(c) \/ CallStep(c) PROVE StopsRunning'
  <2>1. life[current] = "alive"
    BY <1>1 DEF Called, Push, CallStep, NotifyOne, TestRunning, MarkRunning, Spawn, ReadHandle,
                WriteHandle
  <2>2. UNCHANGED life /\ \A p \in Publishers : p # current => running'[p] = running[p]
    BY <1>1 DEF Push, CallStep, NotifyOne, TestRunning, MarkRunning, Spawn, ReadHandle, WriteHandle
  <2>3. QED
    BY <2>1, <2>2
<1>2. ASSUME NEW w \in Callers, ThreadStep(w) \/ Disturb(w) PROVE StopsRunning'
  BY <1>2, ThreadFrame
<1>3. ASSUME NEW p \in Publishers, StopAsync(p) \/ NotifyAll(p) \/ Join(p) PROVE StopsRunning'
  BY <1>3 DEF StopAsync, NotifyAll, Join
<1>4. CASE Move \/ UNCHANGED vars
  BY <1>4 DEF Move, Publishers, vars
<1>5. QED
  BY <1>1, <1>2, <1>3, <1>4 DEF Next, Destroy

LEMMA WokenStep ==
  ASSUME TypeOK, Called, SecondAbsent, StopsRunning, WokenUp, [Next]_vars
  PROVE  WokenUp'
<1> USE DEF TypeOK
<1>1. ASSUME NEW c \in Callers, Push(c) \/ CallStep(c) PROVE WokenUp'
  <2>1. UNCHANGED <<life, missed>>
    BY <1>1 DEF Push, CallStep, NotifyOne, TestRunning, MarkRunning, Spawn, ReadHandle,
                WriteHandle, histories
  <2>2. \A w \in Callers : (at'[w] = at[w] /\ of'[w] = of[w]) \/ at'[w] \in {"locking", "testing"}
    BY <1>1 DEF Push, CallStep, NotifyOne, TestRunning, MarkRunning, Spawn, ReadHandle,
                WriteHandle, threadVars
  <2>3. QED
    BY <2>1, <2>2 DEF WokenUp
<1>2. ASSUME NEW w \in Callers, ThreadStep(w) \/ Disturb(w) PROVE WokenUp'
  <2>1. UNCHANGED <<life, missed, of>> /\ \A v \in Callers : v # w => at'[v] = at[v]
    BY <1>2, ThreadFrame
       DEF ThreadStep, TestStop, TestQueue, Sleep, Take, Execute, Relock, Disturb, SpuriousWakeup, Block, histories
  <2>2. \/ at'[w] \notin {"asleep", "dozing"}
        \/ at[w] = "dozing"
        \/ running[of[w]]
    <3>1. CASE TestQueue(w)
      BY <3>1 DEF TestQueue
    <3>2. CASE Sleep(w)
      BY <3>2 DEF Sleep, Runs
    <3>3. CASE TestStop(w) \/ Take(w) \/ Execute(w) \/ Relock(w) \/ Disturb(w)
      <4>1. at'[w] \notin {"asleep", "dozing"}
        BY <3>3 DEF TestStop, Take, Execute, Relock, Disturb, SpuriousWakeup, Block
      <4>2. QED
        BY <4>1
    <3>4. QED
      BY <1>2, <3>1, <3>2, <3>3 DEF ThreadStep
  <2>3. QED
    BY <2>1, <2>2 DEF WokenUp, StopsRunning
<1>3. ASSUME NEW p \in Publishers, NotifyAll(p) PROVE WokenUp'
  <2>1. \A q \in Publishers : q # p => life'[q] = life[q]
    BY <1>3 DEF NotifyAll
  <2>2. of' = of /\ \A w \in Callers : at'[w] = at[w] \/ at'[w] = "locking"
    BY <1>3 DEF NotifyAll
  <2>3. ~missed' => ~missed /\ \A w \in Callers : of[w] = p => at'[w] \notin {"asleep", "dozing"}
    BY <1>3 DEF NotifyAll, Asleep
  <2>4. QED
    BY <2>1, <2>2, <2>3 DEF WokenUp
<1>4. ASSUME NEW p \in Publishers, StopAsync(p) \/ Join(p) PROVE WokenUp'
  BY <1>4 DEF StopAsync, Join, threadVars, histories, WokenUp
<1>5. CASE Move \/ UNCHANGED vars
  BY <1>5 DEF Move, vars, threadVars, histories, WokenUp
<1>6. QED
  BY <1>1, <1>2, <1>3, <1>4, <1>5 DEF Next, Destroy

LEMMA HandleStep ==
  ASSUME TypeOK, ThreadInv, HandleLeads, [Next]_vars
  PROVE  HandleLeads'
<1> SUFFICES ASSUME ~raced', NEW p \in Publishers, handle'[p] # None
             PROVE  of'[handle'[p]] = p /\ at'[handle'[p]] # "none"
  BY DEF HandleLeads, Started
<1> USE DEF TypeOK, Started
<1>0. ~raced /\ OneStarts
  BY RacedStays DEF ThreadInv
<1>1. handle[p] # None => of[handle[p]] = p /\ at[handle[p]] # "none" /\ handle[p] \in Callers
  BY <1>0 DEF HandleLeads
<1>2. ASSUME NEW c \in Callers, WriteHandle(c)
      PROVE  of'[handle'[p]] = p /\ at'[handle'[p]] # "none"
  <2>1. of[c] = current /\ at[c] # "none" /\ UNCHANGED <<at, of>>
    BY <1>0, <1>2 DEF WriteHandle, OneStarts, threadVars
  <2>2. QED
    BY <1>1, <1>2, <2>1 DEF WriteHandle
<1>3. ASSUME NEW c \in Callers, Spawn(c)
      PROVE  of'[handle'[p]] = p /\ at'[handle'[p]] # "none"
  BY <1>0, <1>3 DEF Spawn, OneStarts, NothingStarted
<1>4. ASSUME NEW c \in Callers,
             Push(c) \/ NotifyOne(c) \/ TestRunning(c) \/ MarkRunning(c) \/ ReadHandle(c)
      PROVE  of'[handle'[p]] = p /\ at'[handle'[p]] # "none"
  <2>1. UNCHANGED <<handle, of>> /\ \A w \in Callers : at'[w] = at[w] \/ at'[w] = "locking"
    BY <1>4 DEF Push, NotifyOne, TestRunning, MarkRunning, ReadHandle, threadVars
  <2>2. QED
    BY <1>1, <2>1
<1>5. ASSUME NEW w \in Callers, ThreadStep(w) \/ Disturb(w)
      PROVE  of'[handle'[p]] = p /\ at'[handle'[p]] # "none"
  <2>1. UNCHANGED <<handle, of>>
    BY <1>5 DEF ThreadStep, TestStop, TestQueue, Sleep, Take, Execute, Relock, Disturb, SpuriousWakeup, Block
  <2>2. \A v \in Callers : v # w => at'[v] = at[v]
    BY <1>5, ThreadFrame
  <2>3. at'[w] # "none"
    BY <1>5 DEF ThreadStep, TestStop, TestQueue, Sleep, Take, Execute, Relock, Disturb, SpuriousWakeup, Block
  <2>4. QED
    BY <1>1, <2>1, <2>2, <2>3
<1>6. ASSUME NEW q \in Publishers, StopAsync(q) \/ NotifyAll(q) \/ Join(q)
      PROVE  of'[handle'[p]] = p /\ at'[handle'[p]] # "none"
  <2>1. of' = of /\ handle'[p] = handle[p]
    BY <1>6 DEF StopAsync, NotifyAll, Join, threadVars
  <2>2. \A v \in Callers : at'[v] = at[v] \/ at'[v] = "locking"
    BY <1>6 DEF StopAsync, NotifyAll, Join, threadVars
  <2>3. QED
    BY <1>1, <2>1, <2>2
<1>7. CASE Move \/ UNCHANGED vars
  BY <1>1, <1>7 DEF Move, vars, threadVars
<1>8. QED
  BY <1>2, <1>3, <1>4, <1>5, <1>6, <1>7 DEF Next, CallStep, Destroy

StopInv == IInv /\ StopsRunning /\ WokenUp /\ HandleLeads

LEMMA Stopped == Spec => []StopInv
<1>1. Init => StopsRunning /\ WokenUp /\ HandleLeads
  BY DEF Init, StopsRunning, WokenUp, HandleLeads
<1>2. IInv /\ StopsRunning /\ WokenUp /\ HandleLeads /\ [Next]_vars =>
        StopsRunning' /\ WokenUp' /\ HandleLeads'
  BY StopsStep, WokenStep, HandleStep DEF IInv
<1>3. QED
  BY <1>1, <1>2, Invariance, PTL DEF Spec, StopInv

(* Nothing went wrong so far. *)
Sound == ~raced /\ ~missed /\ ~dead

(* The destructor of p waits for the thread h; of[h] = p by HandleLeads. *)
Joins(p, h) == Sound /\ life[p] = "joining" /\ handle[p] = h

(* What any step does to a join and to the thread it waits for. *)
LEMMA JoinPath ==
  ASSUME StopInv, [Next]_vars, NEW p \in Publishers, NEW h \in Callers, Joins(p, h), Sound'
  PROVE  \/ life'[p] = "dead" \/ Blocked(p)'
         \/ Joins(p, h)' /\ (at'[h] = at[h] \/ ThreadStep(h))
<1> USE DEF TypeOK, IInv, StopInv, Joins
<1>0. h # None /\ of[h] = p /\ at[h] # "none" /\ at[h] # "asleep"
  BY AsyncAssumption DEF HandleLeads, Started, Sound, WokenUp
<1>1. ASSUME NEW c \in Callers, Push(c) \/ CallStep(c) PROVE Joins(p, h)' /\ at'[h] = at[h]
  <2>1. life[current] = "alive"
    BY <1>1 DEF Called, Push, CallStep, NotifyOne, TestRunning, MarkRunning, Spawn, ReadHandle,
                WriteHandle
  <2>2. UNCHANGED life /\ \A q \in Publishers : q # current => handle'[q] = handle[q]
    BY <1>1 DEF Push, CallStep, NotifyOne, TestRunning, MarkRunning, Spawn, ReadHandle, WriteHandle
  <2>3. CASE Spawn(c)
    BY <1>0, <2>3 DEF Spawn, ThreadInv, OneStarts, NothingStarted, Started, Sound
  <2>4. CASE ~Spawn(c)
    <3>1. at'[h] = at[h]
      BY <1>0, <1>1, <2>4 DEF Push, CallStep, NotifyOne, Asleep, TestRunning, MarkRunning,
                              ReadHandle, WriteHandle, threadVars
    <3>2. QED
      BY <2>1, <2>2, <3>1
  <2>5. QED
    BY <2>1, <2>2, <2>3, <2>4
<1>2. ASSUME NEW w \in Callers, ThreadStep(w) \/ Disturb(w)
      PROVE  Blocked(p)' \/ (Joins(p, h)' /\ (at'[h] = at[h] \/ ThreadStep(h)))
  <2>1. UNCHANGED <<life, handle>>
    BY <1>2 DEF ThreadStep, TestStop, TestQueue, Sleep, Take, Execute, Relock, Disturb, SpuriousWakeup, Block
  <2>2. w # h => at'[h] = at[h]
    BY <1>2, ThreadFrame
  <2>3. w = h => ~SpuriousWakeup(w)
    BY <1>0 DEF SpuriousWakeup, Runs
  <2>4. CASE w = h /\ Block(w)
    BY <1>0, <2>4 DEF Block, Blocked
  <2>5. CASE ~(w = h /\ Block(w))
    BY <1>2, <2>1, <2>2, <2>3, <2>5 DEF Disturb
  <2>6. QED
    BY <2>4, <2>5
<1>3. ASSUME NEW q \in Publishers, StopAsync(q) \/ NotifyAll(q) \/ Join(q)
      PROVE  life'[p] = "dead" \/ (Joins(p, h)' /\ at'[h] = at[h])
  <2>1. at'[h] = at[h]
    BY <1>0, <1>3 DEF StopAsync, NotifyAll, Asleep, Join, threadVars
  <2>2. life'[p] = "dead" \/ (life'[p] = "joining" /\ handle'[p] = h)
    BY <1>3 DEF StopAsync, NotifyAll, Join
  <2>3. QED
    BY <2>1, <2>2
<1>4. CASE Move \/ UNCHANGED vars
  BY <1>4 DEF Move, vars, SecondAbsent, threadVars, Publishers
<1>5. QED
  BY <1>1, <1>2, <1>3, <1>4 DEF Next, Destroy

(* What the thread does once it is told to stop. *)
LEMMA ThreadEnds ==
  ASSUME StopInv, NEW p \in Publishers, NEW h \in Callers, Joins(p, h), ThreadStep(h)
  PROVE  \/ at[h] = "executing" /\ at'[h] = "relocking"
         \/ at[h] \in {"relocking", "locking"} /\ at'[h] = "looping"
         \/ at[h] = "looping" /\ at'[h] = "testing"
         \/ at[h] = "testing" /\ at'[h] = "ended"
<1>1. of[h] = p /\ ~running[p] /\ at[h] # "dozing"
  BY AsyncAssumption DEF StopInv, HandleLeads, StopsRunning, WokenUp, Joins, Sound
<1>2. QED
  BY <1>1 DEF StopInv, IInv, TypeOK, ThreadStep, TestStop, TestQueue, Sleep, Take, Execute,
              Relock, Runs

(* Nobody else holds the mutex the thread waits for. *)
LEMMA ThreadIsReady ==
  ASSUME StopInv, NEW p \in Publishers, NEW h \in Callers, Joins(p, h),
         at[h] \notin {"ended", "blocked"}
  PROVE  Ready(h)
<1>1. of[h] = p /\ at[h] # "none" /\ at[h] \notin {"asleep", "dozing"}
  BY AsyncAssumption DEF StopInv, HandleLeads, Started, WokenUp, Joins, Sound
<1>2. \A w \in Callers : at[w] # "none" => w = h
  BY <1>1 DEF StopInv, IInv, ThreadInv, OneStarts, Started, Joins, Sound
<1>3. at[h] \in {"locking", "relocking"} => MutexFree(of[h])
  BY <1>2 DEF MutexFree
<1>4. QED
  BY <1>1, <1>3 DEF Ready, Joins, Sound, StopInv, IInv, TypeOK

(* The destructor of a publisher with a thread returns, wherever that       *)
(* thread is, unless two callers started the thread at once, or the         *)
(* notification came when the thread had tested the queue and was not       *)
(* asleep yet, or the thread is blocked in a task by a drain that locked    *)
(* itself out (DestructorReturns).                                          *)
THEOREM EveryDestructorReturns ==
  Spec /\ []DestructorGoesOn =>
    \A p \in Publishers, w \in Callers :
      life[p] = "joining" /\ handle[p] = w ~> life[p] = "dead" \/ missed \/ dead \/ raced \/ Blocked(p)
<1>1. ASSUME NEW p \in Publishers, NEW w \in Callers
      PROVE  Spec /\ []DestructorGoesOn =>
               (life[p] = "joining" /\ handle[p] = w ~>
                  life[p] = "dead" \/ missed \/ dead \/ raced \/ Blocked(p))
  <2> DEFINE At(place) == Joins(p, w) /\ at[w] = place
             Over == life[p] = "dead" \/ missed \/ dead \/ raced \/ Blocked(p)
  <2>1. StopInv /\ life[p] = "joining" /\ handle[p] = w =>
          \/ Over \/ At("executing") \/ At("relocking") \/ At("locking") \/ At("looping")
          \/ At("testing") \/ At("ended")
    <3>1. StopInv /\ Joins(p, w) /\ ~Blocked(p) =>
            at[w] \notin {"none", "asleep", "dozing", "blocked"}
      BY AsyncAssumption DEF StopInv, HandleLeads, Started, WokenUp, Joins, Sound, Blocked
    <3>2. QED
      BY <3>1 DEF StopInv, IInv, TypeOK, Joins, Sound
  <2>2. /\ StopInv /\ [Next]_vars /\ At("executing") => At("executing")' \/ At("relocking")' \/ Over'
        /\ StopInv /\ [Next]_vars /\ At("relocking") => At("relocking")' \/ At("looping")' \/ Over'
        /\ StopInv /\ [Next]_vars /\ At("locking") => At("locking")' \/ At("looping")' \/ Over'
        /\ StopInv /\ [Next]_vars /\ At("looping") => At("looping")' \/ At("testing")' \/ Over'
        /\ StopInv /\ [Next]_vars /\ At("testing") => At("testing")' \/ At("ended")' \/ Over'
        /\ StopInv /\ [Next]_vars /\ At("ended") => At("ended")' \/ Over'
    <3>1. ASSUME StopInv, [Next]_vars, Joins(p, w), ~Over'
          PROVE  Joins(p, w)' /\ (at'[w] = at[w] \/ ThreadStep(w))
      BY <3>1, JoinPath DEF Sound
    <3>2. QED
      BY <3>1, ThreadEnds
  <2>3. /\ StopInv /\ <<ThreadStep(w)>>_vars /\ At("executing") => at'[w] = "relocking"
        /\ StopInv /\ <<ThreadStep(w)>>_vars /\ At("relocking") => at'[w] = "looping"
        /\ StopInv /\ <<ThreadStep(w)>>_vars /\ At("locking") => at'[w] = "looping"
        /\ StopInv /\ <<ThreadStep(w)>>_vars /\ At("looping") => at'[w] = "testing"
        /\ StopInv /\ <<ThreadStep(w)>>_vars /\ At("testing") => at'[w] = "ended"
    BY ThreadEnds
  <2>4. /\ ~(At("executing")' /\ at'[w] = "relocking")
        /\ ~(At("relocking")' /\ at'[w] = "looping")
        /\ ~(At("locking")' /\ at'[w] = "looping")
        /\ ~(At("looping")' /\ at'[w] = "testing")
        /\ ~(At("testing")' /\ at'[w] = "ended")
    OBVIOUS
  <2>5. StopInv /\ <<Destroy(p)>>_vars /\ At("ended") => Over'
    BY DEF Destroy, NotifyAll, Join, Joins, StopInv, IInv, TypeOK
  <2>6. StopInv /\ DestructorGoesOn =>
          /\ At("executing") \/ At("relocking") \/ At("locking") \/ At("looping") \/ At("testing")
               => ENABLED <<ThreadStep(w)>>_vars
          /\ At("ended") => ENABLED <<Destroy(p)>>_vars
    <3>1. StopInv /\ Joins(p, w) /\ at[w] \notin {"ended", "blocked"} => Ready(w)
      BY ThreadIsReady
    <3>2. Joins(p, w) /\ at[w] = "ended" => Joinable(p)
      BY DEF Joins, Joinable, Sound
    <3>3. DestructorGoesOn /\ Ready(w) => ENABLED <<ThreadStep(w)>>_vars
      BY DEF DestructorGoesOn
    <3>4. DestructorGoesOn /\ Joinable(p) => ENABLED <<Destroy(p)>>_vars
      BY DEF DestructorGoesOn
    <3>5. \A place : place \notin {"ended", "blocked"} /\ At(place) =>
            Joins(p, w) /\ at[w] \notin {"ended", "blocked"}
      OBVIOUS
    <3>6. At("ended") => Joins(p, w) /\ at[w] = "ended"
      OBVIOUS
    <3>7. QED
      BY <3>1, <3>2, <3>3, <3>4, <3>5, <3>6, Zenon
  <2>7. Spec => ThreadFairness(w) /\ OwnerFairness(p)
    BY DEF Spec, Fairness
  <2>8. QED
    BY <2>1, <2>2, <2>3, <2>4, <2>5, <2>6, <2>7, Stopped, PTL
       DEF Spec, ThreadFairness, OwnerFairness
<1>2. QED
  BY <1>1
=============================================================================
