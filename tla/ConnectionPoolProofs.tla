------------------------ MODULE ConnectionPoolProofs ------------------------
(***************************************************************************)
(* The safety of the connection pool for any number of threads and any     *)
(* pool size, and that its calls return.                                   *)
(***************************************************************************)
EXTENDS ConnectionPool, FiniteSetTheorems, TLAPS

(* The threads at one of the given points of the code. *)
At(S) == {t \in Threads : pc[t] \in S}

LEMMA AtFinite ==
  ASSUME NEW S
  PROVE  /\ IsFiniteSet(At(S))
         /\ Cardinality(At(S)) \in Nat
         /\ Cardinality(At(S)) <= Cardinality(Threads)
         /\ Cardinality(Threads) \in Nat
  BY PoolAssumption, FS_Subset, FS_CardinalityType DEF At

(* One thread more. *)
LEMMA AtGrows ==
  ASSUME NEW S, NEW t \in Threads, t \notin At(S), At(S)' = At(S) \cup {t}
  PROVE  Cardinality(At(S)') = Cardinality(At(S)) + 1
  BY AtFinite, FS_AddElement

(* One thread fewer. *)
LEMMA AtShrinks ==
  ASSUME NEW S, NEW t \in Threads, t \in At(S), At(S)' = At(S) \ {t}
  PROVE  Cardinality(At(S)') = Cardinality(At(S)) - 1
  BY AtFinite, FS_RemoveElement

(* An empty queue, and one of n connections to h. *)
LEMMA NoneTyped == None \in [Hosts -> Nat] /\ Size(None) = 0
  BY DEF None, Hosts, Size

LEMMA OneHostTyped ==
  ASSUME NEW n \in Nat, NEW h \in Hosts
  PROVE  /\ [None EXCEPT ![h] = n] \in [Hosts -> Nat]
         /\ Size([None EXCEPT ![h] = n]) = n
  BY DEF None, Hosts, Size

(* How the pool's life and the flags of its operator go together. *)
Lifecycle ==
  /\ shuttingDown <=> phase \in {"stopping", "joined", "closed"}
  /\ phase \in {"new", "failed"} =>
       /\ active = 0 /\ switching = "no"
       /\ \A t \in Threads : pc[t] = "idle"
  /\ switching = "toStandby" => ~usingStandby

Typed == TypeOK /\ Lifecycle

LEMMA TypedInit == Init => Typed
<1> SUFFICES ASSUME Init PROVE TypeOK /\ Lifecycle
  BY DEF Typed
<1>1. /\ pc \in [Threads -> {"idle", "entering", "waiting", "woken"} \cup Borrowing]
      /\ conn \in [Threads -> Hosts]
  BY DEF Init, Borrowing, Hosts
<1>2. available \in [Hosts -> Nat] /\ standby \in [Hosts -> Nat]
  BY NoneTyped DEF Init
<1>3. TypeOK
  <2>1. active \in Int
    BY DEF Init
  <2>2. shuttingDown \in BOOLEAN /\ usingStandby \in BOOLEAN /\ wasted \in BOOLEAN
    BY DEF Init
  <2>3. phase = "new" /\ switching = "no"
    BY DEF Init
  <2>4. QED
    BY <1>1, <1>2, <2>1, <2>2, <2>3 DEF TypeOK
<1>4. Lifecycle
  BY DEF Init, Lifecycle
<1>5. QED
  BY <1>3, <1>4

(* Waking threads keeps the types. *)
LEMMA WakeTyped ==
  ASSUME NEW p \in [Threads -> {"idle", "entering", "waiting", "woken"} \cup Borrowing],
         NEW q \in WakeOne(p)
  PROVE  q \in [Threads -> {"idle", "entering", "waiting", "woken"} \cup Borrowing]
  BY DEF WakeOne, Waiting

LEMMA TypedStep == Typed /\ [Next]_vars => Typed'
<1> USE PoolAssumption
    DEF Typed, TypeOK, Lifecycle, owner, queues, None, Hosts, Size, CurrentHost, Borrowing
<1> SUFFICES ASSUME Typed, [Next]_vars PROVE Typed'
  OBVIOUS
<1>1. CASE Initialize
  BY <1>1 DEF Initialize
<1>2. CASE BeginShutdown \/ JoinMonitor \/ Clear
  <2>1. CASE BeginShutdown
    BY <2>1 DEF BeginShutdown
  <2>2. CASE JoinMonitor
    BY <2>2 DEF JoinMonitor
  <2>3. CASE Clear
    BY <2>3 DEF Clear
  <2>4. QED
    BY <1>2, <2>1, <2>2, <2>3
<1>3. CASE FailoverToStandby \/ FailbackToMaster
  BY <1>3 DEF FailoverToStandby, FailbackToMaster
<1>4. CASE SwitchToStandby
  BY <1>4 DEF SwitchToStandby, WakeAll
<1>5. CASE SwitchToMaster
  <2>1. UNCHANGED <<phase, shuttingDown, standby, active, conn, wasted>> /\ switching' = "no"
    BY <1>5 DEF SwitchToMaster
  <2>2. available' \in [Hosts -> Nat] /\ usingStandby' \in BOOLEAN
    <3>1. CASE UNCHANGED <<available, usingStandby, pc>>
      BY <3>1
    <3>2. CASE /\ \E n \in 1..PoolSize : available' = [None EXCEPT !["master"] = n]
               /\ usingStandby' = FALSE
      <4>1. PICK n \in 1..PoolSize : available' = [None EXCEPT !["master"] = n]
        BY <3>2
      <4>2. n \in Nat
        BY <4>1
      <4>3. QED
        BY <3>2, <4>1, <4>2, OneHostTyped
    <3>3. QED
      BY <1>5, <3>1, <3>2 DEF SwitchToMaster
  <2>3. /\ pc' \in [Threads -> {"idle", "entering", "waiting", "woken"} \cup Borrowing]
        /\ phase \notin {"new", "failed"}
    BY <1>5 DEF SwitchToMaster, WakeAll
  <2>4. QED
    BY <2>1, <2>2, <2>3
<1>6. CASE ReplaceFailedConnections
  BY <1>6 DEF ReplaceFailedConnections, WakeAll
<1>7. CASE TestConnections
  BY <1>7 DEF TestConnections
<1>8. ASSUME NEW t \in Threads,
             GetConnection(t) \/ SpuriousWakeup(t) \/ TimeOut(t) \/ Release(t)
      PROVE  Typed'
  <2>1. CASE GetConnection(t)
    BY <2>1 DEF GetConnection
  <2>2. CASE SpuriousWakeup(t)
    BY <2>2 DEF SpuriousWakeup
  <2>3. CASE TimeOut(t)
    BY <2>3 DEF TimeOut
  <2>4. CASE Release(t)
    BY <2>4 DEF Release
  <2>5. QED
    BY <1>8, <2>1, <2>2, <2>3, <2>4
<1>9. ASSUME NEW t \in Threads, Acquire(t) PROVE Typed'
  BY <1>9 DEF Acquire, Take
<1>10. ASSUME NEW t \in Threads, CheckConnection(t) PROVE Typed'
  BY <1>10 DEF CheckConnection
<1>11. ASSUME NEW t \in Threads, ReturnConnection(t) PROVE Typed'
  <2>1. pc' \in [Threads -> {"idle", "entering", "waiting", "woken"} \cup Borrowing]
    BY <1>11, WakeTyped DEF ReturnConnection
  <2>2. available' \in [Hosts -> Nat]
    BY <1>11 DEF ReturnConnection
  <2>3. phase \notin {"new", "failed"}
    BY <1>11 DEF ReturnConnection
  <2>4. QED
    BY <1>11, <2>1, <2>2, <2>3 DEF ReturnConnection
<1>12. CASE UNCHANGED vars
  BY <1>12 DEF vars
<1>13. QED
  BY <1>1, <1>2, <1>3, <1>4, <1>5, <1>6, <1>7, <1>8, <1>9, <1>10, <1>11, <1>12
     DEF Next, Owner, Operator, Call

LEMMA Typing == Spec => []Typed
  BY TypedInit, TypedStep, PTL DEF Spec

(* The types of the pool, and that no empty queue is read. *)
THEOREM PoolTypeCorrect == Spec => []TypeOK
  BY Typing, PTL DEF Typed
-----------------------------------------------------------------------------
(* What each step of a thread does to the borrowers.                       *)

LEMMA BorrowersAt == Borrowers = At(Borrowing) /\ Borrowers' = At(Borrowing)'
  BY DEF Borrowers, At

LEMMA WokenAt == Woken = At({"woken"}) /\ Woken' = At({"woken"})'
  BY DEF Woken, At

LEMMA CountsFinite ==
  /\ Cardinality(Borrowers) \in Nat /\ Cardinality(Borrowers') \in Nat
  /\ Cardinality(Borrowers) <= Cardinality(Threads)
  /\ Cardinality(Borrowers') <= Cardinality(Threads)
  /\ Cardinality(Woken) \in Nat /\ Cardinality(Woken') \in Nat
  /\ Cardinality(Threads) \in Nat
<1>1. /\ Borrowers \subseteq Threads /\ Borrowers' \subseteq Threads
      /\ Woken \subseteq Threads /\ Woken' \subseteq Threads
  BY DEF Borrowers, Woken
<1>2. QED
  BY <1>1, PoolAssumption, FS_Subset, FS_CardinalityType

(* A thread takes a connection. *)
LEMMA BorrowerJoins ==
  ASSUME Typed, NEW t \in Threads, pc[t] \notin Borrowing,
         pc' = [pc EXCEPT ![t] = "checking"]
  PROVE  Cardinality(Borrowers') = Cardinality(Borrowers) + 1
<1>1. Borrowers' = Borrowers \cup {t} /\ t \notin Borrowers
  BY DEF Borrowers, Borrowing, Typed, TypeOK
<1>2. QED
  BY <1>1, BorrowersAt, AtGrows

(* A thread gives one up, and may wake another. *)
LEMMA BorrowerLeaves ==
  ASSUME Typed, NEW t \in Threads, pc[t] \in Borrowing,
         pc' \in WakeOne([pc EXCEPT ![t] = "idle"])
  PROVE  Cardinality(Borrowers') = Cardinality(Borrowers) - 1
<1>1. Borrowers' = Borrowers \ {t} /\ t \in Borrowers
  BY DEF WakeOne, Waiting, Borrowers, Borrowing, Typed, TypeOK
<1>2. QED
  BY <1>1, BorrowersAt, AtShrinks

LEMMA BorrowerGivesUp ==
  ASSUME Typed, NEW t \in Threads, pc[t] \in Borrowing,
         pc' = [pc EXCEPT ![t] = "idle"]
  PROVE  Cardinality(Borrowers') = Cardinality(Borrowers) - 1
<1>1. Borrowers' = Borrowers \ {t} /\ t \in Borrowers
  BY DEF Borrowers, Borrowing, Typed, TypeOK
<1>2. QED
  BY <1>1, BorrowersAt, AtShrinks

(* Nobody takes one or gives one up. *)
LEMMA BorrowersStay ==
  ASSUME Typed,
         \/ UNCHANGED pc
         \/ pc' = WakeAll
         \/ \E t \in Threads :
              /\ pc[t] \notin Borrowing
              /\ \E x \in {"idle", "entering", "waiting", "woken"} :
                   pc' = [pc EXCEPT ![t] = x]
         \/ \E t \in Threads :
              /\ pc[t] \in Borrowing
              /\ \E x \in Borrowing : pc' = [pc EXCEPT ![t] = x]
  PROVE  Borrowers' = Borrowers
  BY DEF WakeAll, Borrowers, Borrowing, Typed, TypeOK
-----------------------------------------------------------------------------
(* activeConnections_ counts the borrowers: inductive with Typed.          *)

LEMMA ActiveStep == Typed /\ ActiveIsBorrowed /\ [Next]_vars => ActiveIsBorrowed'
<1> USE DEF ActiveIsBorrowed, owner, queues
<1> SUFFICES ASSUME Typed, ActiveIsBorrowed, [Next]_vars PROVE ActiveIsBorrowed'
  OBVIOUS
<1>1. CASE Initialize
  <2>1. Borrowers' = {}
    BY <1>1 DEF Initialize, Borrowers, Borrowing, Typed, Lifecycle
  <2>2. QED
    BY <1>1, <2>1, FS_EmptySet DEF Initialize, Typed, Lifecycle
<1>2. CASE BeginShutdown \/ JoinMonitor \/ Clear
  BY <1>2, BorrowersStay, CountsFinite DEF BeginShutdown, JoinMonitor, Clear, Typed, TypeOK
<1>3. CASE Operator \/ ReplaceFailedConnections \/ TestConnections
  <2>1. UNCHANGED <<phase, active>> /\ (UNCHANGED pc \/ pc' = WakeAll)
    BY <1>3 DEF Operator, FailoverToStandby, SwitchToStandby, FailbackToMaster,
                SwitchToMaster, ReplaceFailedConnections, TestConnections
  <2>2. QED
    BY <2>1, BorrowersStay
<1>4. ASSUME NEW t \in Threads, GetConnection(t) \/ SpuriousWakeup(t) \/ TimeOut(t)
      PROVE  ActiveIsBorrowed'
  <2>1. Borrowers' = Borrowers
    BY <1>4, BorrowersStay DEF GetConnection, SpuriousWakeup, TimeOut, Borrowing
  <2>2. QED
    BY <1>4, <2>1 DEF GetConnection, SpuriousWakeup, TimeOut
<1>5. ASSUME NEW t \in Threads, Release(t) PROVE ActiveIsBorrowed'
  <2>1. CASE shuttingDown
    <3>1. Cardinality(Borrowers') = Cardinality(Borrowers) - 1
      BY <1>5, <2>1, BorrowerGivesUp DEF Release, Borrowing
    <3>2. phase # "open"
      BY <2>1 DEF Typed, Lifecycle
    <3>3. QED
      BY <1>5, <3>1, <3>2, CountsFinite DEF Release, Typed, TypeOK
  <2>2. CASE ~shuttingDown
    <3>1. Borrowers' = Borrowers
      BY <1>5, <2>2, BorrowersStay DEF Release, Borrowing
    <3>2. QED
      BY <1>5, <3>1 DEF Release
  <2>3. QED
    BY <2>1, <2>2
<1>6. ASSUME NEW t \in Threads, Acquire(t) PROVE ActiveIsBorrowed'
  <2>1. CASE Take(t)
    <3>1. Cardinality(Borrowers') = Cardinality(Borrowers) + 1
      BY <1>6, <2>1, BorrowerJoins DEF Acquire, Take, Borrowing
    <3>2. QED
      BY <1>6, <2>1, <3>1, CountsFinite DEF Acquire, Take, Typed, TypeOK
  <2>2. CASE UNCHANGED active /\ \E x \in {"idle", "waiting"} : pc' = [pc EXCEPT ![t] = x]
    <3>1. Borrowers' = Borrowers
      BY <1>6, <2>2, BorrowersStay DEF Acquire, Borrowing
    <3>2. QED
      BY <1>6, <2>2, <3>1 DEF Acquire
  <2>3. QED
    BY <1>6, <2>1, <2>2 DEF Acquire
<1>7. ASSUME NEW t \in Threads, CheckConnection(t) PROVE ActiveIsBorrowed'
  <2>1. CASE pc' = [pc EXCEPT ![t] = "holding"] /\ active' = active
    <3>1. Borrowers' = Borrowers
      BY <1>7, <2>1, BorrowersStay DEF CheckConnection, Borrowing
    <3>2. QED
      BY <1>7, <2>1, <3>1 DEF CheckConnection
  <2>2. CASE pc' = [pc EXCEPT ![t] = "idle"] /\ active' = active - 1
    <3>1. Cardinality(Borrowers') = Cardinality(Borrowers) - 1
      BY <1>7, <2>2, BorrowerGivesUp DEF CheckConnection, Borrowing
    <3>2. QED
      BY <1>7, <2>2, <3>1, CountsFinite DEF CheckConnection, Typed, TypeOK
  <2>3. QED
    BY <1>7, <2>1, <2>2 DEF CheckConnection, Typed, TypeOK
<1>8. ASSUME NEW t \in Threads, ReturnConnection(t) PROVE ActiveIsBorrowed'
  <2>1. Cardinality(Borrowers') = Cardinality(Borrowers) - 1
    BY <1>8, BorrowerLeaves, BorrowerGivesUp DEF ReturnConnection, Borrowing
  <2>2. QED
    BY <1>8, <2>1, CountsFinite DEF ReturnConnection, Typed, TypeOK
<1>9. CASE UNCHANGED vars
  BY <1>9, BorrowersStay DEF vars
<1>10. QED
  BY <1>1, <1>2, <1>3, <1>4, <1>5, <1>6, <1>7, <1>8, <1>9 DEF Next, Owner, Call

LEMMA ActiveInit == Init => ActiveIsBorrowed
  BY DEF Init, ActiveIsBorrowed

(* The pool's count of active connections is right while it is open, for   *)
(* any number of threads, whatever fails.                                  *)
THEOREM ActiveCountIsRight == Spec => []ActiveIsBorrowed
  BY ActiveInit, ActiveStep, Typing, PTL DEF Spec
-----------------------------------------------------------------------------
(* The number of connections: PoolBound is inductive with Typed.           *)

LEMMA BoundStep == Typed /\ PoolBound /\ [Next]_vars => PoolBound'
<1> USE PoolAssumption, CountsFinite DEF PoolBound, owner, queues, Size, Hosts
<1> SUFFICES ASSUME Typed, PoolBound, [Next]_vars PROVE PoolBound'
  OBVIOUS
<1> DEFINE N == Cardinality(Threads)
<1>1. CASE Initialize
  <2>1. Borrowers' = {}
    BY <1>1 DEF Initialize, Borrowers, Borrowing, Typed, Lifecycle
  <2>2. Size(available') <= PoolSize /\ Size(standby') <= PoolSize
    BY <1>1, OneHostTyped DEF Initialize
  <2>3. Size(available') \in Nat
    BY <1>1, OneHostTyped DEF Initialize
  <2>4. Cardinality(Borrowers') = 0
    BY <2>1, FS_EmptySet
  <2>5. Size(standby') \in Nat
    BY <1>1, OneHostTyped DEF Initialize
  <2>6. QED
    BY <2>2, <2>3, <2>4, <2>5
<1>2. CASE BeginShutdown \/ JoinMonitor
  BY <1>2, BorrowersStay DEF BeginShutdown, JoinMonitor
<1>3. CASE Clear
  <2>1. Size(available') = 0 /\ Size(standby') = 0
    BY <1>3, NoneTyped DEF Clear
  <2>2. QED
    BY <2>1, <1>3 DEF Clear
<1>4. CASE FailoverToStandby \/ FailbackToMaster
  BY <1>4, BorrowersStay DEF FailoverToStandby, FailbackToMaster
<1>5. CASE SwitchToStandby
  <2>1. ~usingStandby
    BY <1>5 DEF SwitchToStandby, Typed, Lifecycle
  <2>2. Borrowers' = Borrowers
    BY <1>5, BorrowersStay DEF SwitchToStandby
  <2>3. QED
    BY <1>5, <2>1, <2>2 DEF SwitchToStandby, Typed, TypeOK
<1>6. CASE SwitchToMaster
  <2>1. Borrowers' = Borrowers
    BY <1>6, BorrowersStay DEF SwitchToMaster
  <2>2. CASE UNCHANGED <<available, usingStandby, pc>>
    BY <1>6, <2>1, <2>2 DEF SwitchToMaster
  <2>3. CASE \E n \in 1..PoolSize : available' = [None EXCEPT !["master"] = n]
    <3>1. Size(available') \in Nat /\ Size(available') <= PoolSize
      BY <2>3, OneHostTyped
    <3>2. QED
      BY <1>6, <2>1, <3>1 DEF SwitchToMaster
  <2>4. QED
    BY <1>6, <2>2, <2>3 DEF SwitchToMaster
<1>7. CASE ReplaceFailedConnections
  <2>1. Borrowers' = Borrowers
    BY <1>7, BorrowersStay DEF ReplaceFailedConnections
  <2>2. PICK k \in 1..(PoolSize - Size(available)) :
          available' = [available EXCEPT ![CurrentHost] = @ + k]
    BY <1>7 DEF ReplaceFailedConnections
  <2>3. Size(available') = Size(available) + k
    BY <2>2 DEF CurrentHost, Typed, TypeOK
  <2>4. Size(available') <= PoolSize
    BY <2>2, <2>3 DEF Typed, TypeOK
  <2>5. QED
    BY <1>7, <2>1, <2>3, <2>4 DEF ReplaceFailedConnections, Typed, TypeOK
<1>8. CASE TestConnections
  <2>1. Borrowers' = Borrowers
    BY <1>8, BorrowersStay DEF TestConnections
  <2>2. Size(available') <= Size(available) /\ Size(available') \in Nat
    BY <1>8 DEF TestConnections, Typed, TypeOK
  <2>3. QED
    BY <1>8, <2>1, <2>2 DEF TestConnections, Typed, TypeOK
<1>9. ASSUME NEW t \in Threads, GetConnection(t) \/ SpuriousWakeup(t) \/ TimeOut(t)
      PROVE  PoolBound'
  <2>1. Borrowers' = Borrowers
    BY <1>9, BorrowersStay DEF GetConnection, SpuriousWakeup, TimeOut, Borrowing
  <2>2. QED
    BY <1>9, <2>1 DEF GetConnection, SpuriousWakeup, TimeOut
<1>10. ASSUME NEW t \in Threads, Acquire(t) PROVE PoolBound'
  <2>1. CASE Take(t)
    <3>1. Cardinality(Borrowers') = Cardinality(Borrowers) + 1
      BY <1>10, <2>1, BorrowerJoins DEF Acquire, Take, Borrowing
    <3>2. Size(available') = Size(available) - 1
      BY <2>1 DEF Take, Typed, TypeOK
    <3>3. QED
      BY <1>10, <3>1, <3>2 DEF Acquire, Typed, TypeOK
  <2>2. CASE UNCHANGED available /\ \E x \in {"idle", "waiting"} : pc' = [pc EXCEPT ![t] = x]
    <3>1. Borrowers' = Borrowers
      BY <1>10, <2>2, BorrowersStay DEF Acquire, Borrowing
    <3>2. QED
      BY <1>10, <2>2, <3>1 DEF Acquire
  <2>3. QED
    BY <1>10, <2>1, <2>2 DEF Acquire
<1>11. ASSUME NEW t \in Threads, CheckConnection(t) \/ Release(t) PROVE PoolBound'
  <2>1. UNCHANGED <<available, standby, usingStandby>>
    BY <1>11 DEF CheckConnection, Release
  <2>2. Cardinality(Borrowers') <= Cardinality(Borrowers)
    BY <1>11, BorrowersStay, BorrowerGivesUp DEF CheckConnection, Release, Borrowing
  <2>3. QED
    BY <2>1, <2>2 DEF Typed, TypeOK
<1>12. ASSUME NEW t \in Threads, ReturnConnection(t) PROVE PoolBound'
  <2>1. Cardinality(Borrowers') = Cardinality(Borrowers) - 1
    BY <1>12, BorrowerLeaves, BorrowerGivesUp DEF ReturnConnection, Borrowing
  <2>2. Size(available') \in {Size(available), Size(available) + 1}
    BY <1>12 DEF ReturnConnection, Typed, TypeOK
  <2>3. QED
    BY <1>12, <2>1, <2>2 DEF ReturnConnection, Typed, TypeOK
<1>13. CASE UNCHANGED vars
  BY <1>13, BorrowersStay DEF vars
<1>14. QED
  BY <1>1, <1>2, <1>3, <1>4, <1>5, <1>6, <1>7, <1>8, <1>9, <1>10, <1>11, <1>12, <1>13
     DEF Next, Owner, Operator, Call

LEMMA BoundInit == Init => PoolBound
<1> SUFFICES ASSUME Init PROVE PoolBound
  OBVIOUS
<1>1. Size(available) = 0 /\ Size(standby) = 0
  BY NoneTyped DEF Init
<1>2. QED
  BY <1>1, PoolAssumption, CountsFinite DEF Init, PoolBound

(* The pool never has more connections than PoolBound says: for any pool   *)
(* size and number of threads, through failovers and failbacks.            *)
THEOREM PoolIsBounded == Spec => []PoolBound
  BY BoundInit, BoundStep, Typing, PTL DEF Spec
-----------------------------------------------------------------------------
(* No lost wakeup: inductive with Typed, because initialize() ends before  *)
(* any thread waits.                                                       *)

LEMMA WakeStep == Typed /\ IdleWakes /\ [Next]_vars => IdleWakes'
<1> USE CountsFinite DEF IdleWakes, owner, queues, Size, Hosts
<1> SUFFICES ASSUME Typed, IdleWakes, [Next]_vars,
                    phase' = "open", Waiting' # {}, ~wasted'
             PROVE  Size(available') <= Cardinality(Woken')
  OBVIOUS
<1>1. CASE Initialize
  BY <1>1 DEF Initialize, Waiting, Typed, Lifecycle
<1>2. CASE BeginShutdown \/ JoinMonitor \/ Clear
  BY <1>2 DEF BeginShutdown, JoinMonitor, Clear
<1>3. CASE pc' = WakeAll
  BY <1>3 DEF WakeAll, Waiting
<1>4. CASE FailoverToStandby \/ FailbackToMaster
  BY <1>4 DEF FailoverToStandby, FailbackToMaster, Waiting, Woken
<1>5. CASE SwitchToStandby \/ SwitchToMaster \/ ReplaceFailedConnections
  <2>1. CASE pc' = WakeAll
    BY <2>1, <1>3
  <2>2. CASE UNCHANGED <<available, pc>>
    BY <1>5, <2>2 DEF SwitchToStandby, SwitchToMaster, ReplaceFailedConnections, Waiting, Woken
  <2>3. QED
    BY <1>5, <2>1, <2>2 DEF SwitchToStandby, SwitchToMaster, ReplaceFailedConnections
<1>6. CASE TestConnections
  <2>1. Size(available') <= Size(available) /\ Size(available') \in Nat
    BY <1>6 DEF TestConnections, Typed, TypeOK
  <2>2. Woken' = Woken /\ Waiting' = Waiting
    BY <1>6 DEF TestConnections, Waiting, Woken
  <2>3. QED
    BY <1>6, <2>1, <2>2 DEF TestConnections, Typed, TypeOK
<1>7. ASSUME NEW t \in Threads, GetConnection(t) \/ Release(t) \/ CheckConnection(t)
      PROVE  Size(available') <= Cardinality(Woken')
  <2>1. Woken' = Woken /\ Waiting' = Waiting
    BY <1>7 DEF GetConnection, Release, CheckConnection, Waiting, Woken, Borrowing, Typed, TypeOK
  <2>2. QED
    BY <1>7, <2>1 DEF GetConnection, Release, CheckConnection
<1>8. ASSUME NEW t \in Threads, SpuriousWakeup(t)
      PROVE  Size(available') <= Cardinality(Woken')
  <2>1. Woken' = Woken \cup {t} /\ t \notin Woken /\ Waiting # {}
    BY <1>8 DEF SpuriousWakeup, Waiting, Woken, Typed, TypeOK
  <2>2. Cardinality(Woken') = Cardinality(Woken) + 1
    BY <2>1, WokenAt, AtGrows
  <2>3. QED
    BY <1>8, <2>1, <2>2 DEF SpuriousWakeup, Typed, TypeOK
<1>9. ASSUME NEW t \in Threads, TimeOut(t)
      PROVE  Size(available') <= Cardinality(Woken')
  <2>1. Woken' = Woken /\ Waiting # {}
    BY <1>9 DEF TimeOut, Waiting, Woken, Typed, TypeOK
  <2>2. QED
    BY <1>9, <2>1 DEF TimeOut
<1>10. ASSUME NEW t \in Threads, Acquire(t)
       PROVE  Size(available') <= Cardinality(Woken')
  <2>1. phase = "open" /\ ~shuttingDown /\ ~wasted
    BY <1>10 DEF Acquire, Typed, Lifecycle
  <2>2. CASE Take(t)
    <3>1. Size(available') = Size(available) - 1
      BY <2>2 DEF Take, Typed, TypeOK
    <3>2. Waiting # {}
      BY <1>10, <2>2 DEF Acquire, Take, Waiting, Typed, TypeOK
    <3>3. CASE pc[t] = "entering"
      <4>1. Woken' = Woken
        BY <2>2, <3>3 DEF Take, Woken, Typed, TypeOK
      <4>2. QED
        BY <2>1, <3>1, <3>2, <4>1 DEF Typed, TypeOK
    <3>4. CASE pc[t] = "woken"
      <4>1. Woken' = Woken \ {t} /\ t \in Woken
        BY <2>2, <3>4 DEF Take, Woken, Typed, TypeOK
      <4>2. Cardinality(Woken') = Cardinality(Woken) - 1
        BY <4>1, WokenAt, AtShrinks
      <4>3. QED
        BY <2>1, <3>1, <3>2, <4>2 DEF Typed, TypeOK
    <3>5. QED
      BY <1>10, <3>3, <3>4 DEF Acquire
  <2>3. CASE Size(available) = 0 /\ UNCHANGED available
    BY <2>3
  <2>4. QED
    BY <1>10, <2>1, <2>2, <2>3 DEF Acquire
<1>11. ASSUME NEW t \in Threads, ReturnConnection(t)
       PROVE  Size(available') <= Cardinality(Woken')
  <2>1. CASE UNCHANGED available /\ pc' = [pc EXCEPT ![t] = "idle"]
    <3>1. Woken' = Woken /\ Waiting' = Waiting
      BY <1>11, <2>1 DEF ReturnConnection, Waiting, Woken, Typed, TypeOK
    <3>2. QED
      BY <1>11, <2>1, <3>1 DEF ReturnConnection
  <2>2. CASE /\ available' = [available EXCEPT ![conn[t]] = @ + 1]
             /\ pc' \in WakeOne([pc EXCEPT ![t] = "idle"])
    <3>1. Waiting # {}
      BY <1>11, <2>2 DEF ReturnConnection, WakeOne, Waiting, Typed, TypeOK
    <3>2. PICK w \in Waiting : pc' = [[pc EXCEPT ![t] = "idle"] EXCEPT ![w] = "woken"]
      BY <2>2, <3>1 DEF WakeOne
    <3>3. Woken' = Woken \cup {w} /\ w \notin Woken /\ w \in Threads
      BY <1>11, <3>2 DEF ReturnConnection, Waiting, Woken, Typed, TypeOK
    <3>4. Cardinality(Woken') = Cardinality(Woken) + 1
      BY <3>3, WokenAt, AtGrows
    <3>5. Size(available') = Size(available) + 1
      BY <2>2 DEF Typed, TypeOK
    <3>6. QED
      BY <1>11, <3>1, <3>4, <3>5 DEF ReturnConnection, Typed, TypeOK
  <2>3. QED
    BY <1>11, <2>1, <2>2 DEF ReturnConnection
<1>12. CASE UNCHANGED vars
  BY <1>12 DEF vars, Waiting, Woken
<1>13. QED
  BY <1>1, <1>2, <1>4, <1>5, <1>6, <1>7, <1>8, <1>9, <1>10, <1>11, <1>12
     DEF Next, Owner, Operator, Call

LEMMA WakeInit == Init => IdleWakes
  BY DEF Init, IdleWakes

(* No wakeup is lost but to a thread that ran into its deadline, for any   *)
(* number of threads.                                                      *)
THEOREM NoWakeupIsLost == Spec => []IdleWakes
  BY WakeInit, WakeStep, Typing, PTL DEF Spec
-----------------------------------------------------------------------------
(* Calls return.  That a step is possible (ENABLED) is a hypothesis here,   *)
(* NeverStuck; what follows from it under fairness is proved.               *)

Calling(t) == InCall(t) \/ InWait(t)
Returned(t) == pc[t] \in {"idle", "holding"}

(* A call that has not returned is at one of its places. *)
LEMMA PlacesOfCalls ==
  ASSUME NEW t \in Threads, Typed
  PROVE  /\ Returned(t) \/ pc[t] \in {"entering", "waiting", "woken", "checking", "returning"}
         /\ Returned(t) => ~Calling(t)
  BY DEF Typed, TypeOK, Borrowing, Returned, Calling, InCall, InWait

(* Threads wake one another and do nothing else to a call. *)
LEMMA OthersWake ==
  ASSUME NEW t \in Threads, NEW u \in Threads, u # t, Typed,
         GetConnection(u) \/ SpuriousWakeup(u) \/ TimeOut(u) \/ Release(u) \/ Call(u)
  PROVE  pc'[t] = pc[t] \/ (pc[t] = "waiting" /\ pc'[t] = "woken")
<1> USE DEF Typed, TypeOK
<1>1. CASE GetConnection(u) \/ SpuriousWakeup(u) \/ TimeOut(u) \/ Release(u)
  BY <1>1 DEF GetConnection, SpuriousWakeup, TimeOut, Release
<1>2. CASE Acquire(u)
  BY <1>2 DEF Acquire, Take
<1>3. CASE CheckConnection(u)
  BY <1>3 DEF CheckConnection
<1>4. CASE ReturnConnection(u)
  BY <1>4 DEF ReturnConnection, WakeOne, Waiting
<1>5. QED
  BY <1>1, <1>2, <1>3, <1>4 DEF Call

(* So do the owner, the monitor and the operator. *)
LEMMA ManagersWake ==
  ASSUME NEW t \in Threads,
         Owner \/ Operator \/ ReplaceFailedConnections \/ TestConnections
  PROVE  pc'[t] = pc[t] \/ (pc[t] = "waiting" /\ pc'[t] = "woken")
<1>1. CASE pc' = pc
  BY <1>1
<1>2. CASE pc' = WakeAll
  BY <1>2 DEF WakeAll
<1>3. Owner => pc' = pc
  BY DEF Owner, Initialize, BeginShutdown, JoinMonitor, Clear
<1>4. Operator => pc' \in {pc, WakeAll}
  BY DEF Operator, FailoverToStandby, SwitchToStandby, FailbackToMaster, SwitchToMaster
<1>5. ReplaceFailedConnections \/ TestConnections => pc' \in {pc, WakeAll}
  BY DEF ReplaceFailedConnections, TestConnections
<1>6. QED
  BY <1>1, <1>2, <1>3, <1>4, <1>5

(* The places a call goes through, one after the other. *)
LEMMA CallPath ==
  ASSUME NEW t \in Threads, Typed, [Next]_vars
  PROVE  /\ pc[t] = "entering" =>
              pc'[t] \in {"entering", "idle", "checking", "waiting"}
         /\ pc[t] \in {"waiting", "woken"} =>
              pc'[t] \in {"waiting", "woken", "checking", "idle"}
         /\ pc[t] \in {"checking", "returning"} =>
              pc'[t] \in {pc[t], "idle", "holding"}
<1> USE DEF Typed, TypeOK
<1>1. CASE pc'[t] = pc[t] \/ (pc[t] = "waiting" /\ pc'[t] = "woken")
  BY <1>1
<1>2. CASE GetConnection(t) \/ SpuriousWakeup(t) \/ TimeOut(t) \/ Release(t)
  BY <1>2 DEF GetConnection, SpuriousWakeup, TimeOut, Release
<1>3. CASE Acquire(t)
  BY <1>3 DEF Acquire, Take
<1>4. CASE CheckConnection(t)
  BY <1>4 DEF CheckConnection
<1>5. CASE ReturnConnection(t)
  BY <1>5 DEF ReturnConnection, WakeOne, Waiting
<1>6. CASE UNCHANGED vars
  BY <1>1, <1>6 DEF vars
<1>7. QED
  BY <1>1, <1>2, <1>3, <1>4, <1>5, <1>6, OthersWake, ManagersWake DEF Next, Call

(* A step of the call, or its deadline, takes it on. *)
LEMMA CallMoves ==
  ASSUME NEW t \in Threads, Typed
  PROVE  /\ <<Call(t)>>_vars /\ pc[t] = "entering" =>
              pc'[t] \in {"idle", "checking", "waiting"}
         /\ <<Call(t)>>_vars /\ pc[t] \in {"checking", "returning"} =>
              pc'[t] \in {"idle", "holding"}
         /\ <<TimeOut(t)>>_vars /\ pc[t] \in {"waiting", "woken"} => pc'[t] = "idle"
<1> USE DEF Typed, TypeOK
<1>1. CASE Acquire(t)
  BY <1>1 DEF Acquire, Take, Call, TimeOut
<1>2. CASE CheckConnection(t)
  BY <1>2 DEF CheckConnection
<1>3. CASE ReturnConnection(t)
  BY <1>3 DEF ReturnConnection, WakeOne, Waiting
<1>4. CASE TimeOut(t)
  BY <1>4 DEF TimeOut, Call, Acquire, CheckConnection, ReturnConnection
<1>5. QED
  BY <1>1, <1>2, <1>3, <1>4 DEF Call

Ready(t) == /\ InCall(t) => ENABLED <<Call(t)>>_vars
            /\ InWait(t) => ENABLED <<TimeOut(t)>>_vars

(* One call returns. *)
LEMMA OneCallReturns ==
  ASSUME NEW t \in Threads
  PROVE  Spec /\ Fairness(t) /\ []Ready(t) => (Calling(t) ~> Returned(t))
<1> DEFINE Entering == pc[t] = "entering"
           Waits == pc[t] \in {"waiting", "woken"}
           Ending == pc[t] \in {"checking", "returning"}
<1>1. Typed => (Calling(t) => Entering \/ Waits \/ Ending)
  BY PlacesOfCalls DEF Returned
<1>2. Typed /\ [Next]_vars /\ Entering => Entering' \/ Waits' \/ Ending' \/ Returned(t)'
  BY CallPath DEF Returned
<1>3. Typed /\ [Next]_vars /\ Waits => Waits' \/ Ending' \/ Returned(t)'
  BY CallPath DEF Returned
<1>4. Typed /\ [Next]_vars /\ Ending => Ending' \/ Returned(t)'
  BY CallPath DEF Returned
<1>5. Typed /\ <<Call(t)>>_vars /\ Entering => Waits' \/ Ending' \/ Returned(t)'
  BY CallMoves DEF Returned
<1>6. Typed /\ <<Call(t)>>_vars /\ Ending => Returned(t)'
  BY CallMoves DEF Returned
<1>7. Typed /\ <<TimeOut(t)>>_vars /\ Waits => Returned(t)'
  BY CallMoves DEF Returned
<1>8. Ready(t) => /\ Entering \/ Ending => ENABLED <<Call(t)>>_vars
                  /\ Waits => ENABLED <<TimeOut(t)>>_vars
  BY DEF Ready, InCall, InWait
<1>9. QED
  BY <1>1, <1>2, <1>3, <1>4, <1>5, <1>6, <1>7, <1>8, Typing, PTL DEF Spec, Fairness

(* Every call of getConnection and returnConnection returns, of any number  *)
(* of threads, whatever the owner, the monitor, the operator and a shutdown *)
(* do meanwhile, provided that a step of it is always possible.             *)
THEOREM EveryCallReturns == FairSpec /\ []NeverStuck => CallReturns
<1>1. ASSUME NEW t \in Threads
      PROVE  FairSpec /\ []NeverStuck => (InCall(t) \/ InWait(t) ~> pc[t] \in {"idle", "holding"})
  <2>1. FairSpec => Spec /\ Fairness(t)
    BY DEF FairSpec
  <2>2. NeverStuck => Ready(t)
    BY DEF NeverStuck, Ready
  <2>3. QED
    BY <2>1, <2>2, OneCallReturns, PTL DEF Calling, Returned
<1>2. QED
  BY <1>1 DEF CallReturns
-----------------------------------------------------------------------------
(* The client a connection is made with.  The pool is proved about with a   *)
(* client that may connect; the one of this commit never does.              *)

CONSTANT HasPassword
VARIABLES context, status, at, answered, connected

Client == INSTANCE RedisClient

(* No connect() has returned true, and no client is connected. *)
NeverConnected == connected # "yes" /\ status # "CONNECTED"

(* connect() sets CONNECTED after a ping that asks for CONNECTED: no call   *)
(* of it returns true, with a password or without, whatever the server      *)
(* answers and whatever was called before.                                  *)
THEOREM ConnectAlwaysFails == Client!Spec => []NeverConnected
<1>1. Client!Init => NeverConnected
  BY DEF Client!Init, NeverConnected
<1>2. ASSUME NeverConnected, [Client!Next]_(Client!vars) PROVE NeverConnected'
  <2> USE DEF NeverConnected, Client!GiveUp
  <2>1. CASE Client!Connect
    BY <1>2, <2>1 DEF Client!Connect
  <2>2. CASE Client!Open
    BY <1>2, <2>2 DEF Client!Open
  <2>3. CASE Client!Authenticate
    BY <1>2, <2>3 DEF Client!Authenticate
  <2>4. CASE Client!FinishConnect
    BY <1>2, <2>4 DEF Client!FinishConnect, Client!Pings
  <2>5. CASE Client!Command \/ Client!Disconnect
    BY <1>2, <2>5 DEF Client!Command, Client!Disconnect
  <2>6. CASE UNCHANGED Client!vars
    BY <1>2, <2>6 DEF Client!vars
  <2>7. QED
    BY <1>2, <2>1, <2>2, <2>3, <2>4, <2>5, <2>6 DEF Client!Next
<1>3. QED
  BY <1>1, <1>2, PTL DEF Client!Spec
=============================================================================
