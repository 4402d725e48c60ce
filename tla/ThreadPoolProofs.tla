-------------------------- MODULE ThreadPoolProofs --------------------------
(***************************************************************************)
(* The safety of the thread pool for any number of threads and records:    *)
(* the count of spare threads, each record in one place, and no sleeper    *)
(* beside a record nobody is coming for.                                   *)
(***************************************************************************)
EXTENDS ThreadPool, FiniteSetTheorems, TLAPS

(* The types without the bounds of the count. *)
Typed ==
  /\ queue \in Seq(Tasks)
  /\ stop \in {0, 1}
  /\ worker \in [Workers -> Places]
  /\ job \in [Workers -> SUBSET Tasks]
  /\ owner \in {"idle", "notify", "stopped", "join", "destroyed"}
  /\ log \in Seq(Tasks)
  /\ records \subseteq Tasks

(* Threads that have left the count of spare threads. *)
Busy == At("run") \cup At("done")

SpareCounted == spare = Cardinality(Workers) - Cardinality(Busy)

(* A worker holds one task from the queue to its execution. *)
Hands ==
  \A w \in Workers :
    IF worker[w] \in {"loaded", "run"} THEN \E t \in Tasks : job[w] = {t}
    ELSE job[w] = {}

(* The window between the predicate and the sleep: the mutex is held, so    *)
(* the queue that was found empty is still empty.                           *)
TurningFromNothing == At("turning") # {} => queue = <<>>

Inv ==
  /\ Typed
  /\ SpareCounted
  /\ Hands
  /\ EachRecordOnce
  /\ TurningFromNothing
  /\ NobodyOversleeps

-----------------------------------------------------------------------------
(* Moving a worker *)

(* What a move does to the set of workers at a place. *)
LEMMA AtMoved ==
  ASSUME Typed, NEW w \in Workers, NEW p \in Places, Move(w, p),
         NEW q \in Places
  PROVE  At(q)' = IF p = q THEN At(q) \cup {w} ELSE At(q) \ {w}
BY DEF Typed, Move, At

(* Sets of workers are finite. *)
LEMMA AtFinite ==
  \A S \in SUBSET Workers :
    /\ IsFiniteSet(S)
    /\ Cardinality(S) \in Nat
    /\ Cardinality(S) =< Cardinality(Workers)
    /\ \A w \in Workers : Cardinality(S \cup {w}) =
         IF w \in S THEN Cardinality(S) ELSE Cardinality(S) + 1
    /\ \A w \in Workers : Cardinality(S \ {w}) =
         IF w \in S THEN Cardinality(S) - 1 ELSE Cardinality(S)
<1> SUFFICES ASSUME NEW S \in SUBSET Workers
             PROVE  /\ IsFiniteSet(S)
                    /\ Cardinality(S) \in Nat
                    /\ Cardinality(S) =< Cardinality(Workers)
                    /\ \A w \in Workers : Cardinality(S \cup {w}) =
                         IF w \in S THEN Cardinality(S) ELSE Cardinality(S) + 1
                    /\ \A w \in Workers : Cardinality(S \ {w}) =
                         IF w \in S THEN Cardinality(S) - 1 ELSE Cardinality(S)
  OBVIOUS
<1>1. IsFiniteSet(S) /\ Cardinality(S) =< Cardinality(Workers)
  BY PoolAssumption, FS_Subset
<1>2. Cardinality(S) \in Nat
  BY <1>1, FS_CardinalityType
<1>3. ASSUME NEW w \in Workers
      PROVE  Cardinality(S \cup {w}) =
               IF w \in S THEN Cardinality(S) ELSE Cardinality(S) + 1
  BY <1>1, FS_AddElement
<1>4. ASSUME NEW w \in Workers
      PROVE  Cardinality(S \ {w}) =
               IF w \in S THEN Cardinality(S) - 1 ELSE Cardinality(S)
  BY <1>1, FS_RemoveElement
<1> QED
  BY <1>1, <1>2, <1>3, <1>4

-----------------------------------------------------------------------------
(* The initial state *)

LEMMA InitInv == Init => Inv
<1> SUFFICES ASSUME Init PROVE Inv
  OBVIOUS
<1>1. Typed
  BY DEF Init, Typed, Places
<1>2. At("run") = {} /\ At("done") = {} /\ At("turning") = {} /\ At("asleep") = {}
  BY DEF Init, At
<1>3. Cardinality(Busy) = 0 /\ Cardinality(Workers) \in Nat
  BY <1>2, FS_EmptySet, FS_CardinalityType, PoolAssumption DEF Busy
<1>4. SpareCounted
  BY <1>3 DEF Init, SpareCounted
<1>5. Hands
  BY DEF Init, Hands
<1>6. EachRecordOnce
  BY DEF Init, EachRecordOnce, ToSet, IsInjective
<1> QED
  BY <1>1, <1>2, <1>4, <1>5, <1>6
     DEF Inv, TurningFromNothing, NobodyOversleeps

-----------------------------------------------------------------------------
(* The steps, one invariant after the other *)

LEMMA NextTyped == Inv /\ [Next]_vars => Typed'
<1> SUFFICES ASSUME Inv, [Next]_vars PROVE Typed'
  OBVIOUS
<1> USE DEF Inv, Typed, Places
<1>1. ASSUME NEW t \in Tasks, Commit(t) PROVE Typed'
  BY <1>1 DEF Commit, workerVars
<1>2. CASE Stop
  BY <1>2 DEF Stop, workerVars
<1>3. CASE Notify
  BY <1>3 DEF Notify, WakeOne, Move, At
<1>4. CASE NotifyAll
  BY <1>4 DEF NotifyAll
<1>5. CASE Joined
  BY <1>5 DEF Joined, workerVars
<1>6. ASSUME NEW w \in Workers, Loop(w) \/ FindNothing(w) \/ Sleep(w)
                                \/ Leave(w) \/ Spurious(w)
      PROVE  Typed'
  BY <1>6 DEF Loop, FindNothing, Sleep, Leave, Spurious, Move
<1>7. ASSUME NEW w \in Workers, Take(w) PROVE Typed'
  BY <1>7 DEF Take, Move, Popped
<1>8. ASSUME NEW w \in Workers, Begin(w) \/ Finish(w) PROVE Typed'
  BY <1>8 DEF Begin, Finish, Move
<1>9. ASSUME NEW w \in Workers, Run(w) PROVE Typed'
  BY <1>9 DEF Run, Move
<1>10. CASE UNCHANGED vars
  BY <1>10 DEF vars, workerVars
<1> QED
  BY <1>1, <1>2, <1>3, <1>4, <1>5, <1>6, <1>7, <1>8, <1>9, <1>10
     DEF Next, Owner, Worker

(* Begin leaves the count, Finish returns to it, nothing else touches it.   *)
LEMMA NextSpare == Inv /\ [Next]_vars => SpareCounted'
<1> SUFFICES ASSUME Inv, [Next]_vars PROVE SpareCounted'
  OBVIOUS
<1> USE DEF Inv
<1>1. ASSUME NEW w \in Workers, Begin(w) PROVE SpareCounted'
  <2>1. Busy' = Busy \cup {w} /\ w \notin Busy
    BY <1>1 DEF Begin, Move, Busy, At, Typed
  <2>2. Busy \in SUBSET Workers
    BY DEF Busy, At
  <2>3. /\ Cardinality(Busy \cup {w}) = Cardinality(Busy) + 1
        /\ Cardinality(Busy) \in Nat /\ Cardinality(Workers) \in Nat
    BY <2>1, <2>2, AtFinite
  <2> QED
    BY <1>1, <2>1, <2>3 DEF Begin, SpareCounted
<1>2. ASSUME NEW w \in Workers, Finish(w) PROVE SpareCounted'
  <2>1. Busy' = Busy \ {w} /\ w \in Busy
    BY <1>2 DEF Finish, Move, Busy, At, Typed
  <2>2. Busy \in SUBSET Workers
    BY DEF Busy, At
  <2>3. /\ Cardinality(Busy \ {w}) = Cardinality(Busy) - 1
        /\ Cardinality(Busy) \in Nat /\ Cardinality(Workers) \in Nat
    BY <2>1, <2>2, AtFinite
  <2> QED
    BY <1>2, <2>1, <2>3 DEF Finish, Returned, SpareCounted
<1>3. ASSUME NEW w \in Workers,
             \/ Loop(w) \/ FindNothing(w) \/ Sleep(w) \/ Leave(w)
             \/ Spurious(w) \/ Take(w) \/ Run(w)
      PROVE  SpareCounted'
  <2>1. Busy' = Busy /\ spare' = spare
    BY <1>3 DEF Loop, FindNothing, Sleep, Leave, Spurious, Take, Run,
                Move, Busy, At, Typed
  <2> QED
    BY <2>1 DEF SpareCounted
<1>4. CASE \/ \E t \in Tasks : Commit(t)
           \/ Stop \/ Joined \/ UNCHANGED vars
  BY <1>4 DEF Commit, Stop, Joined, vars, workerVars, SpareCounted, Busy, At
<1>5. CASE Notify \/ NotifyAll
  <2>1. Busy' = Busy /\ spare' = spare
    BY <1>5 DEF Notify, WakeOne, NotifyAll, Move, Busy, At, Typed
  <2> QED
    BY <2>1 DEF SpareCounted
<1> QED
  BY <1>1, <1>2, <1>3, <1>4, <1>5 DEF Next, Owner, Worker

LEMMA NextHands == Inv /\ [Next]_vars => Hands'
<1> SUFFICES ASSUME Inv, [Next]_vars PROVE Hands'
  OBVIOUS
<1> USE DEF Inv, Typed, Hands
<1>1. CASE \/ \E t \in Tasks : Commit(t)
           \/ Stop \/ Joined \/ UNCHANGED vars
  BY <1>1 DEF Commit, Stop, Joined, vars, workerVars
<1>2. CASE Notify
  BY <1>2 DEF Notify, WakeOne, Move, At
<1>3. CASE NotifyAll
  BY <1>3 DEF NotifyAll
<1>4. ASSUME NEW w \in Workers,
             \/ Loop(w) \/ FindNothing(w) \/ Sleep(w) \/ Leave(w)
             \/ Spurious(w) \/ Begin(w) \/ Finish(w)
      PROVE  Hands'
  BY <1>4 DEF Loop, FindNothing, Sleep, Leave, Spurious, Begin, Finish, Move
<1>5. ASSUME NEW w \in Workers, Take(w) PROVE Hands'
  <2>1. Head(queue) \in Tasks
    BY <1>5 DEF Take
  <2> QED
    BY <1>5, <2>1 DEF Take, Move
<1>6. ASSUME NEW w \in Workers, Run(w) PROVE Hands'
  BY <1>6 DEF Run, Move
<1> QED
  BY <1>1, <1>2, <1>3, <1>4, <1>5, <1>6 DEF Next, Owner, Worker

(* Only Commit, Take and Run move records.                                  *)
LEMMA NextRecords == Inv /\ [Next]_vars => EachRecordOnce'
<1> SUFFICES ASSUME Inv, [Next]_vars PROVE EachRecordOnce'
  OBVIOUS
<1> USE DEF Inv, Typed
<1>1. ASSUME NEW t \in Tasks, Commit(t) PROVE EachRecordOnce'
  <2>1. ToSet(queue') = ToSet(queue) \cup {t}
    BY <1>1 DEF Commit, ToSet
  <2>2. t \notin ToSet(queue) /\ t \notin ToSet(log)
        /\ \A w \in Workers : t \notin job[w]
    BY <1>1 DEF Commit, EachRecordOnce
  <2>3. IsInjective(queue')
    <3>1. IsInjective(queue) /\ \A i \in DOMAIN queue : queue[i] # t
      BY <2>2 DEF EachRecordOnce, ToSet
    <3>2. /\ DOMAIN queue' = DOMAIN queue \cup {Len(queue) + 1}
          /\ \A i \in DOMAIN queue : queue'[i] = queue[i]
          /\ queue'[Len(queue) + 1] = t
      BY <1>1 DEF Commit
    <3> QED
      BY <3>1, <3>2 DEF IsInjective
  <2>4. /\ log' = log /\ job' = job
        /\ records' = records \cup {t}
    BY <1>1 DEF Commit, workerVars
  <2> QED
    BY <2>1, <2>2, <2>3, <2>4 DEF EachRecordOnce
<1>2. ASSUME NEW w \in Workers, Take(w) PROVE EachRecordOnce'
  <2> DEFINE t == Head(queue)
  <2>1. queue # <<>> /\ queue' = Tail(queue) /\ t = queue[1]
        /\ job' = [job EXCEPT ![w] = {t}] /\ log' = log /\ records' = records
    BY <1>2 DEF Take, Popped
  <2>2. job[w] = {}
    BY <1>2 DEF Take, Hands
  <2>3. /\ Len(queue') = Len(queue) - 1
        /\ \A i \in DOMAIN queue' : i + 1 \in DOMAIN queue
                                    /\ queue'[i] = queue[i + 1]
        /\ \A i \in DOMAIN queue : i # 1 => i - 1 \in DOMAIN queue'
                                    /\ queue'[i - 1] = queue[i]
        /\ 1 \in DOMAIN queue
    BY <2>1
  <2>4. IsInjective(queue')
    BY <2>3 DEF EachRecordOnce, IsInjective
  <2>5. t \notin ToSet(queue')
    BY <2>1, <2>3 DEF EachRecordOnce, IsInjective, ToSet
  <2>6. ToSet(queue) = ToSet(queue') \cup {t}
    <3>1. ASSUME NEW i \in DOMAIN queue
          PROVE  queue[i] = t \/ \E j \in DOMAIN queue' : queue[i] = queue'[j]
      <4>1. CASE i = 1
        BY <2>1, <4>1
      <4>2. CASE i # 1
        BY <2>3, <4>2
      <4> QED
        BY <4>1, <4>2
    <3>2. \A i \in DOMAIN queue' : \E j \in DOMAIN queue : queue'[i] = queue[j]
      BY <2>3
    <3>3. \E j \in DOMAIN queue : t = queue[j]
      BY <2>1, <2>3
    <3> HIDE DEF t
    <3> QED
      BY <3>1, <3>2, <3>3, SMT DEF ToSet
  <2>7. /\ records = ToSet(queue) \cup ToSet(log)
                      \cup UNION {job[v] : v \in Workers}
        /\ ToSet(queue) \cap ToSet(log) = {}
        /\ t \notin ToSet(log)
        /\ \A v \in Workers : t \notin job[v]
    BY <2>6 DEF EachRecordOnce
  <2> HIDE DEF t
  <2>8. \A v \in Workers : job'[v] = IF v = w THEN {t} ELSE job[v]
    BY <2>1
  <2>9. UNION {job'[v] : v \in Workers}
          = {t} \cup UNION {job[v] : v \in Workers}
    BY <2>2, <2>8
  <2>10. records' = ToSet(queue') \cup ToSet(log')
                      \cup UNION {job'[v] : v \in Workers}
    BY <2>1, <2>6, <2>7, <2>9
  <2>11. ToSet(queue') \cap ToSet(log') = {} /\ IsInjective(log')
    BY <2>1, <2>6, <2>7 DEF EachRecordOnce
  <2>12. \A v \in Workers :
           /\ job'[v] \cap (ToSet(queue') \cup ToSet(log')) = {}
           /\ \A u \in Workers : v # u => job'[v] \cap job'[u] = {}
    BY <2>1, <2>5, <2>6, <2>7, <2>8 DEF EachRecordOnce
  <2> QED
    BY <2>4, <2>10, <2>11, <2>12 DEF EachRecordOnce
<1>3. ASSUME NEW w \in Workers, Run(w) PROVE EachRecordOnce'
  <2>1. PICK t \in job[w] : log' = Append(log, t)
    BY <1>3 DEF Run
  <2>2. job[w] = {t} /\ t \in Tasks
    BY <1>3, <2>1 DEF Run, Hands
  <2>3. ToSet(log') = ToSet(log) \cup {t}
    BY <2>1, <2>2 DEF ToSet
  <2>4. t \notin ToSet(log) /\ t \notin ToSet(queue)
        /\ \A v \in Workers : v # w => t \notin job[v]
    BY <2>2 DEF EachRecordOnce
  <2>5. IsInjective(log')
    BY <2>1, <2>2, <2>4 DEF EachRecordOnce, IsInjective, ToSet
  <2>6. job' = [job EXCEPT ![w] = {}] /\ queue' = queue /\ records' = records
    BY <1>3 DEF Run
  <2> QED
    BY <2>2, <2>3, <2>4, <2>5, <2>6 DEF EachRecordOnce
<1>4. ASSUME UNCHANGED <<queue, log, job, records>> PROVE EachRecordOnce'
  BY <1>4 DEF EachRecordOnce
<1> QED
  BY <1>1, <1>2, <1>3, <1>4
     DEF Next, Owner, Worker, Stop, Notify, NotifyAll, Joined, Loop,
         FindNothing, Sleep, Leave, Spurious, Begin, Finish, vars, workerVars

LEMMA NextTurning == Inv /\ [Next]_vars => TurningFromNothing'
<1> SUFFICES ASSUME Inv, [Next]_vars PROVE TurningFromNothing'
  OBVIOUS
<1> USE DEF Inv, Typed, TurningFromNothing, At
<1>1. ASSUME NEW t \in Tasks, Commit(t) PROVE TurningFromNothing'
  BY <1>1 DEF Commit, MutexFree, workerVars
<1>2. CASE Stop \/ Joined \/ UNCHANGED vars
  BY <1>2 DEF Stop, Joined, vars, workerVars
<1>3. CASE Notify \/ NotifyAll
  BY <1>3 DEF Notify, WakeOne, NotifyAll, Move
<1>4. ASSUME NEW w \in Workers, Take(w) PROVE TurningFromNothing'
  BY <1>4 DEF Take, MutexFree, Move
<1>5. ASSUME NEW w \in Workers, FindNothing(w) PROVE TurningFromNothing'
  BY <1>5 DEF FindNothing, Awaited
<1>6. ASSUME NEW w \in Workers,
             \/ Loop(w) \/ Sleep(w) \/ Leave(w)
             \/ Spurious(w) \/ Begin(w) \/ Run(w) \/ Finish(w)
      PROVE  TurningFromNothing'
  BY <1>6 DEF Loop, Sleep, Leave, Spurious, Begin, Run, Finish, Move
<1> QED
  BY <1>1, <1>2, <1>3, <1>4, <1>5, <1>6 DEF Next, Owner, Worker

(* A sleeper beside a full queue: Commit adds a record and the notification *)
(* to come, Notify turns that into a thread at the door, Take removes one   *)
(* of each, and threads fall asleep beside an empty queue only.             *)
LEMMA NextSleepers == Inv /\ [Next]_vars => NobodyOversleeps'
<1> SUFFICES ASSUME Inv, [Next]_vars PROVE NobodyOversleeps'
  OBVIOUS
<1> USE DEF Inv
<1>1. /\ At("door") \in SUBSET Workers /\ At("asleep") \in SUBSET Workers
      /\ Cardinality(At("door")) \in Nat /\ Len(queue) \in Nat
      /\ \A w \in Workers : Cardinality(At("door") \cup {w}) =
           IF w \in At("door") THEN Cardinality(At("door"))
           ELSE Cardinality(At("door")) + 1
      /\ \A w \in Workers : Cardinality(At("door") \ {w}) =
           IF w \in At("door") THEN Cardinality(At("door")) - 1
           ELSE Cardinality(At("door"))
  <2>1. At("door") \in SUBSET Workers /\ At("asleep") \in SUBSET Workers
    BY DEF At
  <2> QED
    BY <2>1, AtFinite DEF Typed
<1>2. ASSUME NEW t \in Tasks, Commit(t) PROVE NobodyOversleeps'
  <2>1. Len(queue') = Len(queue) + 1 /\ worker' = worker
        /\ owner = "idle" /\ owner' = "notify"
    BY <1>2 DEF Commit, workerVars, Typed
  <2> QED
    BY <1>1, <2>1 DEF NobodyOversleeps, At
<1>3. CASE Notify
  <2>1. queue' = queue /\ owner = "notify" /\ owner' = "idle"
    BY <1>3 DEF Notify
  <2>2. CASE At("asleep") = {}
    BY <1>3, <2>2 DEF Notify, WakeOne, NobodyOversleeps, At
  <2>3. ASSUME NEW w \in At("asleep"), Move(w, "door") PROVE NobodyOversleeps'
    <3>1. w \in Workers /\ w \notin At("door")
      BY DEF At
    <3>2. At("door")' = At("door") \cup {w}
      BY <2>3, <3>1, AtMoved DEF Places
    <3>3. Cardinality(At("door")') = Cardinality(At("door")) + 1
      BY <1>1, <3>1, <3>2
    <3> QED
      BY <1>1, <2>1, <2>3, <3>3 DEF NobodyOversleeps
  <2> QED
    BY <1>3, <2>2, <2>3 DEF Notify, WakeOne
<1>4. CASE Stop \/ Joined \/ UNCHANGED vars
  BY <1>1, <1>4 DEF Stop, Joined, vars, workerVars, NobodyOversleeps, At
<1>5. CASE NotifyAll
  BY <1>5 DEF NotifyAll, NobodyOversleeps, At
<1>6. ASSUME NEW w \in Workers, Take(w) PROVE NobodyOversleeps'
  <2>1. At("door")' = At("door") \ {w} /\ At("asleep")' = At("asleep") \ {w}
    BY <1>6, AtMoved DEF Take, Places
  <2>2. w \in At("door")
    BY <1>6 DEF Take, At
  <2>3. Len(queue') = Len(queue) - 1 /\ owner' = owner
    BY <1>6 DEF Take, Popped, Typed
  <2>4. Cardinality(At("door")') = Cardinality(At("door")) - 1
    BY <1>1, <2>1, <2>2
  <2> QED
    BY <1>1, <2>1, <2>3, <2>4 DEF NobodyOversleeps
<1>7. ASSUME NEW w \in Workers, FindNothing(w) \/ Sleep(w) \/ Leave(w)
      PROVE  NobodyOversleeps'
  <2>1. queue' = <<>> /\ owner' = owner
    BY <1>7 DEF FindNothing, Awaited, Sleep, Leave, TurningFromNothing, At
  <2>2. At("door")' \in SUBSET Workers
    BY DEF At
  <2>3. Cardinality(At("door")') \in Nat
    BY <2>2, AtFinite
  <2> QED
    BY <2>1, <2>3 DEF NobodyOversleeps
<1>8. ASSUME NEW w \in Workers, Loop(w) \/ Spurious(w)
      PROVE  NobodyOversleeps'
  <2>1. queue' = queue /\ owner' = owner
    BY <1>8 DEF Loop, Spurious
  <2>2. w \notin At("door")
    BY <1>8 DEF Loop, Spurious, At
  <2>3. CASE Move(w, "door")
    <3>1. At("door")' = At("door") \cup {w} /\ At("asleep")' = At("asleep") \ {w}
      BY <2>3, AtMoved DEF Places
    <3>2. Cardinality(At("door")') = Cardinality(At("door")) + 1
      BY <1>1, <2>2, <3>1
    <3> QED
      BY <1>1, <2>1, <3>1, <3>2 DEF NobodyOversleeps
  <2>4. CASE Move(w, "gone")
    <3>1. At("door")' = At("door") \ {w} /\ At("asleep")' = At("asleep") \ {w}
      BY <2>4, AtMoved DEF Places
    <3>2. Cardinality(At("door")') = Cardinality(At("door"))
      BY <1>1, <2>2, <3>1
    <3> QED
      BY <1>1, <2>1, <3>1, <3>2 DEF NobodyOversleeps
  <2> QED
    BY <1>8, <2>3, <2>4 DEF Loop, Spurious
<1>9. ASSUME NEW w \in Workers, Begin(w) \/ Run(w) \/ Finish(w)
      PROVE  NobodyOversleeps'
  <2>1. queue' = queue /\ owner' = owner
    BY <1>9 DEF Begin, Run, Finish
  <2>2. At("door")' = At("door") /\ At("asleep")' = At("asleep")
    BY <1>9 DEF Begin, Run, Finish, Move, At, Typed
  <2> QED
    BY <1>1, <2>1, <2>2 DEF NobodyOversleeps
<1> QED
  BY <1>2, <1>3, <1>4, <1>5, <1>6, <1>7, <1>8, <1>9 DEF Next, Owner, Worker

(* The inductive invariant holds in every reachable state. *)
THEOREM Invariance == Spec => []Inv
<1>1. Inv /\ [Next]_vars => Inv'
  BY NextTyped, NextSpare, NextHands, NextRecords, NextTurning, NextSleepers
     DEF Inv
<1> QED
  BY InitInv, <1>1, PTL DEF Spec

(* The types are right, and the count of spare threads is between zero and  *)
(* the number of threads.                                                   *)
THEOREM TypeCorrect == Spec => []TypeOK
<1>1. Inv => TypeOK
  <2> SUFFICES ASSUME Inv PROVE TypeOK
    OBVIOUS
  <2>1. Busy \in SUBSET Workers
    BY DEF Busy, At
  <2>2. /\ Cardinality(Busy) \in Nat /\ Cardinality(Workers) \in Nat
        /\ Cardinality(Busy) =< Cardinality(Workers)
    BY <2>1, AtFinite
  <2>3. spare \in 0..Cardinality(Workers)
    BY <2>2 DEF Inv, SpareCounted
  <2> QED
    BY <2>3 DEF Inv, Typed, TypeOK
<1> QED
  BY <1>1, Invariance, PTL

(* No record is lost, taken twice or written twice while the pool lives. *)
THEOREM RecordsAreOnce == Spec => []EachRecordOnce
<1>1. Inv => EachRecordOnce
  BY DEF Inv
<1> QED
  BY <1>1, Invariance, PTL

(* commit() loses no wakeup, whatever the number of threads. *)
THEOREM NoLostWakeup == Spec => []NobodyOversleeps
<1>1. Inv => NobodyOversleeps
  BY DEF Inv
<1> QED
  BY <1>1, Invariance, PTL
=============================================================================
