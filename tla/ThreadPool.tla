----------------------------- MODULE ThreadPool -----------------------------
(***************************************************************************)
(* The thread pool that writes the server's log: threadPool::commit and    *)
(* ~threadPool as the event-loop thread calls them, the lambda every       *)
(* worker runs, and the condition variable between them.                   *)
(*                                                                         *)
(* What happens under muteLock is one step where nobody could see it half  *)
(* done.  The exception is a worker that found nothing to do: it keeps the *)
(* mutex until it sleeps, and the destructor does not take the mutex.      *)
(***************************************************************************)
EXTENDS Integers, Sequences, FiniteSets, SequencesExt

CONSTANTS
  Workers,  \* the threads of the pool, THREAD_NUM in aofRecord.cpp
  Tasks     \* records that may be committed, each of them once

ASSUME PoolAssumption ==
  /\ IsFiniteSet(Workers)
  /\ Workers # {}

VARIABLES
  queue,   \* taskQueue
  stop,    \* 1 once the destructor has set the flag
  worker,  \* where each worker is in the lambda
  job,     \* job[w]: the tasks worker w has taken and not finished
  spare,   \* spareThreadNums
  owner,   \* where the thread is that commits and destroys
  log,     \* history: tasks in the order they were executed
  records  \* history: tasks that have been committed

workerVars == <<worker, job, spare>>
vars == <<queue, stop, workerVars, owner, log, records>>

-----------------------------------------------------------------------------
(* Operators named after a slip (NotPopped, NotifyNobody...) are used by no *)
(* action; PROJECT.json substitutes them to test the properties.            *)

(* A worker is "top" at the loop's test of the flag, at the "door" when it  *)
(* wants the mutex, "turning" when it holds the mutex and has found nothing *)
(* to do, "asleep" in the condition variable, "loaded" with a task, in the  *)
(* "run" of it, "done" with it, or "gone".                                  *)
Places == {"top", "door", "turning", "asleep", "loaded", "run", "done", "gone"}

At(p) == {w \in Workers : worker[w] = p}

MutexFree == At("turning") = {}

Move(w, p) == worker' = [worker EXCEPT ![w] = p]

StopOnly == stop = 1

(* The predicate of cond.wait(). *)
Awaited == stop = 1 \/ queue # <<>>

-----------------------------------------------------------------------------
Init ==
  /\ queue = <<>>
  /\ stop = 0
  /\ worker = [w \in Workers |-> "top"]
  /\ job = [w \in Workers |-> {}]
  /\ spare = Cardinality(Workers)
  /\ owner = "idle"
  /\ log = <<>>
  /\ records = {}

(* commit(): the task is queued under the mutex... *)
Commit(t) ==
  /\ owner = "idle"
  /\ t \notin records
  /\ MutexFree
  /\ queue' = Append(queue, t)
  /\ records' = records \cup {t}
  /\ owner' = "notify"
  /\ UNCHANGED <<stop, workerVars, log>>

NotifyNobody == UNCHANGED worker

WakeOne ==
  IF At("asleep") = {} THEN UNCHANGED worker
  ELSE \E w \in At("asleep") : Move(w, "door")

(* ...and one sleeper is notified after the mutex was released. *)
Notify ==
  /\ owner = "notify"
  /\ WakeOne
  /\ owner' = "idle"
  /\ UNCHANGED <<queue, stop, job, spare, log, records>>

(* ~threadPool(): the flag is set without the mutex... *)
Stop ==
  /\ owner = "idle"
  /\ stop' = 1
  /\ owner' = "stopped"
  /\ UNCHANGED <<queue, workerVars, log, records>>

(* ...everybody who sleeps now is woken... *)
NotifyAll ==
  /\ owner = "stopped"
  /\ worker' = [w \in Workers |-> IF worker[w] = "asleep" THEN "door"
                                  ELSE worker[w]]
  /\ owner' = "join"
  /\ UNCHANGED <<queue, stop, job, spare, log, records>>

(* ...and the threads are joined. *)
Joined ==
  /\ owner = "join"
  /\ At("gone") = Workers
  /\ owner' = "destroyed"
  /\ UNCHANGED <<queue, stop, workerVars, log, records>>

-----------------------------------------------------------------------------
(* while(!stop) *)
Loop(w) ==
  /\ worker[w] = "top"
  /\ Move(w, IF stop = 1 THEN "gone" ELSE "door")
  /\ UNCHANGED <<queue, stop, job, spare, owner, log, records>>

(* The mutex is taken and the predicate is false. *)
FindNothing(w) ==
  /\ worker[w] = "door"
  /\ MutexFree
  /\ ~Awaited
  /\ Move(w, "turning")
  /\ UNCHANGED <<queue, stop, job, spare, owner, log, records>>

(* cond.wait() releases the mutex and sleeps in one step. *)
Sleep(w) ==
  /\ worker[w] = "turning"
  /\ Move(w, "asleep")
  /\ UNCHANGED <<queue, stop, job, spare, owner, log, records>>

(* A wakeup nobody asked for. *)
Spurious(w) ==
  /\ worker[w] = "asleep"
  /\ Move(w, "door")
  /\ UNCHANGED <<queue, stop, job, spare, owner, log, records>>

(* Stopped, and the queue is empty: the thread returns. *)
Leave(w) ==
  /\ worker[w] = "door"
  /\ MutexFree
  /\ stop = 1
  /\ queue = <<>>
  /\ Move(w, "gone")
  /\ UNCHANGED <<queue, stop, job, spare, owner, log, records>>

NotPopped == queue

Popped == Tail(queue)

(* The first task is moved out of the queue. *)
Take(w) ==
  /\ worker[w] = "door"
  /\ MutexFree
  /\ queue # <<>>
  /\ job' = [job EXCEPT ![w] = {Head(queue)}]
  /\ queue' = Popped
  /\ Move(w, "loaded")
  /\ UNCHANGED <<stop, spare, owner, log, records>>

Begin(w) ==
  /\ worker[w] = "loaded"
  /\ spare' = spare - 1
  /\ Move(w, "run")
  /\ UNCHANGED <<queue, stop, job, owner, log, records>>

(* task(): writeAofLog() writes the record. *)
Run(w) ==
  /\ worker[w] = "run"
  /\ \E t \in job[w] : log' = Append(log, t)
  /\ job' = [job EXCEPT ![w] = {}]
  /\ Move(w, "done")
  /\ UNCHANGED <<queue, stop, spare, owner, records>>

NotReturned == spare

Returned == spare + 1

Finish(w) ==
  /\ worker[w] = "done"
  /\ spare' = Returned
  /\ Move(w, "top")
  /\ UNCHANGED <<queue, stop, job, owner, log, records>>

-----------------------------------------------------------------------------
Worker(w) ==
  \/ Loop(w) \/ FindNothing(w) \/ Sleep(w) \/ Leave(w)
  \/ Take(w) \/ Begin(w) \/ Run(w) \/ Finish(w)

Owner == Notify \/ NotifyAll \/ Joined

Next ==
  \/ \E t \in Tasks : Commit(t)
  \/ Stop
  \/ Owner
  \/ \E w \in Workers : Worker(w) \/ Spurious(w)

Spec == Init /\ [][Next]_vars

(* Threads are scheduled; nobody has to commit, to stop or to wake for      *)
(* nothing, and a committing thread goes on to its notification.            *)
FairSpec ==
  /\ Spec
  /\ WF_vars(Owner)
  /\ \A w \in Workers : WF_vars(Worker(w))

-----------------------------------------------------------------------------
(* Properties *)

(* Types; the count of spare threads stays between zero and their number. *)
TypeOK ==
  /\ queue \in Seq(Tasks)
  /\ stop \in {0, 1}
  /\ worker \in [Workers -> Places]
  /\ job \in [Workers -> SUBSET Tasks]
  /\ spare \in 0..Cardinality(Workers)
  /\ owner \in {"idle", "notify", "stopped", "join", "destroyed"}
  /\ log \in Seq(Tasks)
  /\ records \subseteq Tasks

(* Every record that was committed is in exactly one place, once: in the    *)
(* queue, with one worker, or in the log.                                   *)
EachRecordOnce ==
  /\ records = ToSet(queue) \cup ToSet(log) \cup UNION {job[w] : w \in Workers}
  /\ IsInjective(queue) /\ IsInjective(log)
  /\ ToSet(queue) \cap ToSet(log) = {}
  /\ \A v \in Workers :
       /\ job[v] \cap (ToSet(queue) \cup ToSet(log)) = {}
       /\ \A w \in Workers : v # w => job[v] \cap job[w] = {}

(* No thread sleeps beside a record nobody is coming for: while one is      *)
(* asleep, there are at most as many records in the queue as threads on     *)
(* their way to it, counting the one commit() is about to notify.           *)
NobodyOversleeps ==
  At("asleep") # {} =>
    Len(queue) =< Cardinality(At("door")) + (IF owner = "notify" THEN 1 ELSE 0)

(* A committed record is written, unless the pool is destroyed. *)
RecordsWritten ==
  \A t \in Tasks : t \in records ~> (t \in ToSet(log) \/ stop = 1)

(* threadPool.cpp: the destructor waits for the threads, and then is done. *)
DestructorReturns == stop = 1 ~> owner = "destroyed"
=============================================================================
