------------------------------ MODULE TimerHeap ------------------------------
(***************************************************************************)
(* TimerManager and MyTimer: the binary heap of timerHeap.cpp, one swap    *)
(* at a time, with the index every timer keeps of its own place.  Places   *)
(* count from 1.  The operations run one after the other on the loop's     *)
(* thread; the clock is read once by each and stands still meanwhile.      *)
(* That a descriptor has one timer at most is what EventLoop shows.        *)
(***************************************************************************)
EXTENDS Integers, Sequences

CONSTANTS Fds, Slot, Near, MaxNow  \* as in TimerQueue

ASSUME HeapAssumption ==
  /\ Slot \in Nat \ {0} /\ Near \in Nat /\ MaxNow \in Nat

VARIABLES
  heap,  \* heap_: entries with their time, descriptor and index
  now,   \* gettimeofday
  pc,    \* "idle", "scan" of modify_timers, "loop" of detect_timers, "up",
         \* "down", "fire" (on_timer) or "add" (the second half of add_time)
  then,  \* where "up" and "down" go on
  op,    \* the operation: "none", "start", "modify" or "detect"
  fd,    \* the descriptor given to modify_timers
  pos,   \* its place in the heap
  at,    \* the place up_heap or down_heap is at
  cur    \* the timer last taken out of the heap

opVars == <<op, fd, pos>>
vars == <<heap, now, pc, then, opVars, at, cur>>

Entry(f, t, i) == [fd |-> f, time |-> t, index |-> i]

(* Operators named after a slip (NotReindexed, LeftAlways...) are used by   *)
(* no action; PROJECT.json substitutes them to test the properties.         *)

NotReindexed(h, i, j) == [h EXCEPT ![i] = h[j], ![j] = h[i]]

(* swap_heap: the entries change places, each timer learns its new one. *)
Swapped(h, i, j) ==
  [h EXCEPT ![i] = [h[j] EXCEPT !.index = i], ![j] = [h[i] EXCEPT !.index = j]]

Popped(h) == SubSeq(h, 1, Len(h) - 1)

Above(h, i) == i > 1 /\ h[i].time < h[i \div 2].time

-----------------------------------------------------------------------------
(* add_timer: the entry is put at the end and moves up. *)
Add(f, next) ==
  /\ heap' = Append(heap, Entry(f, now + Slot, Len(heap) + 1))
  /\ at' = Len(heap) + 1
  /\ pc' = "up"
  /\ then' = next

(* Where the entry that took the place of the removed one has to go. *)
Direction(h, i) == IF Above(h, i) THEN "up" ELSE "down"

(* The timer of a place, as remove_timer leaves it: it was swapped with the *)
(* last one and knows that.                                                 *)
TakenOut(i) ==
  IF i = Len(heap) THEN heap[i] ELSE Swapped(heap, i, Len(heap))[Len(heap)]

(* remove_timer: the last entry takes the place of the removed one. *)
Remove(i, next) ==
  IF i > Len(heap)
    THEN /\ pc' = next
         /\ UNCHANGED <<heap, then, at>>
    ELSE /\ heap' = Popped(Swapped(heap, i, Len(heap)))
         /\ then' = next
         /\ at' = i
         /\ pc' = IF i = Len(heap) THEN next ELSE Direction(heap', i)

(* One turn of up_heap. *)
Up ==
  /\ pc = "up"
  /\ IF Above(heap, at)
       THEN /\ heap' = Swapped(heap, at, at \div 2)
            /\ at' = at \div 2
            /\ UNCHANGED pc
       ELSE /\ pc' = then
            /\ UNCHANGED <<heap, at>>
  /\ UNCHANGED <<now, then, opVars, cur>>

LeftAlways(h, i) == 2 * i

(* The child down_heap compares with. *)
MinChild(h, i) ==
  IF 2 * i = Len(h) \/ h[2 * i].time < h[2 * i + 1].time THEN 2 * i
  ELSE 2 * i + 1

(* One turn of down_heap. *)
Down ==
  /\ pc = "down"
  /\ IF 2 * at =< Len(heap) /\ ~(heap[at].time < heap[MinChild(heap, at)].time)
       THEN /\ heap' = Swapped(heap, at, MinChild(heap, at))
            /\ at' = MinChild(heap, at)
            /\ UNCHANGED pc
       ELSE /\ pc' = then
            /\ UNCHANGED <<heap, at>>
  /\ UNCHANGED <<now, then, opVars, cur>>

-----------------------------------------------------------------------------
Init ==
  /\ heap = <<>>
  /\ now = 0
  /\ pc = "idle" /\ then = "idle"
  /\ op = "none" /\ fd = 0 /\ pos = 0
  /\ at = 0
  /\ cur = Entry(0, 0, 0)

Tick ==
  /\ pc = "idle"
  /\ now < MaxNow
  /\ now' = now + 1
  /\ UNCHANGED <<heap, pc, then, opVars, at, cur>>

(* MyTimer::start, when a client was accepted. *)
Start(f) ==
  /\ pc = "idle"
  /\ \A i \in DOMAIN heap : heap[i].fd # f
  /\ Add(f, "idle")
  /\ op' = "start" /\ fd' = f
  /\ UNCHANGED <<now, pos, cur>>

-----------------------------------------------------------------------------
(* modify_timers *)

Modify(f) ==
  /\ pc = "idle"
  /\ pc' = "scan"
  /\ op' = "modify" /\ fd' = f /\ pos' = 1
  /\ UNCHANGED <<heap, now, then, at, cur>>

Overlooked(e) == e.fd = fd /\ e.time - now < Near

(* The difference is unsigned: that of an overdue timer is huge. *)
Renewable(e) == e.fd = fd /\ e.time >= now /\ e.time - now < Near

ScanPast ==
  /\ pc = "scan"
  /\ pos =< Len(heap)
  /\ ~Renewable(heap[pos])
  /\ pos' = pos + 1
  /\ UNCHANGED <<heap, now, pc, then, op, fd, at, cur>>

ScanHit ==
  /\ pc = "scan"
  /\ pos =< Len(heap)
  /\ Renewable(heap[pos])
  /\ cur' = TakenOut(heap[pos].index)
  /\ pos' = pos + 1
  /\ Remove(heap[pos].index, "add")
  /\ UNCHANGED <<now, op, fd>>

ScanEnd ==
  /\ pc = "scan"
  /\ pos > Len(heap)
  /\ pc' = "idle"
  /\ UNCHANGED <<heap, now, then, opVars, at, cur>>

(* The second half of add_time: a copy of the timer is added. *)
AddAgain ==
  /\ pc = "add"
  /\ Add(cur.fd, IF op = "modify" THEN "scan" ELSE "loop")
  /\ UNCHANGED <<now, opVars, cur>>

-----------------------------------------------------------------------------
(* detect_timers *)

DueLate(e) == e.time < now

Due(e) == e.time =< now

Detect ==
  /\ pc = "idle"
  /\ pc' = "loop"
  /\ op' = "detect"
  /\ UNCHANGED <<heap, now, then, fd, pos, at, cur>>

(* The top is due: it is removed... *)
LoopDue ==
  /\ pc = "loop"
  /\ heap # <<>>
  /\ Due(heap[1])
  /\ cur' = TakenOut(heap[1].index)
  /\ Remove(heap[1].index, "fire")
  /\ UNCHANGED <<now, opVars>>

(* ...and on_timer removes what is at its index once more. *)
Fire ==
  /\ pc = "fire"
  /\ Remove(cur.index, "loop")
  /\ UNCHANGED <<now, opVars, cur>>

(* The top is not due: it is put off by its interval. *)
LoopPutOff ==
  /\ pc = "loop"
  /\ heap # <<>>
  /\ ~Due(heap[1])
  /\ cur' = TakenOut(heap[1].index)
  /\ Remove(heap[1].index, "add")
  /\ UNCHANGED <<now, opVars>>

LoopEnd ==
  /\ pc = "loop"
  /\ heap = <<>>
  /\ pc' = "idle"
  /\ UNCHANGED <<heap, now, then, opVars, at, cur>>

-----------------------------------------------------------------------------
Step ==
  \/ Up \/ Down
  \/ ScanPast \/ ScanHit \/ ScanEnd \/ AddAgain
  \/ LoopDue \/ Fire \/ LoopPutOff \/ LoopEnd

Next ==
  \/ Tick \/ Detect \/ Step
  \/ \E f \in Fds : Start(f) \/ Modify(f)

Spec == Init /\ [][Next]_vars

(* An operation that has begun runs on. *)
FairSpec == Spec /\ WF_vars(Step)

-----------------------------------------------------------------------------
(* Properties *)

Places == {"idle", "scan", "loop", "up", "down", "fire", "add"}

(* Types; an index is one of the heap. *)
TypeOK ==
  /\ heap \in Seq([fd : Fds, time : Nat, index : Nat])
  /\ \A i \in DOMAIN heap : heap[i].index \in DOMAIN heap
  /\ now \in 0..MaxNow
  /\ pc \in Places
  /\ then \in Places
  /\ op \in {"none", "start", "modify", "detect"}
  /\ fd \in Fds \cup {0} /\ pos \in Nat
  /\ at \in Nat
  /\ cur \in [fd : Fds \cup {0}, time : Nat, index : Nat]

(* Every timer in the heap knows its own place, so that removing it by its  *)
(* index removes nobody else, even half way through a sift; and a timer     *)
(* that fired has no place left: on_timer's second removal finds nobody.    *)
IndexRight ==
  /\ \A i \in DOMAIN heap : heap[i].index = i
  /\ pc = "fire" => cur.index > Len(heap)

(* Whenever no sift is running, no entry is earlier than its parent. *)
HeapOrdered ==
  pc \notin {"up", "down"} => \A i \in 2..Len(heap) : ~Above(heap, i)

(* The timers of the heap and the one that is on its way back into it. *)
Running ==
  {[fd |-> heap[i].fd, time |-> heap[i].time] : i \in DOMAIN heap}
    \cup (IF pc = "add" \/ (pc \in {"up", "down"} /\ then = "add")
            THEN {[fd |-> cur.fd, time |-> now + Slot]} ELSE {})

InDetect ==
  pc = "loop" \/ (pc # "idle" /\ op = "detect")

Queue == INSTANCE TimerQueue WITH timers <- Running, detecting <- InDetect

(* The heap keeps the promise: timers are lost, duplicated, renewed and     *)
(* expired exactly as the set says, the earliest first.                     *)
IsQueue == Queue!Spec

(* detect_timers returns if all timers were due when it was called. *)
DetectReturns ==
  (pc = "loop" /\ \A i \in DOMAIN heap : heap[i].time =< now) ~> pc = "idle"
=============================================================================
