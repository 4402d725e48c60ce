----------------------------- MODULE TimerQueue -----------------------------
(***************************************************************************)
(* What TimerManager promises the event loop: a set of timers, at most one *)
(* per descriptor, that can be started, renewed when nearly over, and run  *)
(* off in the order of their expiry.  TimerHeap implements it.             *)
(***************************************************************************)
EXTENDS Integers

CONSTANTS
  Fds,     \* descriptors of clients
  Slot,    \* a client timer's interval, signalSet::timeSlot
  Near,    \* modify_timers() renews a timer with less than this left
  MaxNow   \* bound: the last tick of the clock

VARIABLES
  timers,    \* the running timers
  now,       \* gettimeofday
  detecting  \* inside detect_timers()

vars == <<timers, now, detecting>>

Timer == [fd : Fds, time : Nat]

Init ==
  /\ timers = {}
  /\ now = 0
  /\ detecting = FALSE

Due == {t \in timers : t.time =< now}

First == {t \in timers : \A u \in timers : t.time =< u.time}

Tick ==
  /\ ~detecting
  /\ now < MaxNow
  /\ now' = now + 1
  /\ UNCHANGED <<timers, detecting>>

Start(fd) ==
  /\ ~detecting
  /\ \A t \in timers : t.fd # fd
  /\ timers' = timers \cup {[fd |-> fd, time |-> now + Slot]}
  /\ UNCHANGED <<now, detecting>>

(* An overdue timer is not renewed. *)
Renew(fd) ==
  /\ ~detecting
  /\ timers' = {IF t.fd = fd /\ t.time >= now /\ t.time - now < Near
                  THEN [t EXCEPT !.time = now + Slot] ELSE t : t \in timers}
  /\ UNCHANGED <<now, detecting>>

BeginDetect ==
  /\ ~detecting
  /\ detecting' = TRUE
  /\ UNCHANGED <<timers, now>>

(* The first of the due timers runs off. *)
Expire ==
  /\ detecting
  /\ \E t \in First \cap Due : timers' = timers \ {t}
  /\ UNCHANGED <<now, detecting>>

(* The first timer is not due: it is put off, and detecting goes on. *)
PutOff ==
  /\ detecting
  /\ Due = {}
  /\ \E t \in First :
       timers' = (timers \ {t}) \cup {[t EXCEPT !.time = now + Slot]}
  /\ UNCHANGED <<now, detecting>>

EndDetect ==
  /\ detecting
  /\ timers = {}
  /\ detecting' = FALSE
  /\ UNCHANGED <<timers, now>>

Next ==
  \/ Tick \/ BeginDetect \/ Expire \/ PutOff \/ EndDetect
  \/ \E fd \in Fds : Start(fd) \/ Renew(fd)

Spec == Init /\ [][Next]_vars
=============================================================================
