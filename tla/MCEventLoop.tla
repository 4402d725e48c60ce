---------------------------- MODULE MCEventLoop ----------------------------
(* Instances of EventLoop for TLC: descriptor numbers, strategies, clients. *)
EXTENDS EventLoop, TLC

CONSTANTS c1, c2, c3

(* Connections are interchangeable; descriptor numbers are ordered, so they *)
(* are not.                                                                 *)
ClientSymmetry == Permutations(Clients)

(* Strategy lines: none; and one of three seconds while accept() can return *)
(* descriptor 3, the number the seconds are compared with.  Three seconds   *)
(* are longer than the wait of two, so epoll_wait can time out before the   *)
(* timerfd, which nothing reads, is ready for ever.                         *)
NoTimers == [t \in {} |-> 1]
CollidingSeconds == [t \in TimerFds |-> 3]
=============================================================================
