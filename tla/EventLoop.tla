----------------------------- MODULE EventLoop -----------------------------
(***************************************************************************)
(* The server's single event-loop thread: aeEventloop::start and the       *)
(* handlers it calls, the kernel objects it relies on (descriptor table,   *)
(* epoll set, timerfds, the socketpair of the backup notification), the    *)
(* client timers of TimerManager, and the canSave gate of the backups.     *)
(*                                                                         *)
(* The timer heap is the set of its entries here: detect_timers empties it *)
(* and modify_timers looks at every entry, so its order is not observable  *)
(* by the loop.  All times are relative (ticks left, ticks waited) and     *)
(* saturate, which keeps every comparison of the code exact and the state  *)
(* finite without a bound on the clock.                                    *)
(***************************************************************************)
EXTENDS Integers

CONSTANTS
  Clients,     \* connections that may be made, each of them once
  ClientFds,   \* descriptor numbers accept() can return
  TimerFds,    \* the timerfds startDetect() creates, one per strategy line
  Seconds,     \* Seconds[t]: the period of timerfd t, the strategy's key
  ListenFd,    \* the listening socket
  SaveFd,      \* the read end of the backup socketpair
  WaitSlot,    \* the timeout of epoll_wait, `timeSlot` of aeEventloop.h
  ClientSlot,  \* a client timer's interval, signalSet::timeSlot
  Near,        \* modify_timers() renews a timer with less than this left
  MaxPending,  \* bound: unread requests in one socket
  PairCap,     \* notifications that fit into the socketpair's buffer
  Commands,    \* the kinds of request clients send
  NoConn       \* "no connection": a free descriptor, no eventData entry

ASSUME FdsAssumption ==
  /\ ClientFds \subseteq Nat /\ TimerFds \subseteq Nat
  /\ ListenFd \in Nat /\ SaveFd \in Nat /\ ListenFd # SaveFd
  /\ ClientFds \cap TimerFds = {}
  /\ {ListenFd, SaveFd} \cap (ClientFds \cup TimerFds) = {}

ASSUME TimesAssumption ==
  /\ WaitSlot \in Nat \ {0} /\ ClientSlot \in Nat \ {0}
  /\ ClientSlot =< WaitSlot
  /\ Near \in Nat
  /\ Seconds \in [TimerFds -> Nat \ {0}]

ASSUME BoundsAssumption ==
  /\ MaxPending \in Nat \ {0} /\ PairCap \in Nat
  /\ Commands \subseteq {"query", "bgsave"}
  /\ NoConn \notin Clients

VARIABLES
  peer,       \* the client's end: "absent", "up", "fin" (closed) or "rst"
  pending,    \* unread requests in the connection's receive buffer
  backlog,    \* established connections accept() has not returned yet
  listening,  \* the listening socket is open and in eventData and epoll
  fdTable,    \* the process's descriptor table, client numbers only
  eventData,  \* aeEventloop::eventData, client numbers only
  interest,   \* the epoll set, without the listening socket
  timers,     \* TimerManager::heap_; `conn` records who the timer was for
  pc,         \* where the loop is: "wait", "detect" once epoll_wait timed
              \* out, "batch", "blocked" or "spin"
  batch,      \* fireList: ready descriptors still to handle
  waited,     \* ticks spent in the current epoll_wait
  expired,    \* timerfds with an unread expiration
  dueIn,      \* ticks until each timerfd expires next
  canSave,    \* aeEventloop::canSave
  notices,    \* notifications unread in the socketpair
  child,      \* 1 while a forked child has not been reaped
  idle,       \* history: ticks since the loop last read from the client
  unread      \* history: the clients with requests unread when epoll_wait
              \* returned, until it is called again

netVars   == <<peer, pending, backlog, listening>>
tableVars == <<fdTable, eventData, interest>>
loopVars  == <<pc, batch, waited>>
clockVars == <<expired, dueIn>>
saveVars  == <<canSave, notices, child>>
pastVars  == <<idle, unread>>
vars == <<netVars, tableVars, timers, loopVars, clockVars, saveVars,
          pastVars>>

-----------------------------------------------------------------------------
(* Helpers.  Some operators come with variants, named after a slip the code *)
(* could contain (RenewedLost, DueStrict, ForgetAndClose...): no action     *)
(* uses them, PROJECT.json substitutes them to test the properties.         *)

Strategy == {Seconds[t] : t \in TimerFds}

Free(fd) == fdTable[fd] = NoConn

ReadyClient(fd) ==
  /\ fd \in interest
  /\ ~Free(fd)
  /\ \/ pending[fdTable[fd]] > 0
     \/ peer[fdTable[fd]] \in {"fin", "rst"}

(* What epoll_wait reports, level triggered. *)
Ready ==
  {fd \in ClientFds : ReadyClient(fd)}
    \cup (expired \cap interest)
    \cup (IF listening /\ backlog # {} THEN {ListenFd} ELSE {})
    \cup (IF SaveFd \in interest /\ notices > 0 THEN {SaveFd} ELSE {})

(* acceptNewConnect: timer.start() with the client's interval. *)
StartTimerTwice(fd, c) ==
  timers' = timers \cup {[fd |-> fd, conn |-> c, left |-> 2 * ClientSlot]}

NoTimerStarted(fd, c) == timers' = timers

StartTimer(fd, c) ==
  timers' = timers \cup {[fd |-> fd, conn |-> c, left |-> ClientSlot]}

RenewedLost(fd) == {t \in timers : ~(t.fd = fd /\ t.left >= 0 /\ t.left < Near)}

(* modify_timers(fd): the unsigned difference of an overdue timer wraps, so *)
(* only a timer that is not overdue and has less than Near left is renewed. *)
Renewed(fd) ==
  {IF t.fd = fd /\ t.left >= 0 /\ t.left < Near
     THEN [t EXCEPT !.left = ClientSlot] ELSE t : t \in timers}

DueStrict == {t \in timers : t.left < 0}

Due == {t \in timers : t.left =< 0}

(* The descriptors kickClient removes and closes for the due timers. *)
Kicked == {fd \in ClientFds : eventData[fd] # NoConn
                                /\ \E t \in Due : t.fd = fd}

(* detect_timers with its kickClient callbacks, while entries are due. *)
KickDue ==
  /\ eventData' = [fd \in ClientFds |->
                     IF fd \in Kicked THEN NoConn ELSE eventData[fd]]
  /\ fdTable' = [fd \in ClientFds |->
                   IF fd \in Kicked THEN NoConn ELSE fdTable[fd]]
  /\ interest' = interest \ Kicked
  /\ timers' = timers \ Due

(* cmdSet::asyncSave in the parent: fork may fail, otherwise the snapshot  *)
(* is written by this thread and its result is sent to the socketpair.     *)
AsyncSave ==
  /\ canSave' = 0
  /\ \/ UNCHANGED <<notices, child>>
     \/ /\ notices < PairCap
        /\ notices' = notices + 1
        /\ child' = 1

-----------------------------------------------------------------------------
Init ==
  /\ peer = [c \in Clients |-> "absent"]
  /\ pending = [c \in Clients |-> 0]
  /\ backlog = {}
  /\ listening = TRUE
  /\ fdTable = [fd \in ClientFds |-> NoConn]
  /\ eventData = [fd \in ClientFds |-> NoConn]
  /\ interest = TimerFds
  /\ timers = {}
  /\ pc = "wait" /\ batch = {} /\ waited = 0
  /\ expired = {}
  /\ dueIn = Seconds
  /\ canSave = 1 /\ notices = 0 /\ child = 0
  /\ idle = [c \in Clients |-> 0] /\ unread = {}

-----------------------------------------------------------------------------
(* The clients and the clock *)

Connect(c) ==
  /\ listening
  /\ peer[c] = "absent"
  /\ peer' = [peer EXCEPT ![c] = "up"]
  /\ backlog' = backlog \cup {c}
  /\ UNCHANGED <<pending, listening, tableVars, timers, loopVars, clockVars,
                 saveVars, pastVars>>

Send(c) ==
  /\ peer[c] = "up"
  /\ pending[c] < MaxPending
  /\ pending' = [pending EXCEPT ![c] = @ + 1]
  /\ UNCHANGED <<peer, backlog, listening, tableVars, timers, loopVars,
                 clockVars, saveVars, pastVars>>

HangUp(c) ==
  /\ peer[c] = "up"
  /\ \E how \in {"fin", "rst"} : peer' = [peer EXCEPT ![c] = how]
  /\ UNCHANGED <<pending, backlog, listening, tableVars, timers, loopVars,
                 clockVars, saveVars, pastVars>>

(* One tick of the clock. *)
Tick ==
  /\ timers' = {[t EXCEPT !.left = IF @ >= 0 THEN @ - 1 ELSE @] : t \in timers}
  /\ waited' = IF pc = "wait" /\ waited < WaitSlot THEN waited + 1 ELSE waited
  /\ idle' = [c \in Clients |-> IF idle[c] < WaitSlot THEN idle[c] + 1
                                ELSE idle[c]]
  /\ expired' = expired \cup {t \in TimerFds : dueIn[t] = 1}
  /\ dueIn' = [t \in TimerFds |-> IF dueIn[t] = 1 THEN Seconds[t]
                                  ELSE dueIn[t] - 1]
  /\ UNCHANGED <<netVars, tableVars, pc, batch, saveVars, unread>>

(* SIGCHLD of a forked child: sigHandle reaps it, and an epoll_wait it      *)
(* interrupts starts again with its full timeout.                           *)
Interrupt ==
  /\ child = 1
  /\ child' = 0
  /\ waited' = IF pc = "wait" THEN 0 ELSE waited
  /\ UNCHANGED <<netVars, tableVars, timers, pc, batch, clockVars, canSave,
                 notices, pastVars>>

-----------------------------------------------------------------------------
(* aeEventloop::start *)

Unread == {c \in Clients : pending[c] > 0
                             /\ \E fd \in ClientFds : eventData[fd] = c}

Poll ==
  /\ pc = "wait"
  /\ Ready # {}
  /\ pc' = "batch"
  /\ batch' = Ready
  /\ unread' = Unread
  /\ UNCHANGED <<netVars, tableVars, timers, waited, clockVars, saveVars,
                 idle>>

(* epoll_wait returns 0.  Between that and the kicks anything may arrive.   *)
Timeout ==
  /\ pc = "wait"
  /\ Ready = {}
  /\ waited = WaitSlot
  /\ pc' = "detect"
  /\ unread' = Unread
  /\ UNCHANGED <<netVars, tableVars, timers, batch, waited, clockVars,
                 saveVars, idle>>

(* detect_timers kicks whatever is due, without another look at the         *)
(* sockets.  With an entry that is not due it never returns, since each     *)
(* turn of its loop puts that entry back.                                   *)
Detect ==
  /\ pc = "detect"
  /\ KickDue
  /\ pc' = IF Due = timers THEN "wait" ELSE "spin"
  /\ waited' = 0
  /\ unread' = {}
  /\ UNCHANGED <<netVars, batch, clockVars, saveVars, idle>>

(* The detect_timers call at the end of aeProcessEvent, which is commented  *)
(* out there, made after a batch.                                           *)
EndBatchDetecting ==
  /\ pc = "batch"
  /\ batch = {}
  /\ KickDue
  /\ pc' = "wait"
  /\ waited' = 0
  /\ unread' = {}
  /\ UNCHANGED <<netVars, batch, clockVars, saveVars, idle>>

EndBatch ==
  /\ pc = "batch"
  /\ batch = {}
  /\ pc' = "wait"
  /\ waited' = 0
  /\ unread' = {}
  /\ UNCHANGED <<netVars, tableVars, timers, batch, clockVars, saveVars,
                 idle>>

(* The descriptor the loop takes from the batch. *)
Take(fd) ==
  /\ pc = "batch"
  /\ fd \in batch
  /\ batch' = batch \ {fd}

(* isSaveHandle: it compares the descriptor NUMBER with the strategy's      *)
(* seconds, reads eight bytes from the descriptor and, the change counts    *)
(* being zero always, starts a backup if none has been started.             *)
SaveHandle(fd) ==
  /\ Take(fd)
  /\ fd \in Strategy
  /\ IF fd \in ClientFds /\ ~Free(fd)
       THEN LET c == fdTable[fd] IN
            \/ pending[c] > 0 /\ pending' = [pending EXCEPT ![c] = @ - 1]
            \/ UNCHANGED pending
       ELSE UNCHANGED pending
  /\ expired' = expired \ {fd}
  /\ IF canSave = 1 THEN AsyncSave ELSE UNCHANGED saveVars
  /\ UNCHANGED <<peer, backlog, listening, tableVars, timers, pc, waited,
                 dueIn, pastVars>>

(* A descriptor that is not in eventData: the notification of a finished    *)
(* backup, or a timerfd, which nobody reads.                                *)
OtherFd(fd) ==
  /\ Take(fd)
  /\ fd \in TimerFds \cup {SaveFd}
  /\ fd \notin Strategy
  /\ canSave' = IF fd = SaveFd THEN 1 ELSE canSave
  /\ notices' = IF fd = SaveFd THEN notices - 1 ELSE notices
  /\ UNCHANGED <<netVars, tableVars, timers, pc, waited, clockVars, child,
                 pastVars>>

(* acceptNewConnect, and the processRead on the listening event that        *)
(* follows it: its connFd was never set, so the read fails or, from a       *)
(* descriptor at end of file, returns 0 and the listening socket goes.      *)
Accept ==
  /\ Take(ListenFd)
  /\ ListenFd \notin Strategy
  /\ \E c \in backlog, fd \in ClientFds :
       /\ Free(fd)
       /\ \A g \in ClientFds : g < fd => ~Free(g)
       /\ fdTable' = [fdTable EXCEPT ![fd] = c]
       /\ eventData' = [eventData EXCEPT ![fd] = c]
       /\ interest' = interest \cup {fd}
       /\ StartTimer(fd, c)
       /\ idle' = [idle EXCEPT ![c] = 0]
       /\ \/ /\ backlog' = backlog \ {c}
             /\ UNCHANGED <<peer, listening>>
          \/ /\ backlog' = {}
             /\ listening' = FALSE
             /\ peer' = [d \in Clients |-> IF d \in backlog \ {c} THEN "rst"
                                           ELSE peer[d]]
  /\ UNCHANGED <<pending, pc, waited, clockVars, saveVars, unread>>

(* accept() fails: every descriptor is in use. *)
AcceptFails ==
  /\ Take(ListenFd)
  /\ ListenFd \notin Strategy
  /\ \A fd \in ClientFds : ~Free(fd)
  /\ UNCHANGED <<netVars, tableVars, timers, pc, waited, clockVars, saveVars,
                 pastVars>>

(* A client's event, past the checks of start() and aeProcessEvent(). *)
ClientEvent(fd) ==
  /\ Take(fd)
  /\ fd \in ClientFds \ Strategy
  /\ eventData[fd] # NoConn

(* processRead got a request and the command ran to completion. *)
ReadRequest(fd) ==
  /\ ClientEvent(fd)
  /\ LET c == eventData[fd] IN
       /\ pending[c] > 0
       /\ pending' = [pending EXCEPT ![c] = @ - 1]
       /\ idle' = [idle EXCEPT ![c] = 0]
  /\ timers' = Renewed(fd)
  /\ \E cmd \in Commands :
       IF cmd = "bgsave" THEN AsyncSave ELSE UNCHANGED saveVars
  /\ UNCHANGED <<peer, backlog, listening, tableVars, pc, waited, clockVars,
                 unread>>

(* The request is a bgsave and the socketpair is full: the write blocks the *)
(* only thread that could read the other end.                               *)
BgsaveBlocks(fd) ==
  /\ ClientEvent(fd)
  /\ "bgsave" \in Commands
  /\ notices = PairCap
  /\ LET c == eventData[fd] IN
       /\ pending[c] > 0
       /\ pending' = [pending EXCEPT ![c] = @ - 1]
  /\ canSave' = 0
  /\ child' = 1
  /\ pc' = "blocked"
  /\ UNCHANGED <<peer, backlog, listening, tableVars, timers, waited,
                 clockVars, notices, pastVars>>

HungUp(c) == peer[c] = "fin"

AtEof(c) == pending[c] = 0 /\ peer[c] = "fin"

(* What aeProcessEvent does at end of file. *)
ForgetAndClose(fd) ==
  /\ interest' = interest \ {fd}
  /\ eventData' = [eventData EXCEPT ![fd] = NoConn]
  /\ fdTable' = [fdTable EXCEPT ![fd] = NoConn]

ForgetNoDel(fd) ==
  /\ eventData' = [eventData EXCEPT ![fd] = NoConn]
  /\ UNCHANGED <<fdTable, interest>>

ForgetNoErase(fd) ==
  /\ interest' = interest \ {fd}
  /\ UNCHANGED <<fdTable, eventData>>

Forget(fd) ==
  /\ interest' = interest \ {fd}
  /\ eventData' = [eventData EXCEPT ![fd] = NoConn]
  /\ UNCHANGED fdTable

(* processRead returned 0: the event leaves epoll and eventData, the        *)
(* descriptor is not closed and its timer stays.                            *)
ReadEof(fd) ==
  /\ ClientEvent(fd)
  /\ AtEof(eventData[fd])
  /\ Forget(fd)
  /\ timers' = Renewed(fd)
  /\ UNCHANGED <<netVars, pc, waited, clockVars, saveVars, pastVars>>

(* processRead returned -1: the reset is reported once, then end of file. *)
ReadError(fd) ==
  /\ ClientEvent(fd)
  /\ LET c == eventData[fd] IN
       /\ pending[c] = 0
       /\ peer[c] = "rst"
       /\ peer' = [peer EXCEPT ![c] = "fin"]
  /\ timers' = Renewed(fd)
  /\ UNCHANGED <<pending, backlog, listening, tableVars, pc, waited,
                 clockVars, saveVars, pastVars>>

-----------------------------------------------------------------------------
Handle ==
  \/ Accept
  \/ AcceptFails
  \/ \E fd \in ClientFds \cup TimerFds \cup {ListenFd, SaveFd} :
        SaveHandle(fd) \/ OtherFd(fd)
  \/ \E fd \in ClientFds :
        ReadRequest(fd) \/ BgsaveBlocks(fd) \/ ReadEof(fd) \/ ReadError(fd)

LoopStep == Poll \/ Timeout \/ Detect \/ EndBatch \/ Handle

Environment == Tick \/ Interrupt \/ \E c \in Clients :
                 Connect(c) \/ Send(c) \/ HangUp(c)

Next == LoopStep \/ Environment

Spec == Init /\ [][Next]_vars

(* The loop thread is never starved and time passes. *)
FairSpec == Spec /\ WF_vars(LoopStep) /\ WF_vars(Tick)

-----------------------------------------------------------------------------
(* Properties *)

TypeOK ==
  /\ peer \in [Clients -> {"absent", "up", "fin", "rst"}]
  /\ pending \in [Clients -> 0..MaxPending]
  /\ backlog \subseteq Clients
  /\ listening \in BOOLEAN
  /\ fdTable \in [ClientFds -> Clients \cup {NoConn}]
  /\ eventData \in [ClientFds -> Clients \cup {NoConn}]
  /\ interest \subseteq ClientFds \cup TimerFds \cup {SaveFd}
  /\ timers \subseteq [fd : ClientFds, conn : Clients, left : -1..ClientSlot]
  /\ pc \in {"wait", "detect", "batch", "blocked", "spin"}
  /\ batch \subseteq ClientFds \cup TimerFds \cup {ListenFd, SaveFd}
  /\ waited \in 0..WaitSlot
  /\ expired \subseteq TimerFds
  /\ dueIn \in [TimerFds -> Nat \ {0}]
  /\ canSave \in {0, 1}
  /\ notices \in 0..PairCap
  /\ child \in {0, 1}
  /\ idle \in [Clients -> 0..WaitSlot]
  /\ unread \subseteq Clients

(* The three tables agree: a client number is in eventData exactly when it  *)
(* is in the epoll set, and then it names the connection the kernel has     *)
(* under it; no connection is registered under two numbers.                 *)
TablesAgree ==
  /\ \A fd \in ClientFds :
       /\ fd \in interest <=> eventData[fd] # NoConn
       /\ eventData[fd] # NoConn => eventData[fd] = fdTable[fd]
  /\ \A f, g \in ClientFds : ~Free(f) /\ fdTable[f] = fdTable[g] => f = g

(* A timer can outlive its client (end of file leaves it in the heap), but  *)
(* the number it will kick still belongs to the connection it was made for. *)
TimerOwnsItsFd == \A t \in timers : fdTable[t.fd] = t.conn

(* Every registered client has a timer, so none can stay for good in an     *)
(* otherwise silent server.                                                 *)
ClientHasTimer ==
  \A fd \in ClientFds :
    eventData[fd] # NoConn =>
      \E t \in timers : t.fd = fd /\ t.conn = eventData[fd]

(* detect_timers always terminates: when epoll_wait times out, every timer  *)
(* in the heap is due.                                                      *)
DetectTerminates == pc # "spin"

(* A descriptor the loop closes had been read from last a whole WaitSlot    *)
(* ago, and everything it had sent when epoll_wait timed out was read.  A   *)
(* request that arrives after that and before the close is lost unread.     *)
KickOnlyIdle ==
  [][\A fd \in ClientFds :
       fdTable[fd] # NoConn /\ fdTable'[fd] # fdTable[fd] =>
         /\ idle[fdTable[fd]] = WaitSlot
         /\ fdTable[fd] \notin unread
         /\ eventData[fd] = fdTable[fd]]_vars

(* When nothing more happens, every client is removed in the end. *)
QuietServerDropsClients ==
  <>[](Ready = {}) => <>[](\A fd \in ClientFds : eventData[fd] = NoConn)

(* Every request is read that is there while the loop waits or works: only  *)
(* one that arrives between a timeout and its kicks may be dropped, and if  *)
(* its client stays, it is read as well.                                    *)
RequestsServed ==
  \A fd \in ClientFds :
    (pc # "detect" /\ eventData[fd] # NoConn /\ pending[eventData[fd]] > 0)
      ~> (eventData[fd] # NoConn /\ pending[eventData[fd]] = 0)

(* A client that hung up leaves eventData in the end. *)
HangUpsNoticed ==
  \A c \in Clients :
    peer[c] \in {"fin", "rst"} ~> \A fd \in ClientFds : eventData[fd] # c
=============================================================================
