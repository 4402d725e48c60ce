-------------------------- MODULE EventLoopProofs --------------------------
(***************************************************************************)
(* The safety of the event loop for any clients, descriptor numbers,       *)
(* strategies and time slots: type correctness, the agreement of the three *)
(* tables, timers that never point at a stranger, a detect_timers that     *)
(* always returns, kicks of idle clients only, and backups that end with   *)
(* the first.                                                              *)
(***************************************************************************)
EXTENDS EventLoop, TLAPS

(* A connection in the descriptor table was accepted: it left the backlog,  *)
(* and what is in the backlog has connected.                                *)
Accepted ==
  /\ \A fd \in ClientFds : ~Free(fd) =>
       fdTable[fd] \notin backlog /\ peer[fdTable[fd]] # "absent"
  /\ \A c \in backlog : peer[c] # "absent"

Waiting == pc \in {"wait", "detect"}

(* The race between epoll_wait's timeout and the client timers: when the    *)
(* wait has run for its whole slot, no timer has anything left.             *)
TimersRunOut ==
  /\ \A t \in timers : t.left =< ClientSlot
  /\ Waiting => \A t \in timers : t.left + waited =< WaitSlot

(* Until the kicks of an idle wait, nobody registered is read from. *)
IdleWhileWaiting ==
  Waiting => \A fd \in ClientFds :
    eventData[fd] # NoConn => idle[eventData[fd]] >= waited

(* The kicks follow a wait of the whole slot that ended with nothing to     *)
(* read from anybody registered.                                            *)
WaitWasIdle ==
  pc = "detect" => /\ waited = WaitSlot
                   /\ \A fd \in ClientFds : eventData[fd] \notin unread

(* A notification the loop is about to read is there. *)
NoticeUnread == SaveFd \in batch => notices > 0

Inv ==
  /\ TypeOK
  /\ NoticeUnread
  /\ TablesAgree
  /\ Accepted
  /\ TimerOwnsItsFd
  /\ ClientHasTimer
  /\ TimersRunOut
  /\ IdleWhileWaiting
  /\ WaitWasIdle
  /\ DetectTerminates

-----------------------------------------------------------------------------
(* Type correctness *)

(* The initial state has the right types. *)
LEMMA InitTypeOK == Init => TypeOK /\ NoticeUnread
<1> SUFFICES ASSUME Init PROVE TypeOK /\ NoticeUnread
  OBVIOUS
<1>1. NoticeUnread
  BY DEF Init, NoticeUnread
<1>2. listening \in BOOLEAN
  BY DEF Init
<1>3. /\ peer \in [Clients -> {"absent", "up", "fin", "rst"}]
      /\ pending \in [Clients -> 0..MaxPending]
      /\ fdTable \in [ClientFds -> Clients \cup {NoConn}]
      /\ eventData \in [ClientFds -> Clients \cup {NoConn}]
      /\ dueIn \in [TimerFds -> Nat \ {0}]
      /\ idle \in [Clients -> 0..WaitSlot]
  BY TimesAssumption, BoundsAssumption DEF Init
<1>4. /\ waited \in 0..WaitSlot /\ notices \in 0..PairCap
      /\ canSave \in {0, 1} /\ child \in {0, 1}
      /\ pc \in {"wait", "detect", "batch", "blocked", "spin"}
  BY TimesAssumption, BoundsAssumption DEF Init
<1> QED
  BY <1>1, <1>2, <1>3, <1>4 DEF Init, TypeOK

(* Only the loop takes a notification, and it takes it from the batch. *)
LEMMA NoticeStaysUnread ==
  ASSUME TypeOK, NoticeUnread, [Next]_vars
  PROVE  NoticeUnread'
<1> USE FdsAssumption, BoundsAssumption DEF NoticeUnread
<1>1. CASE Poll
  BY <1>1 DEF Poll, Ready, TypeOK, saveVars
<1>2. CASE Timeout \/ Detect \/ EndBatch
  BY <1>2 DEF Timeout, Detect, EndBatch, saveVars
<1>3. CASE Environment
  BY <1>3 DEF Environment, Tick, Interrupt, Connect, Send, HangUp, saveVars,
              loopVars
<1>4. CASE Handle
  BY <1>4 DEF Handle, Accept, AcceptFails, SaveHandle, OtherFd, ReadRequest,
              BgsaveBlocks, ReadEof, ReadError, ClientEvent, Take, AsyncSave,
              saveVars, TypeOK
<1>5. CASE UNCHANGED vars
  BY <1>5 DEF vars, loopVars, saveVars
<1> QED
  BY <1>1, <1>2, <1>3, <1>4, <1>5 DEF Next, LoopStep

(* Every step keeps the types. *)
LEMMA NextTypeOK ==
  ASSUME TypeOK, NoticeUnread, [Next]_vars
  PROVE  TypeOK'
<1> USE FdsAssumption, TimesAssumption, BoundsAssumption DEF pastVars
<1>1. ASSUME NEW c \in Clients, Connect(c) PROVE TypeOK'
  BY <1>1 DEF TypeOK, Connect, tableVars, loopVars, clockVars, saveVars
<1>2. ASSUME NEW c \in Clients, Send(c) PROVE TypeOK'
  BY <1>2 DEF TypeOK, Send, tableVars, loopVars, clockVars, saveVars
<1>3. ASSUME NEW c \in Clients, HangUp(c) PROVE TypeOK'
  BY <1>3 DEF TypeOK, HangUp, tableVars, loopVars, clockVars, saveVars
<1>4. CASE Tick
  <2>1. timers' \subseteq [fd : ClientFds, conn : Clients, left : -1..ClientSlot]
    BY <1>4 DEF TypeOK, Tick
  <2>2. dueIn' \in [TimerFds -> Nat \ {0}]
    BY <1>4 DEF TypeOK, Tick
  <2>3. idle' \in [Clients -> 0..WaitSlot] /\ waited' \in 0..WaitSlot
    BY <1>4 DEF TypeOK, Tick
  <2> QED
    BY <2>1, <2>2, <2>3, <1>4 DEF TypeOK, Tick, netVars, tableVars, saveVars
<1>5. CASE Interrupt
  BY <1>5 DEF TypeOK, Interrupt, netVars, tableVars, clockVars
<1>6. CASE Poll
  <2>1. Ready \subseteq ClientFds \cup TimerFds \cup {ListenFd, SaveFd}
    BY DEF Ready, TypeOK
  <2> QED
    BY <2>1, <1>6 DEF TypeOK, Poll, Unread, netVars, tableVars, clockVars,
                      saveVars
<1>18. CASE Timeout
  BY <1>18 DEF TypeOK, Timeout, Unread, netVars, tableVars, clockVars, saveVars
<1>7. CASE Detect
  <2>1. /\ fdTable' \in [ClientFds -> Clients \cup {NoConn}]
        /\ eventData' \in [ClientFds -> Clients \cup {NoConn}]
    BY <1>7 DEF TypeOK, Detect, KickDue
  <2>2. /\ interest' \subseteq ClientFds \cup TimerFds \cup {SaveFd}
        /\ timers' \subseteq [fd : ClientFds, conn : Clients,
                              left : -1..ClientSlot]
    BY <1>7 DEF TypeOK, Detect, KickDue
  <2>3. pc' \in {"wait", "detect", "batch", "blocked", "spin"} /\ waited' \in 0..WaitSlot
    BY <1>7 DEF Detect
  <2> QED
    BY <2>1, <2>2, <2>3, <1>7 DEF TypeOK, Detect, netVars, clockVars, saveVars
<1>8. CASE EndBatch
  BY <1>8 DEF TypeOK, EndBatch, netVars, tableVars, clockVars, saveVars
<1>9. CASE Accept
  <2> PICK c \in backlog, fd \in ClientFds :
        /\ fdTable' = [fdTable EXCEPT ![fd] = c]
        /\ eventData' = [eventData EXCEPT ![fd] = c]
        /\ interest' = interest \cup {fd}
        /\ StartTimer(fd, c)
        /\ idle' = [idle EXCEPT ![c] = 0]
        /\ \/ /\ backlog' = backlog \ {c}
              /\ UNCHANGED <<peer, listening>>
           \/ /\ backlog' = {}
              /\ listening' = FALSE
              /\ peer' = [d \in Clients |-> IF d \in backlog \ {c} THEN "rst"
                                            ELSE peer[d]]
    BY <1>9 DEF Accept
  <2>1. c \in Clients
    BY DEF TypeOK
  <2>2. timers' \subseteq [fd : ClientFds, conn : Clients, left : -1..ClientSlot]
    BY <2>1 DEF TypeOK, StartTimer
  <2>3. listening' \in BOOLEAN
    BY DEF TypeOK
  <2>4. peer' \in [Clients -> {"absent", "up", "fin", "rst"}]
    BY DEF TypeOK
  <2>5. backlog' \subseteq Clients
    BY DEF TypeOK
  <2>6. /\ fdTable' \in [ClientFds -> Clients \cup {NoConn}]
        /\ eventData' \in [ClientFds -> Clients \cup {NoConn}]
        /\ interest' \subseteq ClientFds \cup TimerFds \cup {SaveFd}
        /\ idle' \in [Clients -> 0..WaitSlot]
    BY <2>1 DEF TypeOK
  <2> QED
    BY <2>2, <2>3, <2>4, <2>5, <2>6, <1>9 DEF TypeOK, Accept, Take, clockVars, saveVars
<1>10. CASE AcceptFails
  BY <1>10 DEF TypeOK, AcceptFails, Take, netVars, tableVars, clockVars,
               saveVars
<1>11. ASSUME NEW fd, SaveHandle(fd) PROVE TypeOK'
  <2>1. pending' \in [Clients -> 0..MaxPending]
    BY <1>11 DEF TypeOK, SaveHandle, Free
  <2>2. canSave' \in {0, 1} /\ notices' \in 0..PairCap /\ child' \in {0, 1}
    BY <1>11 DEF TypeOK, SaveHandle, AsyncSave, saveVars
  <2> QED
    BY <2>1, <2>2, <1>11 DEF TypeOK, SaveHandle, Take, tableVars
<1>12. ASSUME NEW fd, OtherFd(fd) PROVE TypeOK'
  <2>1. notices' \in 0..PairCap
    BY <1>12 DEF TypeOK, NoticeUnread, OtherFd, Take
  <2> QED
    BY <2>1, <1>12 DEF TypeOK, OtherFd, Take, netVars, tableVars, clockVars
<1>13. ASSUME NEW fd \in ClientFds, ReadRequest(fd) PROVE TypeOK'
  <2>1. timers' \subseteq [fd : ClientFds, conn : Clients, left : -1..ClientSlot]
    BY <1>13 DEF TypeOK, ReadRequest, Renewed
  <2>2. canSave' \in {0, 1} /\ notices' \in 0..PairCap /\ child' \in {0, 1}
    BY <1>13 DEF TypeOK, ReadRequest, AsyncSave, saveVars
  <2>3. eventData[fd] \in Clients
    BY <1>13 DEF TypeOK, ReadRequest, ClientEvent
  <2>4. /\ pending' \in [Clients -> 0..MaxPending]
        /\ idle' \in [Clients -> 0..WaitSlot]
    BY <2>3, <1>13 DEF TypeOK, ReadRequest
  <2> QED
    BY <2>1, <2>2, <2>4, <1>13 DEF TypeOK, ReadRequest, ClientEvent, Take,
                                   tableVars, clockVars
<1>14. ASSUME NEW fd \in ClientFds, BgsaveBlocks(fd) PROVE TypeOK'
  <2>1. eventData[fd] \in Clients
    BY <1>14 DEF TypeOK, BgsaveBlocks, ClientEvent
  <2> QED
    BY <2>1, <1>14 DEF TypeOK, BgsaveBlocks, ClientEvent, Take, tableVars,
                       clockVars
<1>15. ASSUME NEW fd \in ClientFds, ReadEof(fd) PROVE TypeOK'
  <2>1. timers' \subseteq [fd : ClientFds, conn : Clients, left : -1..ClientSlot]
    BY <1>15 DEF TypeOK, ReadEof, Renewed
  <2> QED
    BY <2>1, <1>15 DEF TypeOK, ReadEof, Forget, ClientEvent, Take, netVars,
                       clockVars, saveVars
<1>16. ASSUME NEW fd \in ClientFds, ReadError(fd) PROVE TypeOK'
  <2>1. timers' \subseteq [fd : ClientFds, conn : Clients, left : -1..ClientSlot]
    BY <1>16 DEF TypeOK, ReadError, Renewed
  <2>2. eventData[fd] \in Clients
    BY <1>16 DEF TypeOK, ReadError, ClientEvent
  <2> QED
    BY <2>1, <2>2, <1>16 DEF TypeOK, ReadError, ClientEvent, Take, tableVars,
                             clockVars, saveVars
<1>17. CASE UNCHANGED vars
  BY <1>17 DEF TypeOK, vars, netVars, tableVars, loopVars, clockVars, saveVars
<1> QED
  BY <1>1, <1>2, <1>3, <1>4, <1>5, <1>6, <1>7, <1>8, <1>9, <1>10, <1>11,
     <1>12, <1>13, <1>14, <1>15, <1>16, <1>17, <1>18
     DEF Next, LoopStep, Handle, Environment

-----------------------------------------------------------------------------
(* The descriptor tables *)

(* A kick, an accept and an end of file change the three tables together. *)
LEMMA TablesStep ==
  ASSUME TypeOK, TablesAgree, Accepted, [Next]_vars
  PROVE  TablesAgree' /\ Accepted'
<1> USE FdsAssumption, BoundsAssumption
<1>1. ASSUME NEW c \in Clients, Connect(c) PROVE TablesAgree' /\ Accepted'
  BY <1>1 DEF TypeOK, TablesAgree, Accepted, Free, Connect, tableVars
<1>2. ASSUME NEW c \in Clients, HangUp(c) PROVE TablesAgree' /\ Accepted'
  BY <1>2 DEF TypeOK, TablesAgree, Accepted, Free, HangUp, tableVars
<1>3. ASSUME NEW fd \in ClientFds, ReadError(fd)
      PROVE  TablesAgree' /\ Accepted'
  <2>1. eventData[fd] \in Clients
    BY <1>3 DEF TypeOK, ReadError, ClientEvent
  <2> QED
    BY <2>1, <1>3 DEF TypeOK, TablesAgree, Accepted, Free, ReadError, tableVars
<1>4. CASE Detect
  <2>1. \A fd \in ClientFds :
          fd \in Kicked => fdTable'[fd] = NoConn /\ eventData'[fd] = NoConn
    BY <1>4 DEF Detect, KickDue
  <2>2. \A fd \in ClientFds :
          fd \notin Kicked => /\ fdTable'[fd] = fdTable[fd]
                              /\ eventData'[fd] = eventData[fd]
    BY <1>4 DEF Detect, KickDue
  <2>3. TablesAgree'
    BY <2>1, <2>2, <1>4 DEF TypeOK, TablesAgree, Free, Detect, KickDue
  <2>4. Accepted'
    BY <2>1, <2>2, <1>4 DEF TypeOK, Accepted, Free, Detect, netVars
  <2> QED
    BY <2>3, <2>4
<1>5. CASE Accept
  <2> PICK c \in backlog, fd \in ClientFds :
        /\ Free(fd)
        /\ fdTable' = [fdTable EXCEPT ![fd] = c]
        /\ eventData' = [eventData EXCEPT ![fd] = c]
        /\ interest' = interest \cup {fd}
        /\ \/ backlog' = backlog \ {c} /\ peer' = peer
           \/ /\ backlog' = {}
              /\ peer' = [d \in Clients |-> IF d \in backlog \ {c} THEN "rst"
                                            ELSE peer[d]]
    BY <1>5 DEF Accept
  <2>1. c \in Clients /\ c # NoConn /\ backlog' \subseteq backlog \ {c}
    BY DEF TypeOK
  <2>2. \A g \in ClientFds : ~Free(g) => fdTable[g] # c
    BY DEF Accepted
  <2>3. \A d \in Clients : peer[d] # "absent" => peer'[d] # "absent"
    BY DEF TypeOK
  <2>4. TablesAgree'
    BY <2>1, <2>2 DEF TypeOK, TablesAgree, Free
  <2>5. Accepted'
    BY <2>1, <2>2, <2>3 DEF TypeOK, Accepted, Free
  <2> QED
    BY <2>4, <2>5
<1>6. ASSUME NEW fd \in ClientFds, ReadEof(fd) PROVE TablesAgree' /\ Accepted'
  BY <1>6 DEF TypeOK, TablesAgree, Accepted, Free, ReadEof, Forget, netVars
<1>7. ASSUME UNCHANGED <<tableVars, peer, backlog>>
      PROVE  TablesAgree' /\ Accepted'
  BY <1>7 DEF TablesAgree, Accepted, Free, tableVars
<1>8. \/ UNCHANGED <<tableVars, peer, backlog>>
      \/ Detect \/ Accept
      \/ \E c \in Clients : Connect(c) \/ HangUp(c)
      \/ \E fd \in ClientFds : ReadEof(fd) \/ ReadError(fd)
  <2>1. CASE Environment
    BY <2>1 DEF Environment, Tick, Interrupt, Send, netVars
  <2>2. CASE Poll \/ Timeout \/ EndBatch
    BY <2>2 DEF Poll, Timeout, EndBatch, netVars
  <2>3. CASE Handle
    BY <2>3 DEF Handle, AcceptFails, SaveHandle, OtherFd, ReadRequest,
                BgsaveBlocks, netVars
  <2>4. CASE UNCHANGED vars
    BY <2>4 DEF vars, netVars
  <2> QED
    BY <2>1, <2>2, <2>3, <2>4 DEF Next, LoopStep
<1> QED
  BY <1>1, <1>2, <1>3, <1>4, <1>5, <1>6, <1>7, <1>8

-----------------------------------------------------------------------------
(* The client timers *)

(* Renewing timers keeps whose they are, and gives none more than a slot. *)
LEMMA RenewedTimers ==
  ASSUME TypeOK, NEW fd \in ClientFds, \A t \in timers : t.left =< ClientSlot
  PROVE  /\ \A t \in Renewed(fd) : t.left =< ClientSlot
         /\ \A t \in Renewed(fd) : \E u \in timers :
              t.fd = u.fd /\ t.conn = u.conn
         /\ \A u \in timers : \E t \in Renewed(fd) :
              t.fd = u.fd /\ t.conn = u.conn
<1> DEFINE Soon(t) == t.fd = fd /\ t.left >= 0 /\ t.left < Near
           New(t) == IF Soon(t) THEN [t EXCEPT !.left = ClientSlot] ELSE t
<1>1. Renewed(fd) = {New(t) : t \in timers}
  BY DEF Renewed
<1>2. ASSUME NEW t \in timers
      PROVE  /\ New(t).fd = t.fd /\ New(t).conn = t.conn
             /\ New(t).left =< ClientSlot
  BY <1>2, TimesAssumption DEF TypeOK
<1> HIDE DEF New
<1>3. \A u \in timers : New(u) \in Renewed(fd)
  BY <1>1
<1>4. \A t \in Renewed(fd) : \E u \in timers : t = New(u)
  BY <1>1
<1> QED
  BY <1>2, <1>3, <1>4

(* At the end of a full wait every timer is due: detect_timers empties the  *)
(* heap and returns.                                                        *)
LEMMA AllDueAtTimeout ==
  ASSUME TypeOK, TimersRunOut, WaitWasIdle, Detect
  PROVE  Due = timers /\ timers' = {} /\ pc' = "wait"
<1>1. \A t \in timers : t.left =< 0
  BY TimesAssumption DEF TypeOK, TimersRunOut, WaitWasIdle, Waiting, Detect
<1>2. Due = timers
  BY <1>1 DEF Due
<1> QED
  BY <1>2 DEF Detect, KickDue

(* No step moves a timer to another connection or takes one from a client,  *)
(* and the timers run out no later than the wait.                           *)
LEMMA TimersStep ==
  ASSUME TypeOK, TablesAgree, Accepted, TimerOwnsItsFd, ClientHasTimer,
         TimersRunOut, WaitWasIdle, [Next]_vars
  PROVE  TimerOwnsItsFd' /\ ClientHasTimer' /\ TimersRunOut'
<1> DEFINE Goal == TimerOwnsItsFd' /\ ClientHasTimer' /\ TimersRunOut'
<1> USE FdsAssumption, TimesAssumption, BoundsAssumption
<1>1. CASE Detect
  <2>1. timers' = {} /\ Due = timers
    BY <1>1, AllDueAtTimeout
  <2>2. \A fd \in ClientFds : eventData'[fd] = NoConn
    BY <2>1, <1>1 DEF Detect, KickDue, Kicked, ClientHasTimer
  <2> QED
    BY <2>1, <2>2 DEF TimerOwnsItsFd, ClientHasTimer, TimersRunOut
<1>2. CASE Tick
  <2> DEFINE Old(t) == [t EXCEPT !.left = IF @ >= 0 THEN @ - 1 ELSE @]
  <2>0. timers' = {Old(t) : t \in timers}
    BY <1>2 DEF Tick
  <2>01. ASSUME NEW t \in timers
        PROVE  /\ Old(t).fd = t.fd /\ Old(t).conn = t.conn
               /\ Old(t).left = IF t.left >= 0 THEN t.left - 1 ELSE t.left
    BY <2>01 DEF TypeOK
  <2> HIDE DEF Old
  <2>02. \A t \in timers' : \E u \in timers : t = Old(u)
    BY <2>0
  <2>1. \A t \in timers' : \E u \in timers :
          /\ t.fd = u.fd /\ t.conn = u.conn
          /\ t.left = IF u.left >= 0 THEN u.left - 1 ELSE u.left
    BY <2>01, <2>02
  <2>03. \A u \in timers : Old(u) \in timers'
    BY <2>0
  <2>2. \A u \in timers : \E t \in timers' : t.fd = u.fd /\ t.conn = u.conn
    BY <2>01, <2>03
  <2>3. TimerOwnsItsFd'
    <3>1. fdTable' = fdTable
      BY <1>2 DEF Tick, tableVars
    <3> QED
      BY <2>1, <3>1 DEF TimerOwnsItsFd
  <2>4. ClientHasTimer'
    <3>1. eventData' = eventData
      BY <1>2 DEF Tick, tableVars
    <3> QED
      BY <2>2, <3>1 DEF ClientHasTimer
  <2>5. ASSUME NEW t \in timers' PROVE t.left =< ClientSlot
    BY <2>1, <2>5 DEF TimersRunOut, TypeOK
  <2>6. ASSUME NEW t \in timers', Waiting'
        PROVE  t.left + waited' =< WaitSlot
    <3>1. PICK u \in timers :
            t.left = IF u.left >= 0 THEN u.left - 1 ELSE u.left
      BY <2>1
    <3>2. u.left \in -1..ClientSlot /\ waited \in 0..WaitSlot
      BY DEF TypeOK
    <3>3. u.left + waited =< WaitSlot
      BY <2>6, <1>2 DEF TimersRunOut, Waiting, Tick
    <3>4. waited' = waited + 1 \/ waited' = waited
      BY <1>2 DEF Tick
    <3>5. waited' =< WaitSlot
      BY <1>2, <3>2 DEF Tick
    <3> QED
      BY <3>1, <3>2, <3>3, <3>4, <3>5
  <2> QED
    BY <2>3, <2>4, <2>5, <2>6 DEF TimersRunOut
<1>3. CASE EndBatch \/ Interrupt
  <2>1. timers' = timers /\ UNCHANGED <<fdTable, eventData>>
    BY <1>3 DEF EndBatch, Interrupt, tableVars
  <2>2. Waiting' => \/ waited' = 0
                    \/ Waiting /\ waited' = waited
    BY <1>3 DEF EndBatch, Interrupt, Waiting
  <2> QED
    BY <2>1, <2>2 DEF TimerOwnsItsFd, ClientHasTimer, TimersRunOut, TypeOK
<1>4. CASE Accept
  <2> PICK c \in backlog, fd \in ClientFds :
        /\ Free(fd)
        /\ fdTable' = [fdTable EXCEPT ![fd] = c]
        /\ eventData' = [eventData EXCEPT ![fd] = c]
        /\ timers' = timers \cup {[fd |-> fd, conn |-> c, left |-> ClientSlot]}
    BY <1>4 DEF Accept, StartTimer
  <2>1. c \in Clients /\ c # NoConn
    BY DEF TypeOK
  <2>2. \A t \in timers : t.fd # fd
    BY DEF TimerOwnsItsFd, Free, TypeOK
  <2>3. TimerOwnsItsFd'
    <3>1. fdTable'[fd] = c
      BY DEF TypeOK
    <3>2. \A t \in timers : fdTable'[t.fd] = t.conn
      BY <2>2 DEF TimerOwnsItsFd, TypeOK
    <3> QED
      BY <3>1, <3>2 DEF TimerOwnsItsFd
  <2>4. ClientHasTimer'
    <3> SUFFICES ASSUME NEW g \in ClientFds, eventData'[g] # NoConn
                 PROVE  \E t \in timers' : t.fd = g /\ t.conn = eventData'[g]
      BY DEF ClientHasTimer
    <3>1. CASE g = fd
      <4> DEFINE new == [fd |-> fd, conn |-> c, left |-> ClientSlot]
      <4>1. eventData'[g] = c
        BY <3>1 DEF TypeOK
      <4>2. new \in timers' /\ new.fd = g /\ new.conn = c
        BY <3>1
      <4> QED
        BY <4>1, <4>2
    <3>2. CASE g # fd
      <4>1. eventData'[g] = eventData[g]
        BY <3>2 DEF TypeOK
      <4>2. \E t \in timers : t.fd = g /\ t.conn = eventData[g]
        BY <4>1 DEF ClientHasTimer
      <4> QED
        BY <4>1, <4>2
    <3> QED
      BY <3>1, <3>2
  <2>5. TimersRunOut'
    BY <1>4 DEF Accept, Take, TimersRunOut, Waiting, TypeOK
  <2> QED
    BY <2>3, <2>4, <2>5
<1>5. ASSUME NEW fd \in ClientFds, ReadEof(fd) PROVE Goal
  <2>1. /\ \A t \in timers' : t.left =< ClientSlot
        /\ \A t \in timers' : \E u \in timers : t.fd = u.fd /\ t.conn = u.conn
        /\ \A u \in timers : \E t \in timers' : t.fd = u.fd /\ t.conn = u.conn
    BY <1>5, RenewedTimers DEF ReadEof, TimersRunOut
  <2>2. fdTable' = fdTable /\ ~Waiting'
    BY <1>5 DEF ReadEof, Forget, ClientEvent, Take, Waiting
  <2>3. \A g \in ClientFds :
          eventData'[g] # NoConn => eventData'[g] = eventData[g]
    BY <1>5 DEF ReadEof, Forget, TypeOK
  <2>4. TimerOwnsItsFd'
    BY <2>1, <2>2 DEF TimerOwnsItsFd
  <2>5. ClientHasTimer'
    <3> SUFFICES ASSUME NEW g \in ClientFds, eventData'[g] # NoConn
                 PROVE  \E t \in timers' : t.fd = g /\ t.conn = eventData'[g]
      BY DEF ClientHasTimer
    <3>1. PICK u \in timers : u.fd = g /\ u.conn = eventData[g]
      BY <2>3 DEF ClientHasTimer
    <3> QED
      BY <2>1, <2>3, <3>1
  <2>6. TimersRunOut'
    BY <2>1, <2>2 DEF TimersRunOut
  <2> QED
    BY <2>4, <2>5, <2>6
<1>6. ASSUME NEW fd \in ClientFds, ReadRequest(fd) \/ ReadError(fd) PROVE Goal
  <2>1. timers' = Renewed(fd) /\ UNCHANGED <<fdTable, eventData>>
    BY <1>6 DEF ReadRequest, ReadError, tableVars
  <2>2. /\ \A t \in timers' : t.left =< ClientSlot
        /\ \A t \in timers' : \E u \in timers : t.fd = u.fd /\ t.conn = u.conn
        /\ \A u \in timers : \E t \in timers' : t.fd = u.fd /\ t.conn = u.conn
    BY <2>1, RenewedTimers DEF TimersRunOut
  <2>3. ~Waiting'
    BY <1>6 DEF ReadRequest, ReadError, ClientEvent, Take, Waiting
  <2>4. TimerOwnsItsFd'
    BY <2>1, <2>2 DEF TimerOwnsItsFd
  <2>5. ClientHasTimer'
    <3> SUFFICES ASSUME NEW g \in ClientFds, eventData[g] # NoConn
                 PROVE  \E t \in timers' : t.fd = g /\ t.conn = eventData[g]
      BY <2>1 DEF ClientHasTimer
    <3>1. PICK u \in timers : u.fd = g /\ u.conn = eventData[g]
      BY DEF ClientHasTimer
    <3> QED
      BY <2>2, <3>1
  <2>6. TimersRunOut'
    BY <2>2, <2>3 DEF TimersRunOut
  <2> QED
    BY <2>4, <2>5, <2>6
<1>7. ASSUME timers' = timers, UNCHANGED <<fdTable, eventData>>,
             Waiting' => Waiting /\ waited' = waited
      PROVE  Goal
  BY <1>7 DEF TimerOwnsItsFd, ClientHasTimer, TimersRunOut
<1>8. \/ /\ timers' = timers /\ UNCHANGED <<fdTable, eventData>>
         /\ Waiting' => Waiting /\ waited' = waited
      \/ Detect \/ EndBatch \/ Accept \/ Tick \/ Interrupt
      \/ \E fd \in ClientFds : ReadEof(fd) \/ ReadRequest(fd) \/ ReadError(fd)
  <2>1. CASE Environment
    BY <2>1 DEF Environment, Connect, Send, HangUp, tableVars, loopVars, Waiting
  <2>2. CASE Poll \/ Timeout
    BY <2>2 DEF Poll, Timeout, tableVars, Waiting
  <2>3. CASE Handle
    BY <2>3 DEF Handle, AcceptFails, SaveHandle, OtherFd, BgsaveBlocks,
                ClientEvent, Take, tableVars, Waiting
  <2>4. CASE UNCHANGED vars
    BY <2>4 DEF vars, tableVars, loopVars, Waiting
  <2> QED
    BY <2>1, <2>2, <2>3, <2>4 DEF Next, LoopStep
<1> QED
  BY <1>1, <1>2, <1>3, <1>4, <1>5, <1>6, <1>7, <1>8

-----------------------------------------------------------------------------
(* Idle clients *)

(* A read happens outside the wait, so nobody's idle time falls below it. *)
LEMMA IdleStep ==
  ASSUME TypeOK, IdleWhileWaiting, [Next]_vars
  PROVE  IdleWhileWaiting'
<1> USE TimesAssumption DEF IdleWhileWaiting, Waiting
<1>1. CASE Tick
  <2> SUFFICES ASSUME Waiting', NEW fd \in ClientFds,
                      eventData'[fd] # NoConn
               PROVE  idle'[eventData'[fd]] >= waited'
    OBVIOUS
  <2>1. eventData[fd] \in Clients /\ eventData'[fd] = eventData[fd]
    BY <1>1 DEF Tick, tableVars, TypeOK
  <2>2. /\ idle[eventData[fd]] \in 0..WaitSlot /\ waited \in 0..WaitSlot
        /\ idle[eventData[fd]] >= waited
    BY <2>1, <1>1 DEF Tick, TypeOK
  <2>3. idle'[eventData[fd]] =
          IF idle[eventData[fd]] < WaitSlot THEN idle[eventData[fd]] + 1
          ELSE idle[eventData[fd]]
    BY <2>1, <1>1 DEF Tick
  <2>4. waited' = waited \/ (waited < WaitSlot /\ waited' = waited + 1)
    BY <1>1 DEF Tick
  <2> QED
    BY <2>1, <2>2, <2>3, <2>4
<1>2. CASE EndBatch \/ (Interrupt /\ pc # "detect") \/ Detect
  <2>1. Waiting' => waited' = 0 /\ idle' = idle
    BY <1>2 DEF EndBatch, Interrupt, Detect, pastVars
  <2>2. eventData' \in [ClientFds -> Clients \cup {NoConn}]
    BY <1>2 DEF EndBatch, Interrupt, Detect, KickDue, tableVars, TypeOK
  <2> QED
    BY <2>1, <2>2 DEF TypeOK
<1>3. ASSUME Waiting' => Waiting /\ UNCHANGED <<idle, waited, eventData>>
      PROVE  IdleWhileWaiting'
  BY <1>3
<1>4. \/ Waiting' => Waiting /\ UNCHANGED <<idle, waited, eventData>>
      \/ Tick \/ EndBatch \/ (Interrupt /\ pc # "detect") \/ Detect
  <2>1. CASE Environment
    BY <2>1 DEF Environment, Connect, Send, HangUp, Interrupt, tableVars, loopVars,
                pastVars
  <2>2. CASE Poll \/ Timeout
    BY <2>2 DEF Poll, Timeout, tableVars
  <2>3. CASE Handle
    BY <2>3 DEF Handle, Accept, AcceptFails, SaveHandle, OtherFd, ReadRequest,
                BgsaveBlocks, ReadEof, ReadError, ClientEvent, Take
  <2>4. CASE UNCHANGED vars
    BY <2>4 DEF vars, tableVars, loopVars, pastVars
  <2> QED
    BY <2>1, <2>2, <2>3, <2>4 DEF Next, LoopStep
<1> QED
  BY <1>1, <1>2, <1>3, <1>4

(* When the wait times out, a registered client has nothing unread, and     *)
(* until the kicks nobody is registered.                                    *)
LEMMA WaitStep ==
  ASSUME TypeOK, TablesAgree, WaitWasIdle, [Next]_vars
  PROVE  WaitWasIdle'
<1> USE DEF WaitWasIdle
<1>1. CASE Timeout
  <2>1. waited' = WaitSlot /\ eventData' = eventData /\ unread' = Unread
    BY <1>1 DEF Timeout, tableVars
  <2>2. ASSUME NEW fd \in ClientFds, eventData[fd] \in Unread PROVE FALSE
    <3>1. eventData[fd] # NoConn /\ pending[eventData[fd]] > 0
      BY <2>2, BoundsAssumption DEF Unread
    <3>2. fd \in interest /\ fdTable[fd] = eventData[fd]
      BY <3>1 DEF TablesAgree
    <3>3. fd \in Ready
      BY <3>1, <3>2 DEF Ready, ReadyClient, Free
    <3> QED
      BY <3>3, <1>1 DEF Timeout
  <2> QED
    BY <2>1, <2>2
<1>2. ASSUME pc' = "detect" => pc = "detect" /\ UNCHANGED <<waited, eventData, unread>>
      PROVE  WaitWasIdle'
  BY <1>2
<1>3. \/ pc' = "detect" => pc = "detect" /\ UNCHANGED <<waited, eventData, unread>>
      \/ Timeout
  <2>1. CASE Environment
    BY <2>1 DEF Environment, Connect, Send, HangUp, Tick, Interrupt, tableVars,
                loopVars, pastVars
  <2>2. CASE Poll \/ EndBatch \/ Detect
    BY <2>2 DEF Poll, EndBatch, Detect
  <2>3. CASE Handle
    BY <2>3 DEF Handle, Accept, AcceptFails, SaveHandle, OtherFd, ReadRequest,
                BgsaveBlocks, ReadEof, ReadError, ClientEvent, Take
  <2>4. CASE UNCHANGED vars
    BY <2>4 DEF vars, tableVars, loopVars, pastVars
  <2> QED
    BY <2>1, <2>2, <2>3, <2>4 DEF Next, LoopStep
<1> QED
  BY <1>1, <1>2, <1>3

(* Only detect_timers could leave the loop spinning, and it does not. *)
LEMMA DetectStep ==
  ASSUME TypeOK, TimersRunOut, WaitWasIdle, DetectTerminates, [Next]_vars
  PROVE  DetectTerminates'
<1> USE DEF DetectTerminates
<1>1. CASE Detect
  BY <1>1, AllDueAtTimeout
<1>2. CASE Environment
  BY <1>2 DEF Environment, Tick, Interrupt, Connect, Send, HangUp, loopVars
<1>3. CASE Poll \/ Timeout \/ EndBatch
  BY <1>3 DEF Poll, Timeout, EndBatch
<1>4. CASE Handle
  BY <1>4 DEF Handle, Accept, AcceptFails, SaveHandle, OtherFd, ReadRequest,
              BgsaveBlocks, ReadEof, ReadError
<1>5. CASE UNCHANGED vars
  BY <1>5 DEF vars, loopVars
<1> QED
  BY <1>1, <1>2, <1>3, <1>4, <1>5 DEF Next, LoopStep

-----------------------------------------------------------------------------
(* The invariant *)

(* The initial state satisfies the inductive invariant. *)
LEMMA InitInv == Init => Inv
<1> SUFFICES ASSUME Init PROVE Inv
  OBVIOUS
<1>1. TypeOK /\ NoticeUnread
  BY InitTypeOK
<1>2. /\ \A fd \in ClientFds : fd \notin interest
      /\ \A fd \in ClientFds : eventData[fd] = NoConn /\ fdTable[fd] = NoConn
  BY FdsAssumption DEF Init
<1>3. TablesAgree /\ Accepted
  BY <1>2 DEF TablesAgree, Accepted, Free, Init
<1>4. /\ TimerOwnsItsFd /\ ClientHasTimer /\ TimersRunOut
      /\ IdleWhileWaiting /\ WaitWasIdle
  BY <1>2 DEF TimerOwnsItsFd, ClientHasTimer, TimersRunOut, IdleWhileWaiting,
              WaitWasIdle, Init
<1>5. DetectTerminates
  BY DEF DetectTerminates, Init
<1> QED
  BY <1>1, <1>3, <1>4, <1>5 DEF Inv

(* Every step preserves the inductive invariant. *)
LEMMA NextInv == Inv /\ [Next]_vars => Inv'
BY NoticeStaysUnread, NextTypeOK, TablesStep, TimersStep, IdleStep, WaitStep, DetectStep
   DEF Inv

(* The inductive invariant holds in every reachable state. *)
THEOREM Invariance == Spec => []Inv
<1>1. Init => Inv
  BY InitInv
<1>2. Inv /\ [Next]_vars => Inv'
  BY NextInv
<1> QED
  BY <1>1, <1>2, PTL DEF Spec

(* The loop's state always has the declared types. *)
THEOREM TypeCorrect == Spec => []TypeOK
<1>1. Inv => TypeOK
  BY DEF Inv
<1> QED
  BY <1>1, Invariance, PTL

(* A stale timer never points at a descriptor that belongs to somebody     *)
(* else: a kick can only hit the client the timer was started for.          *)
THEOREM TimersAreSafe == Spec => []TimerOwnsItsFd
<1>1. Inv => TimerOwnsItsFd
  BY DEF Inv
<1> QED
  BY <1>1, Invariance, PTL

(* eventData, the epoll set and the descriptor table always agree. *)
THEOREM TablesAlwaysAgree == Spec => []TablesAgree
<1>1. Inv => TablesAgree
  BY DEF Inv
<1> QED
  BY <1>1, Invariance, PTL

(* Every client in eventData has a timer, so a silent server drops it.     *)
THEOREM ClientsHaveTimers == Spec => []ClientHasTimer
<1>1. Inv => ClientHasTimer
  BY DEF Inv
<1> QED
  BY <1>1, Invariance, PTL

(* detect_timers never loops for ever: the only assumption is that a        *)
(* client's time slot is not longer than the loop's.                        *)
THEOREM DetectAlwaysTerminates == Spec => []DetectTerminates
<1>1. Inv => DetectTerminates
  BY DEF Inv
<1> QED
  BY <1>1, Invariance, PTL

(* The descriptors a step closes belong to clients nobody read from for the *)
(* whole slot, with nothing unread when epoll_wait timed out.               *)
THEOREM KicksOnlyIdle == Spec => KickOnlyIdle
<1> DEFINE Kick == \A fd \in ClientFds :
       fdTable[fd] # NoConn /\ fdTable'[fd] # fdTable[fd] =>
         /\ idle[fdTable[fd]] = WaitSlot
         /\ fdTable[fd] \notin unread
         /\ eventData[fd] = fdTable[fd]
<1>1. Inv /\ [Next]_vars => [Kick]_vars
  <2> SUFFICES ASSUME Inv, [Next]_vars, NEW fd \in ClientFds,
                      fdTable[fd] # NoConn, fdTable'[fd] # fdTable[fd]
               PROVE  /\ idle[fdTable[fd]] = WaitSlot
                      /\ fdTable[fd] \notin unread
                      /\ eventData[fd] = fdTable[fd]
    OBVIOUS
  <2>1. CASE Environment
    BY <2>1 DEF Environment, Tick, Interrupt, Connect, Send, HangUp, tableVars
  <2>2. CASE Poll \/ Timeout \/ EndBatch
    BY <2>2 DEF Poll, Timeout, EndBatch, tableVars
  <2>3. CASE Handle /\ ~Accept
    BY <2>3 DEF Handle, AcceptFails, SaveHandle, OtherFd, ReadRequest,
                BgsaveBlocks, ReadEof, Forget, ReadError, tableVars
  <2>4. CASE Accept
    BY <2>4 DEF Accept, Free, Inv, TypeOK
  <2>5. CASE Detect
    <3>1. fd \in Kicked /\ eventData[fd] # NoConn
      BY <2>5 DEF Detect, KickDue, Kicked, Inv, TypeOK
    <3>2. eventData[fd] = fdTable[fd]
      BY <3>1 DEF Inv, TablesAgree
    <3>3. eventData[fd] \in Clients
      BY <3>1 DEF Inv, TypeOK
    <3>4. waited = WaitSlot /\ eventData[fd] \notin unread
      BY <2>5 DEF Detect, Inv, WaitWasIdle
    <3>5. idle[eventData[fd]] \in 0..WaitSlot /\ idle[eventData[fd]] >= waited
      BY <2>5, <3>1, <3>3 DEF Detect, Inv, IdleWhileWaiting, Waiting, TypeOK
    <3> QED
      BY <3>2, <3>4, <3>5, TimesAssumption
  <2>6. CASE UNCHANGED vars
    BY <2>6 DEF vars, tableVars
  <2> QED
    BY <2>1, <2>2, <2>3, <2>4, <2>5, <2>6 DEF Next, LoopStep
<1> QED
  BY <1>1, Invariance, PTL DEF Spec, KickOnlyIdle

-----------------------------------------------------------------------------
(* Backups *)

(* Nothing registers the read end of the backup socketpair. *)
Deaf == SaveFd \notin interest /\ SaveFd \notin batch

(* A notification is never taken, and canSave is never set again. *)
BackupsAreOver == [][canSave' =< canSave /\ notices' >= notices]_vars

(* The first backup is the last one a timer starts: the notification that   *)
(* would set canSave again is never read, and each bgsave leaves one more   *)
(* in the socketpair, until a write blocks.                                 *)
THEOREM BackupsHappenOnce == Spec => BackupsAreOver
<1> DEFINE Keep == canSave' =< canSave /\ notices' >= notices
<1>1. Init => Deaf
  BY FdsAssumption DEF Init, Deaf
<1>2. Deaf /\ [Next]_vars => Deaf'
  <2> SUFFICES ASSUME Deaf, [Next]_vars PROVE Deaf'
    OBVIOUS
  <2> USE FdsAssumption DEF Deaf
  <2>1. CASE Poll
    BY <2>1 DEF Poll, Ready, tableVars
  <2>2. CASE Timeout \/ Detect \/ EndBatch
    BY <2>2 DEF Timeout, Detect, EndBatch, KickDue, tableVars
  <2>3. CASE Accept
    BY <2>3 DEF Accept, Take
  <2>4. CASE Handle /\ ~Accept
    BY <2>4 DEF Handle, AcceptFails, SaveHandle, OtherFd, ReadRequest, BgsaveBlocks,
                ReadEof, Forget, ReadError, ClientEvent, Take, tableVars
  <2>5. CASE Environment \/ UNCHANGED vars
    BY <2>5 DEF Environment, Tick, Interrupt, Connect, Send, HangUp, vars, tableVars,
                loopVars
  <2> QED
    BY <2>1, <2>2, <2>3, <2>4, <2>5 DEF Next, LoopStep
<1>3. Inv /\ Deaf /\ [Next]_vars => [Keep]_vars
  <2> SUFFICES ASSUME Inv, Deaf, [Next]_vars PROVE Keep
    OBVIOUS
  <2>1. canSave \in {0, 1} /\ notices \in Nat
    BY BoundsAssumption DEF Inv, TypeOK
  <2>2. ASSUME canSave' = canSave, notices' = notices
        PROVE  Keep
    BY <2>1, <2>2
  <2>3. CASE AsyncSave
    BY <2>1, <2>3 DEF AsyncSave
  <2>4. CASE Poll \/ Timeout \/ Detect \/ EndBatch \/ Accept \/ AcceptFails
    BY <2>2, <2>4 DEF Poll, Timeout, Detect, EndBatch, Accept, AcceptFails, saveVars
  <2>5. ASSUME NEW fd \in ClientFds \cup TimerFds \cup {ListenFd, SaveFd},
               SaveHandle(fd) \/ OtherFd(fd)
        PROVE  Keep
    <3>1. fd \in batch /\ fd # SaveFd
      BY <2>5 DEF SaveHandle, OtherFd, Take, Deaf
    <3> QED  BY <2>2, <2>3, <2>5, <3>1 DEF SaveHandle, OtherFd, saveVars
  <2>6. ASSUME NEW fd \in ClientFds,
               ReadRequest(fd) \/ BgsaveBlocks(fd) \/ ReadEof(fd) \/ ReadError(fd)
        PROVE  Keep
    <3>1. CASE ReadRequest(fd)
      BY <2>2, <2>3, <3>1 DEF ReadRequest, saveVars
    <3>2. CASE BgsaveBlocks(fd)
      BY <2>1, <3>2 DEF BgsaveBlocks
    <3> QED  BY <2>2, <2>6, <3>1, <3>2 DEF ReadEof, ReadError, saveVars
  <2>7. CASE Environment \/ UNCHANGED vars
    BY <2>2, <2>7 DEF Environment, Tick, Interrupt, Connect, Send, HangUp, vars, saveVars
  <2> QED
    BY <2>4, <2>5, <2>6, <2>7 DEF Next, LoopStep, Handle
<1> QED
  BY <1>1, <1>2, <1>3, Invariance, PTL DEF Spec, BackupsAreOver
=============================================================================
