--------------------------- MODULE ClientRpcProofs ---------------------------
(***************************************************************************)
(* The safety of the asynchronous client for any number of sockets,        *)
(* threads and requests: its types, the sockets that are armed or being    *)
(* read, and requests that are sent once.                                  *)
(***************************************************************************)
EXTENDS ClientRpc, SequenceTheorems, FiniteSetTheorems, TLAPS

(* What a connection that was lost may be. *)
Ended == {"closed", "reset", "failed"}

(* The types of the variables by themselves. *)
Typed ==
  /\ up \in BOOLEAN
  /\ conn \in [Conns -> {"unused", "open"} \cup Ended]
  /\ armed \in [Conns -> BOOLEAN]
  /\ outbox \in [Conns -> Seq(Message)]
  /\ inbox \in [Conns -> Seq(Reply)]
  /\ conFd \in Conns \cup {None}
  /\ servFd \in BOOLEAN
  /\ prog \in {"idle", "check", "send", "reconnect", "recheck", "resend",
               "killed", "wait", "result"}
  /\ asking \in Requests
  /\ reported \subseteq Requests
  /\ req \in Seq(Ids)
  /\ response \subseteq Seqs
  /\ todo \in Seq(Conns)
  /\ worker \in [Workers -> {Idle} \cup Job(Conns)]
  /\ executed \in [Requests -> Nat]

(* Nobody reads a socket that was not connected. *)
UnusedAlone ==
  \A c \in Unused : ~armed[c] /\ Reading(c) = {} /\ Awaiting(c) = {}

(* A readInfo that has not started yet will find something to read, and no *)
(* one is left at a socket whose read has failed.                          *)
ReadersFind ==
  \A c \in Conns :
    /\ Awaiting(c) # {} => inbox[c] # <<>> \/ conn[c] \in {"closed", "reset"}
    /\ conn[c] = "failed" => Reading(c) = {} /\ Awaiting(c) = {}

(* Only open sockets have requests in them. *)
OnlyOpen == \A c \in Conns : conn[c] # "open" => outbox[c] = <<>>

(* The socket a call works with. *)
Using ==
  /\ conFd # None => conFd \in Registered
  /\ prog \in {"check", "send", "reconnect", "recheck", "resend"} => servFd
  /\ prog \in {"send", "recheck", "resend"} => conFd # None
  /\ prog \in {"send", "resend"} => req # <<>>

(* There is room for the numbers a call still takes. *)
Room ==
  /\ Len(req) =< MaxQueue
  /\ prog = "check" => Len(req) + 2 =< MaxQueue
  /\ prog \in {"reconnect", "recheck"} => Len(req) + 1 =< MaxQueue

(* The request of a call was not reported before. *)
Asking ==
  prog \in {"check", "send", "reconnect", "recheck", "resend"} =>
    asking \notin reported

(* A call reconnects because a connection is lost. *)
Reconnects ==
  prog \in {"reconnect", "recheck"} => \E c \in Conns : conn[c] \in Ended

Inv ==
  /\ Typed
  /\ UnusedAlone
  /\ ReadersFind
  /\ OnlyOpen
  /\ Using
  /\ Room
  /\ Asking
  /\ Reconnects
  /\ ArmedOrRead
  /\ SentOnce

-----------------------------------------------------------------------------
(* Sequences *)

(* An enumeration of a finite set without repetitions: it is a sequence,   *)
(* and each element has one place.                                         *)
LEMMA Enumeration ==
  ASSUME NEW S, IsFiniteSet(S), NEW s \in SetToSeqs(S)
  PROVE  /\ s \in Seq(S)
         /\ \A i, j \in DOMAIN s : s[i] = s[j] => i = j
         /\ \A c \in S : \E i \in DOMAIN s : s[i] = c
<1> DEFINE n == Cardinality(S)
<1>1. n \in Nat
  BY FS_CardinalityType
<1>2. /\ s \in [1 .. n -> S]
      /\ \A i, j \in 1 .. n : i # j => s[i] # s[j]
  BY DEF SetToSeqs
<1>3. s \in Seq(S)
  BY <1>1, <1>2, SeqDef
<1>4. IsFiniteSet(1 .. n) /\ Cardinality(1 .. n) = n
  <2>1. n \in Int /\ 1 \in Int
    BY <1>1
  <2>2. /\ IsFiniteSet(1 .. n)
        /\ Cardinality(1 .. n) = IF 1 > n THEN 0 ELSE n - 1 + 1
    BY <2>1, FS_Interval, Zenon
  <2> QED
    BY <1>1, <2>2
<1>5. s \in Injection(1 .. n, S)
  BY <1>2 DEF Injection, IsInjective
<1>6. s \in Surjection(1 .. n, S)
  BY <1>4, <1>5, FS_Injection
<1> QED
  BY <1>2, <1>3, <1>6 DEF Surjection

(* The first element taken off. *)
LEMMA TailOf ==
  ASSUME NEW S, NEW s \in Seq(S), s # <<>>
  PROVE  /\ Head(s) = s[1] /\ Head(s) \in S /\ 1 \in DOMAIN s
         /\ Tail(s) \in Seq(S)
         /\ \A i \in DOMAIN Tail(s) :
              i \in Nat /\ i + 1 \in DOMAIN s /\ i + 1 # 1 /\ Tail(s)[i] = s[i + 1]
         /\ \A j \in DOMAIN s : j # 1 => j - 1 \in DOMAIN Tail(s) /\ Tail(s)[j - 1] = s[j]
OBVIOUS

(* An element put at the end. *)
LEMMA AppendOf ==
  ASSUME NEW S, NEW s \in Seq(S), NEW e \in S
  PROVE  /\ Append(s, e) \in Seq(S)
         /\ DOMAIN Append(s, e) = DOMAIN s \cup {Len(s) + 1}
         /\ Len(s) + 1 \notin DOMAIN s
         /\ Append(s, e)[Len(s) + 1] = e
         /\ \A i \in DOMAIN s : Append(s, e)[i] = s[i]
OBVIOUS

LEMMA AppendNotEmpty ==
  ASSUME NEW S, NEW s \in Seq(S), NEW e
  PROVE  Append(s, e) # <<>>
<1>1. s \in Seq(S \cup {e})
  OBVIOUS
<1>2. Len(Append(s, e)) = Len(s) + 1 /\ Len(s) \in Nat
  BY <1>1
<1>3. Len(Append(s, e)) # 0
  BY <1>2
<1>4. Len(<<>>) = 0
  OBVIOUS
<1> QED
  BY <1>3, <1>4, Zenon

-----------------------------------------------------------------------------
(* The initial state *)

LEMMA InitInv == Init => Inv
<1> SUFFICES ASSUME Init PROVE Inv
  OBVIOUS
<1>1. Typed
  <2>1. worker \in [Workers -> {Idle} \cup Job(Conns)]
    BY DEF Init
  <2>2. /\ outbox \in [Conns -> Seq(Message)]
        /\ inbox \in [Conns -> Seq(Reply)]
        /\ req \in Seq(Ids) /\ todo \in Seq(Conns)
    BY DEF Init
  <2> QED
    BY <2>1, <2>2 DEF Init, Typed
<1>2. \A c \in Conns : Reading(c) = {} /\ Awaiting(c) = {} /\ c \in Unused
  BY DEF Init, Reading, Awaiting, Idle, Unused
<1>3. \A c \in Conns : ~armed[c] /\ outbox[c] = <<>>
  BY DEF Init
<1>7. UnusedAlone /\ ReadersFind /\ OnlyOpen
  BY <1>2, <1>3 DEF UnusedAlone, ReadersFind, OnlyOpen, Unused
<1>8. ArmedOrRead
  BY <1>2 DEF ArmedOrRead, Registered
<1>4. Using /\ Asking /\ Reconnects
  BY DEF Init, Using, Asking, Reconnects
<1>5. Room
  BY ClientAssumption DEF Init, Room
<1>6. SentOnce
  BY DEF Init, SentOnce, Underway
<1> QED
  BY <1>1, <1>4, <1>5, <1>6, <1>7, <1>8 DEF Inv

-----------------------------------------------------------------------------
(* The steps, one invariant after the other *)

LEMMA NextTyped == Inv /\ [Next]_vars => Typed'
<1> SUFFICES ASSUME Inv, [Next]_vars PROVE Typed'
  OBVIOUS
<1> USE DEF Inv, Typed
<1>1. ASSUME NEW c \in Conns, Serve(c) PROVE Typed'
  <2>1. /\ Head(outbox[c]) \in Message /\ Tail(outbox[c]) \in Seq(Message)
    BY <1>1, TailOf DEF Serve
  <2>2. [id |-> Head(outbox[c]).id, seq |-> EchoedSeq(Head(outbox[c]).id)] \in Reply
    BY <2>1 DEF Message, Reply, Seqs, EchoedSeq, NoSeq
  <2>3. /\ outbox' \in [Conns -> Seq(Message)]
        /\ inbox' \in [Conns -> Seq(Reply)]
    BY <1>1, <2>1, <2>2 DEF Serve
  <2>4. executed' \in [Requests -> Nat]
    BY <1>1, <2>1 DEF Serve, Message
  <2> QED
    BY <1>1, <2>3, <2>4 DEF Serve, callVars, readVars
<1>2. ASSUME NEW cs \in SUBSET Conns, Close(cs), up' \in BOOLEAN PROVE Typed'
  <2>1. conn' \in [Conns -> {"unused", "open"} \cup Ended]
    BY <1>2 DEF Close, Ended
  <2>2. <<>> \in Seq(Message) /\ <<>> \in Seq(Reply)
    OBVIOUS
  <2>3. outbox' \in [Conns -> Seq(Message)]
    BY <1>2, <2>2 DEF Close
  <2>4. inbox' \in [Conns -> Seq(Reply)]
    BY <1>2, <2>2 DEF Close
  <2> QED
    BY <1>2, <2>1, <2>3, <2>4 DEF Close, callVars, readVars
<1>3. CASE Network
  <2>1. CASE GoDown
    BY <1>2, <2>1 DEF GoDown, Open
  <2>2. CASE ComeUp
    BY <2>2 DEF ComeUp, callVars, readVars
  <2>3. ASSUME NEW c \in Conns, Kick(c) PROVE Typed'
    BY <1>2, <2>3 DEF Kick
  <2> QED
    BY <1>3, <2>1, <2>2, <2>3 DEF Network
<1>4. ASSUME NEW c \in Conns, Connected(c)
      PROVE  /\ conn' \in [Conns -> {"unused", "open"} \cup Ended]
             /\ armed' \in [Conns -> BOOLEAN]
             /\ conFd' \in Conns \cup {None}
  BY <1>4 DEF Connected
<1>5. ASSUME NEW r \in Requests, Call(r) PROVE Typed'
  <2>1. /\ conn' \in [Conns -> {"unused", "open"} \cup Ended]
        /\ armed' \in [Conns -> BOOLEAN]
        /\ conFd' \in Conns \cup {None}
        /\ servFd' \in BOOLEAN
        /\ prog' \in {"idle", "check"}
    BY <1>4, <1>5 DEF Call, Refused
  <2> QED
    BY <1>5, <2>1 DEF Call
<1>6. ASSUME NEW id \in Ids, Check(id) PROVE Typed'
  <2>1. prog' \in {"idle", "send", "reconnect"}
    BY <1>6 DEF Check
  <2>2. req' \in Seq(Ids)
    BY <1>6 DEF Check, Number
  <2> QED
    BY <1>6, <2>1, <2>2 DEF Check, netVars, readVars
<1>7. CASE Send
  <2>1. [req |-> asking, id |-> Last(req)] \in Message
    <3>1. req # <<>>
      BY <1>7 DEF Send, Using
    <3>2. Last(req) \in Ids
      BY <3>1 DEF Last
    <3> QED
      BY <3>2 DEF Message
  <2>2. outbox' \in [Conns -> Seq(Message)]
    <3>1. conFd \in Conns
      BY <1>7 DEF Send, Using
    <3>2. Append(outbox[conFd], [req |-> asking, id |-> Last(req)]) \in Seq(Message)
      BY <2>1, <3>1, AppendOf
    <3> QED
      BY <1>7, <3>1, <3>2 DEF Send, Put
  <2>3. conn' \in [Conns -> {"unused", "open"} \cup Ended]
    BY <1>7 DEF Send, Ended
  <2>4. prog' = "idle" /\ reported' \subseteq Requests
    BY <1>7 DEF Send, Reported, NotReported
  <2> QED
    BY <1>7, <2>2, <2>3, <2>4 DEF Send, readVars
<1>8. CASE Reconnect
  BY <1>4, <1>8 DEF Reconnect
<1>9. CASE GiveUp
  BY <1>9 DEF GiveUp, Refused, Reported
<1>10. ASSUME NEW id \in Ids, Recheck(id) PROVE Typed'
  <2>1. req' \in Seq(Ids)
    BY <1>10 DEF Recheck, Number
  <2>2. prog' \in {"idle", "resend"} /\ reported' \subseteq Requests
    BY <1>10 DEF Recheck, Reported
  <2> QED
    BY <1>10, <2>1, <2>2 DEF Recheck, netVars, readVars
<1>11. CASE Wait
  BY <1>11 DEF Wait, netVars, readVars
<1>12. CASE Report
  <2> DEFINE ready == {c \in Readable : armed[c]}
  <2>1. ready \subseteq Conns /\ IsFiniteSet(ready)
    BY ClientAssumption, FS_Subset DEF Readable, Lost, Open, Registered
  <2>2. PICK s \in SetToSeqs(ready) : todo' = todo \o s
    BY <1>12 DEF Report
  <2>3. s \in Seq(Conns)
    BY <2>1, <2>2, Enumeration
  <2>4. todo' \in Seq(Conns)
    BY <2>2, <2>3
  <2>5. armed' \in [Conns -> BOOLEAN]
    BY <1>12 DEF Report, Disarmed
  <2> QED
    BY <1>12, <2>4, <2>5 DEF Report, netVars
<1>13. CASE Result
  <2>1. CASE Found
    <3>1. Tail(req) \in Seq(Ids)
      BY <2>1 DEF Found
    <3> QED
      BY <1>13, <2>1, <3>1 DEF Result, netVars, readVars
  <2>2. CASE ~Found
    BY <1>13, <2>2 DEF Result, netVars, readVars
  <2> QED
    BY <2>1, <2>2
<1>14. ASSUME NEW w \in Workers, Read(w) PROVE Typed'
  <2> DEFINE c == Head(todo)
  <2>1. c \in Conns /\ todo' \in Seq(Conns)
    BY <1>14 DEF Read
  <2>2. ASSUME NEW seq \in Seqs,
               worker' = [worker EXCEPT ![w] = [at |-> "store", conn |-> c, seq |-> seq]]
        PROVE  worker' \in [Workers -> {Idle} \cup Job(Conns)]
    BY <2>1, <2>2 DEF Job
  <2>3. CASE inbox[c] # <<>>
    <3>1. Head(inbox[c]) \in Reply /\ Tail(inbox[c]) \in Seq(Reply)
      BY <2>1, <2>3
    <3>2. Head(inbox[c]).seq \in Seqs
      BY <3>1 DEF Reply
    <3>3. worker' \in [Workers -> {Idle} \cup Job(Conns)]
      BY <1>14, <2>2, <2>3, <3>2 DEF Read
    <3>4. inbox' \in [Conns -> Seq(Reply)]
      BY <1>14, <2>3, <3>1 DEF Read
    <3>5. conn' = conn
      BY <1>14, <2>3 DEF Read
    <3> QED
      BY <1>14, <2>1, <3>3, <3>4, <3>5 DEF Read, callVars
  <2>4. CASE inbox[c] = <<>>
    <3>1. worker' \in [Workers -> {Idle} \cup Job(Conns)]
      BY <1>14, <2>2, <2>4 DEF Read
    <3>2. conn' \in [Conns -> {"unused", "open"} \cup Ended]
      BY <1>14, <2>4 DEF Read, Ended
    <3> QED
      BY <1>14, <2>1, <2>4, <3>1, <3>2 DEF Read, callVars
  <2> QED
    BY <2>3, <2>4
<1>15. ASSUME NEW w \in Workers, Store(w) PROVE Typed'
  <2>1. worker[w] \in Job(Conns)
    BY <1>15 DEF Store, Idle
  <2>2. worker' \in [Workers -> {Idle} \cup Job(Conns)]
    BY <1>15, <2>1 DEF Store, Job
  <2>3. response' \subseteq Seqs
    BY <1>15, <2>1 DEF Store, Job
  <2> QED
    BY <1>15, <2>2, <2>3 DEF Store, netVars, callVars
<1>16. ASSUME NEW w \in Workers, Rearm(w) PROVE Typed'
  <2>1. armed' \in [Conns -> BOOLEAN]
    BY <1>16 DEF Rearm, Armed
  <2>2. worker' \in [Workers -> {Idle} \cup Job(Conns)]
    BY <1>16 DEF Rearm
  <2> QED
    BY <1>16, <2>1, <2>2 DEF Rearm, netVars, callVars
<1>17. CASE UNCHANGED vars
  BY <1>17 DEF vars, netVars, callVars, readVars
<1>18. CASE Killed
  BY <1>18 DEF Killed, netVars, readVars
<1> QED
  BY <1>1, <1>3, <1>5, <1>6, <1>7, <1>8, <1>9, <1>10, <1>11, <1>12, <1>13,
     <1>14, <1>15, <1>16, <1>17, <1>18 DEF Next, Server, Program, Reader

(* The sockets that become used, and by which steps. *)
LEMMA UnusedSteps ==
  ASSUME Inv, [Next]_vars
  PROVE  \/ \E c \in Conns : Connected(c) /\ Unused' = Unused \ {c}
         \/ Unused' = Unused
<1> USE DEF Inv, Typed
<1>1. ASSUME NEW c \in Conns, Connected(c) PROVE Unused' = Unused \ {c}
  BY <1>1 DEF Connected, Unused
<1>2. ASSUME NEW cs \in SUBSET Conns, Close(cs), \A c \in cs : conn[c] = "open"
      PROVE  Unused' = Unused
  BY <1>2 DEF Close, Unused
<1>3. CASE Network
  BY <1>2, <1>3 DEF Network, GoDown, ComeUp, Kick, Open, Unused
<1>4. CASE Reconnect
  BY <1>1, <1>4 DEF Reconnect
<1>5. ASSUME NEW r \in Requests, Call(r)
      PROVE  \/ \E c \in Conns : Connected(c)
             \/ UNCHANGED conn
  BY <1>5 DEF Call, Refused
<1>6. CASE \E r \in Requests : Call(r)
  BY <1>1, <1>5, <1>6 DEF Unused
<1>7. CASE Server
  BY <1>7 DEF Server, Serve, Unused
<1>8. CASE Send \/ Killed \/ GiveUp \/ Wait \/ Report \/ Result
           \/ \E id \in Ids : Check(id) \/ Recheck(id)
  BY <1>8 DEF Send, Killed, GiveUp, Refused, Wait, Report, Result, Check, Recheck,
              netVars, Unused
<1>9. CASE \E w \in Workers : Reader(w)
  BY <1>9 DEF Reader, Read, Store, Rearm, netVars, Unused
<1>10. CASE UNCHANGED vars
  BY <1>10 DEF vars, netVars, Unused
<1> QED
  BY <1>3, <1>4, <1>6, <1>7, <1>8, <1>9, <1>10 DEF Next, Program

(* A connection that is lost stays so. *)
LEMMA EndedSteps ==
  ASSUME Inv, [Next]_vars
  PROVE  \A c \in Conns : conn[c] \in Ended => conn'[c] \in Ended
<1> SUFFICES ASSUME NEW c \in Conns, conn[c] \in Ended PROVE conn'[c] \in Ended
  OBVIOUS
<1> USE DEF Inv, Typed, Ended
<1>1. ASSUME NEW d \in Conns, Connected(d) PROVE conn'[c] \in Ended
  BY <1>1 DEF Connected, Unused
<1>2. ASSUME NEW cs \in SUBSET Conns, Close(cs) PROVE conn'[c] \in Ended
  BY <1>2 DEF Close
<1>3. CASE Network
  BY <1>2, <1>3 DEF Network, GoDown, ComeUp, Kick, Open
<1>4. CASE Reconnect
  BY <1>1, <1>4 DEF Reconnect
<1>5. ASSUME NEW r \in Requests, Call(r) PROVE conn'[c] \in Ended
  BY <1>1, <1>5 DEF Call, Refused
<1>6. CASE Server
  BY <1>6 DEF Server, Serve
<1>7. CASE Send \/ Killed \/ GiveUp \/ Wait \/ Report \/ Result
           \/ \E id \in Ids : Check(id) \/ Recheck(id)
  BY <1>7 DEF Send, Killed, GiveUp, Refused, Wait, Report, Result, Check, Recheck,
              netVars
<1>8. CASE \E w \in Workers : Reader(w)
  BY <1>8 DEF Reader, Read, Store, Rearm, netVars
<1>9. CASE UNCHANGED vars
  BY <1>9 DEF vars, netVars
<1> QED
  BY <1>3, <1>4, <1>5, <1>6, <1>7, <1>8, <1>9 DEF Next, Program

(* Who is at a socket, apart from whether it is registered. *)
InHand(c) ==
  /\ Awaiting(c) # {} => inbox[c] # <<>> \/ conn[c] \in {"closed", "reset"}
  /\ conn[c] = "failed" => Reading(c) = {} /\ Awaiting(c) = {}
  /\ c \in Unused => ~armed[c] /\ Reading(c) = {} /\ Awaiting(c) = {}
  /\ c \notin Unused =>
       /\ armed[c] <=> Reading(c) = {} /\ Awaiting(c) = {} /\ conn[c] # "failed"
       /\ Reading(c) = {} \/ Awaiting(c) = {}
       /\ \A v, w \in Reading(c) : v = w
       /\ \A i, j \in Awaiting(c) : i = j

LEMMA InHands ==
  (UnusedAlone /\ ReadersFind /\ ArmedOrRead) <=> \A c \in Conns : InHand(c)
BY Zenon DEF UnusedAlone, ReadersFind, ArmedOrRead, InHand, Registered, Unused

LEMMA InHandsNext ==
  (UnusedAlone /\ ReadersFind /\ ArmedOrRead)' <=> \A c \in Conns : InHand(c)'
BY Zenon DEF UnusedAlone, ReadersFind, ArmedOrRead, InHand, Registered, Unused

(* Report hands every socket it disarms to one reader. *)
LEMMA ReportInHand ==
  ASSUME Inv, Report, NEW c \in Conns
  PROVE  InHand(c)'
<1> USE DEF Inv, Typed
<1> DEFINE ready == {d \in Readable : armed[d]}
<1>1. ready \subseteq Conns /\ IsFiniteSet(ready)
  BY ClientAssumption, FS_Subset DEF Readable, Lost, Open, Registered
<1>2. PICK s \in SetToSeqs(ready) : todo' = todo \o s
  BY DEF Report
<1>3. /\ s \in Seq(ready)
      /\ \A i, j \in DOMAIN s : s[i] = s[j] => i = j
      /\ \A d \in ready : \E i \in DOMAIN s : s[i] = d
  BY <1>1, <1>2, Enumeration
<1>4. InHand(c)
  BY InHands
<1>5. Reading(c)' = Reading(c) /\ Unused' = Unused
  BY DEF Report, Reading, netVars, Unused
<1>6. armed'[c] = (armed[c] /\ c \notin ready)
  BY DEF Report, Disarmed
<1>7. CASE c \in ready
  <2>1. armed[c] /\ c \notin Unused
    BY <1>7 DEF Readable, Lost, Open, Registered, Unused
  <2>2. Awaiting(c) = {} /\ Reading(c) = {} /\ conn[c] # "failed"
    BY <2>1, <1>4 DEF InHand
  <2>8. inbox[c] # <<>> \/ conn[c] \in {"closed", "reset"}
    BY <1>7, <2>2 DEF Readable, Lost, Open, Registered, Unused, Ended
  <2>3. PICK k \in DOMAIN s : s[k] = c
    BY <1>3, <1>7
  <2>4. \A i \in DOMAIN todo' : todo'[i] = c => i = Len(todo) + k
    <3>1. \A i \in DOMAIN todo : todo[i] # c
      BY <2>2 DEF Awaiting
    <3>2. /\ Len(s) \in Nat /\ Len(todo) \in Nat
          /\ DOMAIN s = 1 .. Len(s) /\ DOMAIN todo = 1 .. Len(todo)
          /\ DOMAIN todo' = 1 .. (Len(todo) + Len(s))
          /\ \A i \in 1 .. Len(todo) : todo'[i] = todo[i]
          /\ \A i \in 1 .. (Len(todo) + Len(s)) :
               i > Len(todo) => todo'[i] = s[i - Len(todo)]
      BY <1>2, <1>3
    <3>3. ASSUME NEW i \in DOMAIN todo', todo'[i] = c PROVE i = Len(todo) + k
      <4>1. i \in 1 .. (Len(todo) + Len(s))
        BY <3>2, <3>3
      <4>2. i \notin 1 .. Len(todo)
        BY <3>1, <3>2, <3>3
      <4>3. i \in Int /\ i > Len(todo) /\ i - Len(todo) \in DOMAIN s
        BY <3>2, <4>1, <4>2
      <4>4. s[i - Len(todo)] = c
        BY <3>2, <3>3, <4>3
      <4>5. i - Len(todo) = k
        BY <1>3, <2>3, <4>3, <4>4
      <4> QED
        BY <3>2, <4>3, <4>5, <2>3
    <3> QED
      BY <3>3
  <2>5. /\ Len(todo) + k \in DOMAIN todo'
        /\ todo'[Len(todo) + k] = c
    BY <2>3, <1>2, <1>3
  <2>6. Awaiting(c)' = {Len(todo) + k}
    BY <2>4, <2>5 DEF Awaiting
  <2>7. inbox' = inbox /\ conn' = conn
    BY DEF Report, netVars
  <2> QED
    BY <1>5, <1>6, <1>7, <2>1, <2>2, <2>6, <2>7, <2>8, Zenon DEF InHand
<1>8. CASE c \notin ready
  <2>1. Awaiting(c)' = Awaiting(c)
    <3>1. \A i \in DOMAIN todo' : todo'[i] = c => i \in DOMAIN todo /\ todo[i] = c
      BY <1>2, <1>3, <1>8
    <3>2. \A i \in DOMAIN todo : i \in DOMAIN todo' /\ todo'[i] = todo[i]
      BY <1>2, <1>3
    <3> QED
      BY <3>1, <3>2 DEF Awaiting
  <2>2. inbox' = inbox /\ conn' = conn
    BY DEF Report, netVars
  <2> QED
    BY <1>4, <1>5, <1>6, <1>8, <2>1, <2>2, Zenon DEF InHand
<1> QED
  BY <1>7, <1>8

(* A thread that takes a call finds something to read, and has the socket  *)
(* to itself.                                                              *)
LEMMA ReadInHand ==
  ASSUME Inv, NEW w \in Workers, Read(w), NEW c \in Conns
  PROVE  InHand(c)'
<1> USE DEF Inv, Typed
<1> DEFINE d == Head(todo)
<1>1. InHand(c) /\ InHand(d) /\ d \in Conns
  <2>1. d \in Conns
    BY DEF Read
  <2> QED
    BY <2>1, InHands
<1>2. /\ d = todo[1] /\ 1 \in DOMAIN todo
      /\ \A i \in DOMAIN todo' :
           i \in Nat /\ i + 1 \in DOMAIN todo /\ i + 1 # 1 /\ todo'[i] = todo[i + 1]
      /\ \A j \in DOMAIN todo : j # 1 => j - 1 \in DOMAIN todo' /\ todo'[j - 1] = todo[j]
  <2>1. todo' = Tail(todo) /\ todo # <<>>
    BY DEF Read
  <2> QED
    BY <2>1, TailOf
<1>3. 1 \in Awaiting(d)
  BY <1>2 DEF Awaiting
<1>4. /\ d \notin Unused
      /\ Reading(d) = {}
      /\ Awaiting(d) = {1}
      /\ ~armed[d]
      /\ inbox[d] # <<>> \/ conn[d] \in {"closed", "reset"}
      /\ conn[d] # "failed"
  BY <1>1, <1>3 DEF InHand
<1>5. worker[w].at = "idle" /\ armed' = armed
  BY DEF Read
<1>6. c = d => Awaiting(c)' = {}
  BY <1>2, <1>4 DEF Awaiting
<1>7. CASE c # d
  <2>1. \A v \in Workers :
          \/ worker'[v] = worker[v]
          \/ v = w /\ worker'[v].conn = d
    <3>1. CASE inbox[d] # <<>> \/ conn[d] = "closed"
      BY <3>1 DEF Read
    <3>2. CASE inbox[d] = <<>> /\ conn[d] # "closed"
      BY <3>2 DEF Read
    <3> QED
      BY <3>1, <3>2
  <2>2. Reading(c)' = Reading(c)
    <3>1. w \notin Reading(c) /\ w \notin Reading(c)'
      BY <1>5, <1>7, <2>1 DEF Reading
    <3>2. \A v \in Workers \ {w} : worker'[v] = worker[v]
      BY <2>1
    <3> QED
      BY <3>1, <3>2 DEF Reading
  <2>3. inbox'[c] = inbox[c] /\ conn'[c] = conn[c]
    BY <1>7 DEF Read
  <2>4. \A i \in Awaiting(c)' : i + 1 \in Awaiting(c) /\ i \in Nat
    BY <1>2 DEF Awaiting
  <2>5. \A j \in Awaiting(c) : j - 1 \in Awaiting(c)'
    BY <1>2, <1>7 DEF Awaiting
  <2>6. Awaiting(c)' = {} <=> Awaiting(c) = {}
    BY <2>4, <2>5
  <2>7. (\A i, j \in Awaiting(c) : i = j) => (\A i, j \in Awaiting(c)' : i = j)
    BY <2>4
  <2>8. c \in Unused' <=> c \in Unused
    BY <2>3 DEF Unused
  <2> QED
    BY <1>1, <1>5, <2>2, <2>3, <2>6, <2>7, <2>8, Zenon DEF InHand
<1>8. CASE c = d /\ (inbox[d] # <<>> \/ conn[d] = "closed")
  <2>1. \E seq : worker' = [worker EXCEPT ![w] = [at |-> "store", conn |-> d, seq |-> seq]]
    BY <1>8 DEF Read
  <2>2. Reading(c)' = {w}
    BY <1>4, <1>5, <1>8, <2>1 DEF Reading
  <2>3. c \notin Unused' /\ conn'[c] # "failed"
    <3>1. CASE inbox[d] # <<>>
      BY <1>4, <1>8, <3>1 DEF Read, Unused
    <3>2. CASE inbox[d] = <<>>
      BY <1>4, <1>8, <3>2 DEF Read, Unused
    <3> QED
      BY <3>1, <3>2
  <2> QED
    BY <1>4, <1>5, <1>6, <1>8, <2>2, <2>3, Zenon DEF InHand
<1>9. CASE c = d /\ inbox[d] = <<>> /\ conn[d] = "reset"
  <2>1. worker' = worker /\ conn'[c] = "failed"
    BY <1>1, <1>9 DEF Read
  <2>2. Reading(c)' = {}
    BY <1>4, <1>9, <2>1 DEF Reading
  <2>3. c \notin Unused'
    BY <2>1 DEF Unused
  <2> QED
    BY <1>4, <1>5, <1>6, <1>9, <2>1, <2>2, <2>3, Zenon DEF InHand
<1> QED
  BY <1>4, <1>7, <1>8, <1>9

LEMMA NextInHand == Inv /\ [Next]_vars => UnusedAlone' /\ ReadersFind' /\ ArmedOrRead'
<1> SUFFICES ASSUME Inv, [Next]_vars, NEW c \in Conns PROVE InHand(c)'
  BY InHandsNext, Zenon
<1> USE DEF Inv, Typed
<1>1. InHand(c)
  BY InHands
<1>2. ASSUME UNCHANGED <<todo, worker>>
      PROVE  Reading(c)' = Reading(c) /\ Awaiting(c)' = Awaiting(c)
  BY <1>2 DEF Reading, Awaiting
<1>3. ASSUME UNCHANGED <<armed, todo, worker>>,
             inbox[c] # <<>> => inbox'[c] # <<>> \/ conn'[c] \in {"closed", "reset"},
             conn[c] = "unused" <=> conn'[c] = "unused",
             conn[c] = "failed" <=> conn'[c] = "failed",
             conn[c] \in {"closed", "reset"} => conn'[c] \in {"closed", "reset"}
      PROVE  InHand(c)'
  <2>1. c \in Unused' <=> c \in Unused
    BY <1>3 DEF Unused
  <2> QED
    BY <1>1, <1>2, <1>3, <2>1, Zenon DEF InHand
<1>4. ASSUME NEW d \in Conns, Serve(d) PROVE InHand(c)'
  <2>1. inbox[c] # <<>> => inbox'[c] # <<>>
    <3>1. \A e : Append(inbox[c], e) # <<>>
      BY AppendNotEmpty
    <3> QED
      BY <1>4, <3>1 DEF Serve
  <2> QED
    BY <1>3, <1>4, <2>1 DEF Serve, readVars
<1>5. ASSUME NEW cs \in SUBSET Conns, Close(cs), \A d \in cs : conn[d] = "open"
      PROVE  InHand(c)'
  BY <1>3, <1>5 DEF Close, readVars
<1>6. CASE Network
  BY <1>3, <1>5, <1>6 DEF Network, GoDown, ComeUp, Kick, Open, readVars
<1>7. ASSUME NEW d \in Conns, Connected(d), UNCHANGED <<inbox, todo, worker>>
      PROVE  InHand(c)'
  <2>1. /\ d \in Unused /\ d \notin Unused' /\ conn'[d] = "open"
        /\ armed'[d] /\ InHand(d)
    BY <1>7, InHands DEF Connected, Unused
  <2>2. c # d => /\ c \in Unused' <=> c \in Unused
                 /\ armed'[c] = armed[c] /\ conn'[c] = conn[c]
    BY <1>7 DEF Connected, Unused
  <2>3. Reading(c)' = Reading(c) /\ Awaiting(c)' = Awaiting(c) /\ inbox' = inbox
    BY <1>2, <1>7
  <2>4. CASE c = d
    BY <2>1, <2>3, <2>4, Zenon DEF InHand
  <2>5. CASE c # d
    BY <1>1, <2>2, <2>3, <2>5, Zenon DEF InHand
  <2> QED
    BY <2>4, <2>5
<1>8. ASSUME NEW r \in Requests, Call(r) PROVE InHand(c)'
  BY <1>3, <1>7, <1>8 DEF Call, Refused
<1>9. CASE Reconnect
  BY <1>7, <1>9 DEF Reconnect
<1>10. CASE \/ Killed \/ GiveUp \/ Wait \/ Result
            \/ \E id \in Ids : Check(id) \/ Recheck(id)
  BY <1>3, <1>10 DEF Killed, GiveUp, Refused, Wait, Result, Check, Recheck,
                     netVars, readVars
<1>11. CASE Report
  BY <1>11, ReportInHand
<1>12. ASSUME NEW w \in Workers, Read(w) PROVE InHand(c)'
  BY <1>12, ReadInHand
<1>13. ASSUME NEW w \in Workers, Store(w) PROVE InHand(c)'
  <2>1. worker[w] \in Job(Conns)
    BY <1>13 DEF Store, Idle
  <2>2. Reading(c)' = Reading(c) /\ Awaiting(c)' = Awaiting(c)
    BY <1>13, <2>1 DEF Store, Reading, Awaiting, Job
  <2>3. UNCHANGED <<conn, inbox, armed>>
    BY <1>13 DEF Store, netVars
  <2> QED
    BY <1>1, <2>2, <2>3, Zenon DEF InHand, Unused
<1>14. ASSUME NEW w \in Workers, Rearm(w) PROVE InHand(c)'
  <2> DEFINE d == worker[w].conn
  <2>1. d \in Conns /\ w \in Reading(d) /\ InHand(d)
    BY <1>14, InHands DEF Rearm, Idle, Job, Reading
  <2>2. /\ d \notin Unused /\ Awaiting(d) = {} /\ Reading(d) = {w}
        /\ conn[d] # "failed"
    BY <2>1, Zenon DEF InHand
  <2>3. UNCHANGED <<conn, inbox>> /\ Awaiting(c)' = Awaiting(c)
    BY <1>14 DEF Rearm, netVars, Awaiting
  <2>4. Reading(c)' = Reading(c) \ {w}
    BY <1>14 DEF Rearm, Reading, Idle
  <2>5. CASE c = d
    <3>1. armed'[c] /\ Reading(c)' = {}
      BY <1>14, <2>2, <2>4, <2>5 DEF Rearm, Armed
    <3> QED
      BY <2>2, <2>3, <2>5, <3>1, Zenon DEF InHand, Unused
  <2>6. CASE c # d
    <3>1. armed'[c] = armed[c] /\ Reading(c)' = Reading(c)
      BY <1>14, <2>4, <2>6 DEF Rearm, Armed, Reading
    <3> QED
      BY <1>1, <2>3, <3>1, Zenon DEF InHand, Unused
  <2> QED
    BY <2>5, <2>6
<1>15. CASE UNCHANGED vars
  BY <1>3, <1>15 DEF vars, netVars, readVars
<1>16. CASE Send
  BY <1>3, <1>16 DEF Send, readVars
<1> QED
  BY <1>4, <1>6, <1>8, <1>9, <1>10, <1>11, <1>12, <1>13, <1>14, <1>15,
     <1>16 DEF Next, Server, Program, Reader

LEMMA NextOnlyOpen == Inv /\ [Next]_vars => OnlyOpen'
<1> SUFFICES ASSUME Inv, [Next]_vars, NEW c \in Conns, conn'[c] # "open"
             PROVE  outbox'[c] = <<>>
  BY DEF OnlyOpen
<1> USE DEF Inv, Typed, OnlyOpen
<1>1. ASSUME NEW d \in Conns, Serve(d) PROVE outbox'[c] = <<>>
  BY <1>1 DEF Serve
<1>2. ASSUME NEW cs \in SUBSET Conns, Close(cs) PROVE outbox'[c] = <<>>
  BY <1>2 DEF Close
<1>3. CASE Network
  BY <1>2, <1>3 DEF Network, GoDown, ComeUp, Kick, Open
<1>4. ASSUME NEW d \in Conns, Connected(d), UNCHANGED outbox
      PROVE  outbox'[c] = <<>>
  BY <1>4 DEF Connected, Unused
<1>5. ASSUME NEW r \in Requests, Call(r) PROVE outbox'[c] = <<>>
  BY <1>4, <1>5 DEF Call, Refused
<1>6. CASE Reconnect
  BY <1>4, <1>6 DEF Reconnect
<1>7. CASE Send
  BY <1>7 DEF Send, Put
<1>8. CASE Killed \/ GiveUp \/ Wait \/ Report \/ Result
           \/ \E id \in Ids : Check(id) \/ Recheck(id)
  BY <1>8 DEF Killed, GiveUp, Refused, Wait, Report, Result, Check, Recheck, netVars
<1>9. CASE \E w \in Workers : Reader(w)
  BY <1>9 DEF Reader, Read, Store, Rearm, netVars
<1>10. CASE UNCHANGED vars
  BY <1>10 DEF vars, netVars
<1> QED
  BY <1>1, <1>3, <1>5, <1>6, <1>7, <1>8, <1>9, <1>10 DEF Next, Server, Program

LEMMA NextUsing == Inv /\ [Next]_vars => Using' /\ Asking' /\ Reconnects'
<1> SUFFICES ASSUME Inv, [Next]_vars PROVE Using' /\ Asking' /\ Reconnects'
  OBVIOUS
<1> USE DEF Inv, Typed, Using, Asking, Reconnects
<1>1. \A c \in Conns : /\ c \in Registered => c \in Registered'
                       /\ conn[c] \in Ended => conn'[c] \in Ended
  BY UnusedSteps, EndedSteps DEF Registered
<1>2. ASSUME UNCHANGED <<prog, asking, reported, conFd, servFd, req>>
      PROVE  Using' /\ Asking' /\ Reconnects'
  BY <1>1, <1>2
<1>3. CASE Server
  BY <1>2, <1>3 DEF Server, Serve, callVars
<1>4. CASE Network
  BY <1>2, <1>4 DEF Network, GoDown, ComeUp, Kick, Close, callVars
<1>5. ASSUME NEW d \in Conns, Connected(d)
      PROVE  conFd' = d /\ d \in Registered' /\ d # None
  BY <1>5, ClientAssumption DEF Connected, Registered, Unused
<1>6. ASSUME NEW r \in Requests, Call(r) PROVE Using' /\ Asking' /\ Reconnects'
  <2>1. /\ prog' \in {"check", "idle"}
        /\ prog' = "check" => asking' \notin reported' /\ servFd'
    BY <1>6 DEF Call
  <2>2. conFd' # None => conFd' \in Registered'
    BY <1>1, <1>5, <1>6 DEF Call, Refused
  <2> QED
    BY <2>1, <2>2
<1>7. ASSUME NEW id \in Ids, Check(id) PROVE Using' /\ Asking' /\ Reconnects'
  <2>1. prog' \in {"send", "reconnect"} => servFd' /\ conFd # None
    BY <1>7 DEF Check
  <2>2. prog' = "send" => req' # <<>>
    BY <1>7, AppendNotEmpty DEF Check, Number
  <2>3. UNCHANGED <<conn, conFd, servFd, asking, reported>>
    BY <1>7 DEF Check, netVars
  <2>4. prog' = "reconnect" => conn[conFd] \in Ended /\ conFd \in Conns
    BY <1>7, <2>1 DEF Check, Registered, Unused
  <2>5. prog = "check" /\ prog' \in {"idle", "send", "reconnect"}
    BY <1>7 DEF Check
  <2>6. Using'
    BY <1>1, <2>1, <2>2, <2>3, <2>5
  <2> QED
    BY <2>3, <2>4, <2>5, <2>6
<1>8. CASE Send \/ Killed \/ GiveUp \/ Wait \/ Report \/ Result
  <2>1. prog' \in {"idle", "killed", "wait", "result"}
    BY <1>8 DEF Send, Killed, GiveUp, Wait, Report, Result, Reported, NotReported
  <2>2. conFd' # None => conFd' \in Registered'
    BY <1>1, <1>8 DEF Send, Killed, GiveUp, Wait, Report, Result, Refused
  <2> QED
    BY <2>1, <2>2
<1>9. CASE Reconnect
  BY <1>1, <1>5, <1>9 DEF Reconnect
<1>10. ASSUME NEW id \in Ids, Recheck(id) PROVE Using' /\ Asking' /\ Reconnects'
  <2>1. prog' \in {"resend", "idle"} /\ (prog' = "resend" => reported' = reported)
    BY <1>10 DEF Recheck, Reported
  <2>2. req' # <<>>
    BY <1>10, AppendNotEmpty DEF Recheck, Number
  <2> QED
    BY <1>1, <1>10, <2>1, <2>2 DEF Recheck
<1>11. CASE \E w \in Workers : Reader(w)
  BY <1>2, <1>11 DEF Reader, Read, Store, Rearm, netVars, callVars
<1>12. CASE UNCHANGED vars
  BY <1>2, <1>12 DEF vars, netVars, callVars
<1> QED
  BY <1>3, <1>4, <1>6, <1>7, <1>8, <1>9, <1>10, <1>11, <1>12 DEF Next, Program

LEMMA NextRoom == Inv /\ [Next]_vars => Room'
<1> SUFFICES ASSUME Inv, [Next]_vars PROVE Room'
  OBVIOUS
<1> USE DEF Room
<1>1. req \in Seq(Ids) /\ Room /\ Len(req) \in Nat /\ MaxQueue \in Nat
  BY ClientAssumption DEF Inv, Typed
<1>2. ASSUME UNCHANGED <<prog, req>> PROVE Room'
  BY <1>2, <1>1
<1>3. ASSUME NEW id \in Ids, Number(id) PROVE Len(req') = Len(req) + 1
  BY <1>1, <1>3 DEF Number
<1>4. CASE Server \/ Network
  BY <1>2, <1>4 DEF Server, Serve, Network, GoDown, ComeUp, Kick, Close, callVars
<1>5. ASSUME NEW r \in Requests, Call(r) PROVE Room'
  <2>1. prog' \in {"idle", "check"} /\ req' = req /\ Len(req) + 2 =< MaxQueue
    BY <1>5 DEF Call, Inv, Typed
  <2> QED
    BY <1>1, <2>1
<1>6. ASSUME NEW id \in Ids, Check(id) PROVE Room'
  <2>1. prog' \in {"idle", "send", "reconnect"} /\ prog = "check"
    BY <1>6 DEF Check
  <2> QED
    BY <1>1, <1>3, <1>6, <2>1 DEF Check
<1>7. ASSUME NEW id \in Ids, Recheck(id) PROVE Room'
  <2>1. prog' \in {"idle", "resend"} /\ prog = "recheck"
    BY <1>7 DEF Recheck, Reported
  <2> QED
    BY <1>1, <1>3, <1>7, <2>1 DEF Recheck
<1>8. CASE Send \/ Killed \/ GiveUp \/ Wait \/ Report
  <2>1. prog' \in {"idle", "killed", "wait", "result"} /\ req' = req
    BY <1>8 DEF Send, Killed, GiveUp, Wait, Report, Reported, NotReported
  <2> QED
    BY <1>1, <2>1
<1>9. CASE Reconnect
  <2>1. prog' = "recheck" /\ prog = "reconnect" /\ req' = req
    BY <1>9 DEF Reconnect
  <2> QED
    BY <1>1, <2>1
<1>10. CASE Result
  <2>1. prog' = "idle"
    BY <1>10 DEF Result
  <2>2. CASE Found
    <3>1. req' = Tail(req) /\ req # <<>>
      BY <1>10, <2>2 DEF Result, Found
    <3>2. Len(req') = Len(req) - 1
      BY <1>1, <3>1
    <3> QED
      BY <1>1, <2>1, <3>2
  <2>3. CASE ~Found
    <3>1. req' = req
      BY <1>10, <2>3 DEF Result
    <3> QED
      BY <1>1, <2>1, <3>1
  <2> QED
    BY <2>2, <2>3
<1>11. CASE \E w \in Workers : Reader(w)
  BY <1>2, <1>11 DEF Reader, Read, Store, Rearm, callVars
<1>12. CASE UNCHANGED vars
  BY <1>2, <1>12 DEF vars, callVars
<1> QED
  BY <1>4, <1>5, <1>6, <1>7, <1>8, <1>9, <1>10, <1>11, <1>12 DEF Next, Program

(* The two parts of SentOnce. *)
OnePlace ==
  \A c, d \in Conns : \A i \in DOMAIN outbox[c], j \in DOMAIN outbox[d] :
    outbox[c][i].req = outbox[d][j].req => c = d /\ i = j

OnceFor(r) ==
  /\ executed[r] = 0 \/ (executed[r] = 1 /\ ~Underway(r))
  /\ executed[r] = 1 \/ Underway(r) => r \in reported
  /\ (r \in reported /\ \A c \in Conns : conn[c] \notin Ended)
       => executed[r] = 1 \/ Underway(r)

LEMMA SentOnceParts ==
  ASSUME Typed PROVE SentOnce <=> OnePlace /\ \A r \in Requests : OnceFor(r)
<1>1. Lost = {} <=> \A c \in Conns : conn[c] \notin Ended
  BY DEF Typed, Lost, Open, Registered, Unused, Ended
<1> QED
  BY <1>1, Zenon DEF SentOnce, OnePlace, OnceFor

LEMMA SentOncePartsNext ==
  ASSUME Typed' PROVE SentOnce' <=> OnePlace' /\ \A r \in Requests : OnceFor(r)'
<1>1. Lost' = {} <=> \A c \in Conns : conn'[c] \notin Ended
  BY DEF Typed, Lost, Open, Registered, Unused, Ended
<1> QED
  BY <1>1, Zenon DEF SentOnce, OnePlace, OnceFor, Underway

(* The server takes a request from the front and executes it. *)
LEMMA ServeOnce == Inv /\ Typed' /\ (\E c \in Conns : Serve(c)) => SentOnce'
<1> SUFFICES ASSUME Inv, Typed', NEW c \in Conns, Serve(c) PROVE SentOnce'
  OBVIOUS
<1> DEFINE m == Head(outbox[c])
           t == Tail(outbox[c])
<1>1. /\ outbox \in [Conns -> Seq(Message)] /\ executed \in [Requests -> Nat]
      /\ OnePlace /\ \A r \in Requests : OnceFor(r)
  BY SentOnceParts DEF Inv, Typed
<1>2. /\ m = outbox[c][1] /\ m \in Message /\ 1 \in DOMAIN outbox[c]
      /\ \A i \in DOMAIN t :
           /\ i \in Nat /\ i + 1 \in DOMAIN outbox[c] /\ i + 1 # 1
           /\ t[i] = outbox[c][i + 1]
      /\ \A j \in DOMAIN outbox[c] :
           j # 1 => /\ j - 1 \in DOMAIN t
                    /\ t[j - 1] = outbox[c][j]
  BY <1>1, TailOf DEF Serve
<1>3. PICK x \in Requests : m.req = x
  BY <1>2 DEF Message
<1>4. /\ outbox' = [outbox EXCEPT ![c] = t]
      /\ executed' = [executed EXCEPT ![x] = executed[x] + 1]
      /\ conn' = conn /\ reported' = reported
  BY <1>3 DEF Serve, callVars
<1> HIDE DEF m, t
<1>5. OnePlace'
  <2> SUFFICES ASSUME NEW d \in Conns, NEW e \in Conns,
                      NEW i \in DOMAIN outbox'[d], NEW j \in DOMAIN outbox'[e],
                      outbox'[d][i].req = outbox'[e][j].req
               PROVE  d = e /\ i = j
    BY DEF OnePlace
  <2>1. \A f \in Conns : f # c => outbox'[f] = outbox[f]
    BY <1>1, <1>4
  <2>2. outbox'[c] = t
    BY <1>1, <1>4
  <2>3. CASE d = c /\ e = c
    <3>1. i + 1 = j + 1 /\ i \in Nat /\ j \in Nat
      BY <1>1, <1>2, <1>3, <2>2, <2>3 DEF OnePlace
    <3> QED
      BY <2>3, <3>1
  <2>4. CASE d = c /\ e # c
    BY <1>1, <1>2, <1>3, <2>1, <2>2, <2>4 DEF OnePlace
  <2>5. CASE d # c /\ e = c
    BY <1>1, <1>2, <1>3, <2>1, <2>2, <2>5 DEF OnePlace
  <2>6. CASE d # c /\ e # c
    BY <1>1, <2>1, <2>6 DEF OnePlace
  <2> QED
    BY <2>3, <2>4, <2>5, <2>6
<1>6. Underway(x)
  BY <1>2, <1>3 DEF Underway
<1>7. ~Underway(x)'
  <2> SUFFICES ASSUME Underway(x)' PROVE FALSE
    OBVIOUS
  <2>1. PICK d \in Conns : \E i \in DOMAIN outbox'[d] : outbox'[d][i].req = x
    BY Zenon DEF Underway
  <2>2. PICK i \in DOMAIN outbox'[d] : outbox'[d][i].req = x
    BY <2>1
  <2>3. CASE d = c
    BY <1>1, <1>2, <1>3, <1>4, <2>2, <2>3 DEF OnePlace
  <2>4. CASE d # c
    BY <1>1, <1>2, <1>3, <1>4, <2>2, <2>4 DEF OnePlace
  <2> QED
    BY <2>3, <2>4
<1>8. ASSUME NEW r \in Requests, r # x PROVE Underway(r)' <=> Underway(r)
  <2>1. ASSUME NEW d \in Conns, NEW i \in DOMAIN outbox'[d], outbox'[d][i].req = r
        PROVE  Underway(r)
    <3>1. CASE d = c
      BY <1>1, <1>2, <1>3, <1>4, <2>1, <3>1 DEF Underway
    <3>2. CASE d # c
      BY <1>1, <1>4, <2>1, <3>2 DEF Underway
    <3> QED
      BY <3>1, <3>2
  <2>2. ASSUME NEW d \in Conns, NEW i \in DOMAIN outbox[d], outbox[d][i].req = r
        PROVE  Underway(r)'
    <3>1. CASE d = c
      <4>1. i # 1
        BY <1>2, <1>3, <1>8, <2>2, <3>1
      <4>2. i - 1 \in DOMAIN outbox'[c] /\ outbox'[c][i - 1].req = r
        BY <1>1, <1>2, <1>3, <1>4, <2>2, <3>1, <4>1
      <4> QED
        BY <4>2 DEF Underway
    <3>2. CASE d # c
      BY <1>1, <1>4, <2>2, <3>2 DEF Underway
    <3> QED
      BY <3>1, <3>2
  <2> QED
    BY <2>1, <2>2 DEF Underway
<1>9. ASSUME NEW r \in Requests PROVE OnceFor(r)'
  <2>1. OnceFor(r)
    BY <1>1
  <2>2. CASE r = x
    <3>1. executed'[r] = 1
      BY <1>1, <1>4, <1>6, <2>1, <2>2 DEF OnceFor
    <3>2. r \in reported'
      BY <1>4, <1>6, <2>1, <2>2 DEF OnceFor
    <3>3. ~Underway(r)'
      BY <1>7, <2>2, Zenon DEF Underway
    <3> QED
      BY <3>1, <3>2, <3>3, Zenon DEF OnceFor
  <2>3. CASE r # x
    <3>1. executed'[r] = executed[r]
      BY <1>1, <1>4, <2>3
    <3> QED
      BY <1>4, <1>8, <2>1, <2>3, <3>1, Zenon DEF OnceFor
  <2> QED
    BY <2>2, <2>3
<1> QED
  BY <1>5, <1>9, SentOncePartsNext

(* A connection that is lost takes its requests with it. *)
LEMMA CloseOnce ==
  ASSUME Inv, Typed', NEW cs \in SUBSET Conns, Close(cs) PROVE SentOnce'
<1>1. /\ outbox \in [Conns -> Seq(Message)]
      /\ OnePlace /\ \A r \in Requests : OnceFor(r)
  BY SentOnceParts DEF Inv, Typed
<1>2. /\ \A c \in Conns : outbox'[c] = IF c \in cs THEN <<>> ELSE outbox[c]
      /\ \A c \in Conns : IF c \in cs THEN conn'[c] \in Ended
                                     ELSE conn'[c] = conn[c]
      /\ executed' = executed /\ reported' = reported
  BY DEF Close, callVars, Ended
<1>3. \A c \in Conns : \A i \in DOMAIN outbox'[c] :
        i \in DOMAIN outbox[c] /\ outbox'[c][i] = outbox[c][i]
  BY <1>2
<1>4. OnePlace'
  BY <1>1, <1>3 DEF OnePlace
<1>5. ASSUME NEW r \in Requests PROVE OnceFor(r)'
  <2>1. Underway(r)' => Underway(r)
    BY <1>3 DEF Underway
  <2>2. CASE cs = {}
    <3>1. \A c \in Conns : outbox'[c] = outbox[c] /\ conn'[c] = conn[c]
      BY <1>2, <2>2
    <3>2. Underway(r)' <=> Underway(r)
      BY <3>1 DEF Underway
    <3> QED
      BY <1>1, <1>2, <3>1, <3>2 DEF OnceFor
  <2>3. CASE cs # {}
    <3>1. \E c \in Conns : conn'[c] \in Ended
      BY <1>2, <2>3
    <3> QED
      BY <1>1, <1>2, <2>1, <3>1 DEF OnceFor
  <2> QED
    BY <2>2, <2>3
<1> QED
  BY <1>4, <1>5, SentOncePartsNext

(* A request that was not reported goes out once. *)
LEMMA SendOnce == Inv /\ Typed' /\ Send => SentOnce'
<1> SUFFICES ASSUME Inv, Typed', Send PROVE SentOnce'
  OBVIOUS
<1>1. /\ outbox \in [Conns -> Seq(Message)]
      /\ OnePlace /\ \A r \in Requests : OnceFor(r)
      /\ req \in Seq(Ids) /\ req # <<>>
      /\ conFd \in Registered /\ conFd \in Conns
      /\ asking \in Requests /\ asking \notin reported
      /\ conn \in [Conns -> {"unused", "open"} \cup Ended]
  BY SentOnceParts DEF Inv, Typed, Send, Using, Asking
<1>6. PICK x \in Requests : asking = x
  BY <1>1
<1>2. executed' = executed
  BY DEF Send
<1>3. executed[x] = 0 /\ ~Underway(x)
  BY <1>1, <1>6 DEF OnceFor
<1>4. CASE conn[conFd] = "open"
  <2>10. conn' = conn /\ reported' = reported \cup {x}
    BY <1>1, <1>4, <1>6 DEF Send, Reported
  <2> DEFINE e == [req |-> x, id |-> Last(req)]
  <2> DEFINE n == Len(outbox[conFd]) + 1
  <2>1. e \in Message /\ e.req = x
    BY <1>1 DEF Message, Last
  <2> HIDE DEF e
  <2>2. outbox' = [outbox EXCEPT ![conFd] = Append(outbox[conFd], e)]
    BY <1>4, <1>6 DEF Send, Put, e
  <2>3. /\ DOMAIN outbox'[conFd] = DOMAIN outbox[conFd] \cup {n}
        /\ n \notin DOMAIN outbox[conFd]
        /\ outbox'[conFd][n] = e
        /\ \A i \in DOMAIN outbox[conFd] : outbox'[conFd][i] = outbox[conFd][i]
        /\ \A c \in Conns : c # conFd => outbox'[c] = outbox[c]
    BY <1>1, <2>1, <2>2, AppendOf
  <2>4. \A c \in Conns : \A i \in DOMAIN outbox[c] :
          /\ i \in DOMAIN outbox'[c] /\ outbox'[c][i] = outbox[c][i]
          /\ outbox[c][i].req # x
    BY <1>3, <2>3 DEF Underway
  <2>5. \A c \in Conns : \A i \in DOMAIN outbox'[c] :
          \/ i \in DOMAIN outbox[c]
          \/ c = conFd /\ i = n /\ outbox'[c][i].req = x
    BY <2>1, <2>3
  <2> HIDE DEF n
  <2>6. OnePlace'
    BY <1>1, <2>4, <2>5 DEF OnePlace
  <2>7. Underway(x)'
    <3>1. n \in DOMAIN outbox'[conFd] /\ outbox'[conFd][n].req = x
      BY <2>1, <2>3
    <3> QED
      BY <1>1, <3>1, Zenon DEF Underway
  <2>8. ASSUME NEW r \in Requests, r # x PROVE Underway(r)' <=> Underway(r)
    BY <2>4, <2>5, <2>8 DEF Underway
  <2>9. ASSUME NEW r \in Requests PROVE OnceFor(r)'
    <3>1. CASE r = x
      <4>1. executed'[r] = 0 /\ r \in reported'
        BY <1>2, <1>3, <2>10, <3>1
      <4>2. Underway(r)'
        BY <2>7, <3>1, Zenon DEF Underway
      <4> QED
        BY <4>1, <4>2, Zenon DEF OnceFor
    <3>2. CASE r # x
      BY <1>1, <1>2, <2>8, <2>10, <3>2 DEF OnceFor
    <3> QED
      BY <3>1, <3>2
  <2> QED
    BY <2>6, <2>9, SentOncePartsNext
<1>5. CASE conn[conFd] # "open"
  <2>1. conn'[conFd] \in Ended
    BY <1>1, <1>5 DEF Send, Registered, Unused, Ended
  <2>5. reported' \in {reported, reported \cup {x}}
    BY <1>6 DEF Send, Reported, NotReported
  <2>2. outbox' = outbox
    BY <1>5 DEF Send, Put
  <2>3. OnePlace' /\ \A r \in Requests : Underway(r)' <=> Underway(r)
    BY <1>1, <2>2 DEF OnePlace, Underway
  <2>4. ASSUME NEW r \in Requests PROVE OnceFor(r)'
    BY <1>1, <1>2, <2>1, <2>3, <2>5 DEF OnceFor
  <2> QED
    BY <2>3, <2>4, SentOncePartsNext
<1> QED
  BY <1>4, <1>5

LEMMA NextSentOnce == Inv /\ [Next]_vars => SentOnce'
<1> SUFFICES ASSUME Inv, [Next]_vars PROVE SentOnce'
  OBVIOUS
<1>1. OnePlace /\ \A r \in Requests : OnceFor(r)
  BY SentOnceParts DEF Inv
<1>14. Typed'
  BY NextTyped
<1>2. ASSUME UNCHANGED <<outbox, executed>>,
             \/ reported' = reported
             \/ /\ reported' = reported \cup {asking}
                /\ \E c \in Conns : conn[c] \in Ended
      PROVE  SentOnce'
  <2>1. OnePlace' /\ \A r \in Requests : Underway(r)' <=> Underway(r)
    BY <1>1, <1>2 DEF OnePlace, Underway
  <2>2. ASSUME NEW r \in Requests PROVE OnceFor(r)'
    BY <1>1, <1>2, <2>1, EndedSteps DEF OnceFor
  <2> QED
    BY <1>14, <2>1, <2>2, SentOncePartsNext
<1>3. CASE Server
  BY <1>3, <1>14, ServeOnce DEF Server
<1>4. CASE Network
  BY <1>2, <1>4, <1>14, CloseOnce DEF Network, GoDown, ComeUp, Kick, Open, callVars
<1>6. ASSUME NEW r \in Requests, Call(r) PROVE SentOnce'
  BY <1>2, <1>6 DEF Call
<1>7. CASE Send
  BY <1>7, <1>14, SendOnce
<1>8. CASE Killed \/ Reconnect
  BY <1>2, <1>8 DEF Killed, Reconnect, netVars
<1>9. CASE GiveUp
  BY <1>2, <1>9 DEF GiveUp, Reported, Inv, Reconnects
<1>10. ASSUME NEW id \in Ids, Check(id) \/ Recheck(id) PROVE SentOnce'
  BY <1>2, <1>10 DEF Check, Recheck, Reported, netVars, Inv, Reconnects
<1>11. CASE Wait \/ Report \/ Result
  BY <1>2, <1>11 DEF Wait, Report, Result, netVars
<1>12. CASE \E w \in Workers : Reader(w)
  BY <1>2, <1>12 DEF Reader, Read, Store, Rearm, netVars, callVars
<1>13. CASE UNCHANGED vars
  BY <1>2, <1>13 DEF vars, netVars, callVars
<1> QED
  BY <1>3, <1>4, <1>6, <1>7, <1>8, <1>9, <1>10, <1>11, <1>12, <1>13
     DEF Next, Program

-----------------------------------------------------------------------------
(* The theorems *)

LEMMA Invariance == Spec => []Inv
<1>1. Inv /\ [Next]_vars => Inv'
  BY NextTyped, NextInHand, NextOnlyOpen, NextUsing, NextRoom, NextSentOnce
     DEF Inv
<1> QED
  BY <1>1, InitInv, PTL DEF Spec

(* The client's state has its types, for any sockets, threads and requests: *)
(* in particular a call always has a socket to send to, and nothing is     *)
(* underway over a socket that is not open.                                *)
THEOREM TypeCorrect == Spec => []TypeOK
<1>1. Inv => TypeOK
  <2> SUFFICES ASSUME Inv PROVE TypeOK
    OBVIOUS
  <2> USE DEF Inv, Typed
  <2>1. \A c \in Conns : Reading(c) # {} \/ Awaiting(c) # {} => c \in Registered
    BY DEF UnusedAlone, Registered
  <2>2. \A i \in DOMAIN todo : todo[i] \in Registered
    <3>1. \A i \in DOMAIN todo : todo[i] \in Conns /\ i \in Awaiting(todo[i])
      BY DEF Awaiting
    <3> QED
      BY <2>1, <3>1
  <2>3. todo \in Seq(Registered)
    BY <2>2
  <2>4. worker \in [Workers -> {Idle} \cup Job(Registered)]
    <3> SUFFICES ASSUME NEW w \in Workers PROVE worker[w] \in {Idle} \cup Job(Registered)
      OBVIOUS
    <3>1. CASE worker[w] = Idle
      BY <3>1
    <3>2. CASE worker[w] \in Job(Conns)
      <4>1. w \in Reading(worker[w].conn) /\ worker[w].conn \in Conns
        BY <3>2 DEF Reading, Job
      <4> QED
        BY <2>1, <3>2, <4>1 DEF Job
    <3> QED
      BY <3>1, <3>2
  <2>5. conFd \in Registered \cup {None}
    BY DEF Using
  <2> QED
    BY <2>3, <2>4, <2>5 DEF TypeOK, Using, Room, OnlyOpen, Ended
<1> QED
  BY <1>1, Invariance, PTL

(* Every socket whose reads have not failed is armed or in the hands of    *)
(* exactly one readInfo: no two threads read one socket and none becomes   *)
(* deaf (EPOLLONESHOT with rpc.cpp:30-35 and 62-74), for any number of     *)
(* threads.                                                                *)
THEOREM NoSocketIsDeaf == Spec => []ArmedOrRead
<1>1. Inv => ArmedOrRead
  BY DEF Inv
<1> QED
  BY <1>1, Invariance, PTL

(* Retries after failures and the second request() of a reconnection       *)
(* (rpc.cpp:107-137) never make the server execute a request twice, and a  *)
(* request that was reported sent is lost only with a connection.          *)
THEOREM RequestsAreSentOnce == Spec => []SentOnce
<1>1. Inv => SentOnce
  BY DEF Inv
<1> QED
  BY <1>1, Invariance, PTL
=============================================================================
