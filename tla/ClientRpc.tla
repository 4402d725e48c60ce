------------------------------ MODULE ClientRpc ------------------------------
(***************************************************************************)
(* The asynchronous client (clientLoop::mode = 0): sendRequest and         *)
(* getResult as a program calls them, rpc::sendRequest with its reconnect, *)
(* the epoll set whose descriptors are armed for one event at a time, the  *)
(* pool's threads in rpc::readInfo, and the queue that is to match replies *)
(* to requests.  The server answers each request it reads, in order.       *)
(***************************************************************************)
EXTENDS Integers, Sequences, FiniteSets, SequencesExt

CONSTANTS
  Requests,  \* what the program asks for, each until it is reported sent
  Conns,     \* bound: the sockets that may be connected
  Workers,   \* threads of the pool that runs readInfo
  Ids,       \* values of tv_sec + tv_usec, the number of a request
  MaxQueue,  \* bound: request numbers queued
  None       \* no connection: conFd = -1

ASSUME ClientAssumption ==
  /\ IsFiniteSet(Conns)
  /\ None \notin Conns
  /\ MaxQueue \in Nat
  /\ Ids \subseteq Nat \ {0}

VARIABLES
  up,        \* the server accepts connections
  conn,      \* what became of each socket
  armed,     \* armed[c]: epoll will report socket c
  outbox,    \* requests on their way to the server, by socket
  inbox,     \* replies the client has not read, by socket
  conFd,     \* rpc::conFd
  servFd,    \* clientLoop::servFd > 0
  prog,      \* where the program is in a call
  asking,    \* the request of the call
  reported,  \* requests whose sendRequest returned 1
  req,       \* syncQueue::req
  response,  \* the keys of syncQueue::response
  todo,      \* readInfo calls committed to the pool
  worker,    \* what each thread of the pool does
  executed   \* history: how often the server executed each request

netVars == <<up, conn, outbox, inbox, executed>>
callVars == <<conFd, servFd, prog, asking, reported>>
readVars == <<armed, todo, worker>>
vars == <<netVars, callVars, readVars, req, response>>

-----------------------------------------------------------------------------
(* Operators named after a slip are used by no action; PROJECT.json        *)
(* substitutes them to test the properties.                                *)

Unused == {c \in Conns : conn[c] = "unused"}

Registered == Conns \ Unused

Open == {c \in Conns : conn[c] = "open"}

(* A connection that was lost makes its socket readable too: "closed" is   *)
(* at end of file, "reset" has an error that the next read or send gets,   *)
(* and "failed" had one that a read got.                                   *)
Lost == Registered \ Open

Readable == Lost \cup {c \in Open : inbox[c] # <<>>}

Idle == [at |-> "idle"]

(* What readInfo makes of an empty number. *)
NoSeq == 0

(* processMsg sets the number of every reply to "" (cmdProcess.cpp:27). *)
EchoedSeq(id) == NoSeq

Seqs == Ids \cup {NoSeq}

Message == [req : Requests, id : Ids]

Reply == [id : Ids, seq : Seqs]

Job(cs) == [at : {"store", "rearm"}, conn : cs, seq : Seqs]

-----------------------------------------------------------------------------
Init ==
  /\ up = TRUE
  /\ conn = [c \in Conns |-> "unused"]
  /\ armed = [c \in Conns |-> FALSE]
  /\ outbox = [c \in Conns |-> <<>>]
  /\ inbox = [c \in Conns |-> <<>>]
  /\ conFd = None
  /\ servFd = FALSE
  /\ prog = "idle"
  /\ asking \in Requests
  /\ reported = {}
  /\ req = <<>>
  /\ response = {}
  /\ todo = <<>>
  /\ worker = [w \in Workers |-> Idle]
  /\ executed = [r \in Requests |-> 0]

-----------------------------------------------------------------------------
(* The server and the network. *)

Serve(c) ==
  /\ conn[c] = "open"
  /\ outbox[c] # <<>>
  /\ LET m == Head(outbox[c])
     IN /\ executed' = [executed EXCEPT ![m.req] = @ + 1]
        /\ inbox' = [inbox EXCEPT
                       ![c] = Append(@, [id |-> m.id, seq |-> EchoedSeq(m.id)])]
  /\ outbox' = [outbox EXCEPT ![c] = Tail(@)]
  /\ UNCHANGED <<up, conn, callVars, readVars, req, response>>

(* Connections end, in order or by a reset: that of a client that was      *)
(* idle, or all of them as the server goes down.  Requests not read are    *)
(* lost, replies may be.                                                   *)
Close(cs) ==
  /\ \E end \in {"closed", "reset"} :
       conn' = [c \in Conns |-> IF c \in cs THEN end ELSE conn[c]]
  /\ outbox' = [c \in Conns |-> IF c \in cs THEN <<>> ELSE outbox[c]]
  /\ \/ UNCHANGED inbox
     \/ inbox' = [c \in Conns |-> IF c \in cs THEN <<>> ELSE inbox[c]]
  /\ UNCHANGED <<executed, callVars, readVars, req, response>>

Kick(c) ==
  /\ conn[c] = "open"
  /\ Close({c})
  /\ UNCHANGED up

GoDown ==
  /\ up
  /\ up' = FALSE
  /\ Close(Open)

ComeUp ==
  /\ ~up
  /\ up' = TRUE
  /\ UNCHANGED <<conn, outbox, inbox, executed, callVars, readVars, req, response>>

-----------------------------------------------------------------------------
(* sendRequest. *)

(* A new socket; the old one is neither closed nor taken out of epoll. *)
Connected(c) ==
  /\ up
  /\ c \in Unused
  /\ conn' = [conn EXCEPT ![c] = "open"]
  /\ armed' = [armed EXCEPT ![c] = TRUE]
  /\ conFd' = c

Refused ==
  /\ ~up
  /\ conFd' = None
  /\ UNCHANGED <<conn, armed>>

Call(r) ==
  /\ prog = "idle"
  /\ r \notin reported
  /\ Len(req) + 2 =< MaxQueue
  /\ asking' = r
  /\ UNCHANGED <<up, outbox, inbox, executed, reported, todo, worker, req, response>>
  /\ \/ /\ servFd
        /\ prog' = "check"
        /\ UNCHANGED <<conn, armed, conFd, servFd>>
     \/ /\ ~servFd
        /\ \E c \in Conns : Connected(c)
        /\ servFd' = TRUE
        /\ prog' = "check"
     \/ /\ ~servFd
        /\ Refused
        /\ UNCHANGED <<servFd, prog>>

Number(id) == req' = Append(req, id)

(* sendAfterSerial numbers the request before it looks at the connection.  *)
(* Without a socket send() fails and so does the call.                     *)
Check(id) ==
  /\ prog = "check"
  /\ Number(id)
  /\ prog' = IF conFd = None THEN "idle"
             ELSE IF conn[conFd] = "open" THEN "send"
             ELSE "reconnect"
  /\ UNCHANGED <<netVars, conFd, servFd, asking, reported, readVars, response>>

(* Into the socket; if it is closed by now the request is lost with it. *)
Put ==
  outbox' = IF conn[conFd] = "open"
              THEN [outbox EXCEPT
                      ![conFd] = Append(@, [req |-> asking, id |-> Last(req)])]
              ELSE outbox

NotReported == prog' = "idle" /\ UNCHANGED reported

Reported ==
  /\ prog' = "idle"
  /\ reported' = reported \cup {asking}

(* send() gets the error of a reset; nobody looks at that in the second    *)
(* request() of a reconnection.                                            *)
Send ==
  /\ prog \in {"send", "resend"}
  /\ conn[conFd] # "failed"
  /\ Put
  /\ IF prog = "send" /\ conn[conFd] = "reset" THEN NotReported ELSE Reported
  /\ conn' = [conn EXCEPT ![conFd] = IF @ = "reset" THEN "closed" ELSE @]
  /\ UNCHANGED <<up, inbox, executed, conFd, servFd, asking, readVars, req, response>>

(* If a readInfo got that error the socket has none left, and send() raises *)
(* SIGPIPE, which the client does not ignore.                              *)
Killed ==
  /\ prog \in {"send", "resend"}
  /\ conn[conFd] = "failed"
  /\ prog' = "killed"
  /\ UNCHANGED <<netVars, conFd, servFd, asking, reported, readVars, req, response>>

Reconnect ==
  /\ prog = "reconnect"
  /\ \E c \in Conns : Connected(c)
  /\ prog' = "recheck"
  /\ UNCHANGED <<up, outbox, inbox, executed, servFd, asking, reported, todo, worker, req, response>>

SendAnyway ==
  /\ prog = "reconnect"
  /\ Refused
  /\ prog' = "recheck"
  /\ UNCHANGED <<up, outbox, inbox, executed, servFd, asking, reported, todo, worker, req, response>>

(* The loop that is to try five times returns in its first turn, with 5,   *)
(* which the caller takes for a descriptor and for success.                *)
GiveUp ==
  /\ prog = "reconnect"
  /\ Refused
  /\ Reported
  /\ UNCHANGED <<up, outbox, inbox, executed, servFd, asking, todo, worker, req, response>>

(* The second request() is numbered again; its result is not looked at. *)
Recheck(id) ==
  /\ prog = "recheck"
  /\ Number(id)
  /\ IF conn[conFd] = "open"
       THEN prog' = "resend" /\ UNCHANGED reported
       ELSE Reported
  /\ UNCHANGED <<netVars, conFd, servFd, asking, readVars, response>>

-----------------------------------------------------------------------------
(* getResult and the readers. *)

Wait ==
  /\ prog = "idle"
  /\ prog' = "wait"
  /\ UNCHANGED <<netVars, conFd, servFd, asking, reported, readVars, req, response>>

StillArmed(cs) == armed

(* EPOLLONESHOT: what epoll_wait reports it will not report again. *)
Disarmed(cs) == [c \in Conns |-> armed[c] /\ c \notin cs]

Report ==
  LET ready == {c \in Readable : armed[c]}
  IN /\ prog = "wait"
     /\ ready # {}
     /\ armed' = Disarmed(ready)
     /\ \E s \in SetToSeqs(ready) : todo' = todo \o s
     /\ prog' = "result"
     /\ UNCHANGED <<netVars, conFd, servFd, asking, reported, worker, req, response>>

(* With requests unanswered the loop waits, busily, for a response and     *)
(* looks for the number at the front of the queue.  It gives up if there   *)
(* is none with it.                                                        *)
Found == req # <<>> /\ Head(req) \in response

Result ==
  /\ prog = "result"
  /\ req # <<>> => response # {}
  /\ prog' = "idle"
  /\ IF Found
       THEN /\ response' = response \ {Head(req)}
            /\ req' = Tail(req)
       ELSE UNCHANGED <<response, req>>
  /\ UNCHANGED <<netVars, conFd, servFd, asking, reported, readVars>>

(* readInfo reads a reply; or end of file, and then it parses a buffer     *)
(* that nobody wrote; or an error, or nothing, and then it returns and     *)
(* leaves the socket disarmed.                                             *)
Read(w) ==
  /\ worker[w].at = "idle"
  /\ todo # <<>>
  /\ todo' = Tail(todo)
  /\ LET c == Head(todo)
         Got(seq) ==
           worker' = [worker EXCEPT ![w] = [at |-> "store", conn |-> c, seq |-> seq]]
     IN \/ /\ inbox[c] # <<>>
           /\ Got(Head(inbox[c]).seq)
           /\ inbox' = [inbox EXCEPT ![c] = Tail(@)]
           /\ UNCHANGED conn
        \/ /\ inbox[c] = <<>>
           /\ IF conn[c] = "closed" THEN \E seq \in Seqs : Got(seq)
                                    ELSE UNCHANGED worker
           /\ conn' = [conn EXCEPT ![c] = IF @ = "reset" THEN "failed" ELSE @]
           /\ UNCHANGED inbox
  /\ UNCHANGED <<up, outbox, executed, callVars, armed, req, response>>

(* insert() keeps the response that has this number already. *)
Store(w) ==
  /\ worker[w].at = "store"
  /\ response' = response \cup {worker[w].seq}
  /\ worker' = [worker EXCEPT ![w].at = "rearm"]
  /\ UNCHANGED <<netVars, callVars, armed, todo, req>>

Forgotten(c) == armed

Armed(c) == [armed EXCEPT ![c] = TRUE]

Rearm(w) ==
  /\ worker[w].at = "rearm"
  /\ armed' = Armed(worker[w].conn)
  /\ worker' = [worker EXCEPT ![w] = Idle]
  /\ UNCHANGED <<netVars, callVars, todo, req, response>>

-----------------------------------------------------------------------------
Server == \E c \in Conns : Serve(c)

Network == GoDown \/ ComeUp \/ \E c \in Conns : Kick(c)

Program ==
  \/ Send \/ Killed \/ Reconnect \/ GiveUp \/ Wait \/ Report \/ Result
  \/ \E r \in Requests : Call(r)
  \/ \E id \in Ids : Check(id) \/ Recheck(id)

Reader(w) == prog # "killed" /\ (Read(w) \/ Store(w) \/ Rearm(w))

Next == Server \/ Network \/ Program \/ \E w \in Workers : Reader(w)

Spec == Init /\ [][Next]_vars

(* The pool's threads run, and so does a program that is in getResult;     *)
(* nobody needs to call anything.  That the server answers whoever is      *)
(* ready is taken for granted; EventLoop has the cases in which it does    *)
(* not.                                                                    *)
FairSpec ==
  /\ Spec
  /\ WF_vars(Server)
  /\ WF_vars(Report) /\ WF_vars(Result)
  /\ \A w \in Workers : WF_vars(Reader(w))

-----------------------------------------------------------------------------
(* The state has its types.  The queue is within its bound, the socket in  *)
(* use is one that was connected, and a request is on its way only over a  *)
(* socket that is open.                                                    *)
TypeOK ==
  /\ up \in BOOLEAN
  /\ conn \in [Conns -> {"unused", "open", "closed", "reset", "failed"}]
  /\ armed \in [Conns -> BOOLEAN]
  /\ outbox \in [Conns -> Seq(Message)]
  /\ inbox \in [Conns -> Seq(Reply)]
  /\ conFd \in Registered \cup {None}
  /\ servFd \in BOOLEAN
  /\ prog \in {"idle", "check", "send", "reconnect", "recheck", "resend",
               "killed", "wait", "result"}
  /\ asking \in Requests
  /\ reported \subseteq Requests
  /\ req \in Seq(Ids) /\ Len(req) =< MaxQueue
  /\ response \subseteq Seqs
  /\ todo \in Seq(Registered)
  /\ worker \in [Workers -> {Idle} \cup Job(Registered)]
  /\ executed \in [Requests -> Nat]
  /\ prog \in {"send", "reconnect", "recheck", "resend"} => servFd
  /\ prog \in {"send", "recheck", "resend"} => conFd # None
  /\ prog \in {"send", "resend"} => req # <<>>
  /\ \A c \in Conns : conn[c] # "open" => outbox[c] = <<>>

Reading(c) == {w \in Workers : worker[w].at # "idle" /\ worker[w].conn = c}

Awaiting(c) == {i \in DOMAIN todo : todo[i] = c}

(* Every socket is either armed or in the hands of exactly one readInfo,   *)
(* queued or running: two of them never share a frame, none of them finds  *)
(* nothing to read, which would leave the socket disarmed, and a socket    *)
(* becomes deaf only when a read of it has failed.  rpc.cpp:30-35, 62-74.  *)
ArmedOrRead ==
  \A c \in Registered :
    /\ armed[c] <=> Reading(c) = {} /\ Awaiting(c) = {} /\ conn[c] # "failed"
    /\ Reading(c) = {} \/ Awaiting(c) = {}
    /\ \A v, w \in Reading(c) : v = w
    /\ \A i, j \in Awaiting(c) : i = j

Underway(r) ==
  \E c \in Conns : \E i \in DOMAIN outbox[c] : outbox[c][i].req = r

(* A request whose sendRequest failed may be asked again, and a request    *)
(* that meets a lost connection is made twice by rpc::sendRequest; still   *)
(* it is sent, and executed, once at most.  And what was reported sent was *)
(* sent: as long as no connection is lost it is executed or underway.      *)
SentOnce ==
  /\ \A c, d \in Conns : \A i \in DOMAIN outbox[c], j \in DOMAIN outbox[d] :
       outbox[c][i].req = outbox[d][j].req => c = d /\ i = j
  /\ \A r \in Requests :
       /\ executed[r] = 0 \/ (executed[r] = 1 /\ ~Underway(r))
       /\ executed[r] = 1 \/ Underway(r) => r \in reported
       /\ r \in reported /\ Lost = {} => executed[r] = 1 \/ Underway(r)

(* There is something to wait for on socket c: its end, a request to be    *)
(* answered, or more replies than readers on their way to them.            *)
Owed(c) ==
  \/ conn[c] = "closed"
  \/ outbox[c] # <<>>
  \/ Len(inbox[c]) > Cardinality(Awaiting(c))

Failed == {c \in Conns : conn[c] = "failed"}

(* getResult returns if something is owed when it starts to wait, although *)
(* its wait has no time limit, the readers of earlier calls take replies   *)
(* under it, and it spins until a response is stored; unless a read fails  *)
(* meanwhile (clientLoop.cpp:123-130, rpc.cpp:28-34).                      *)
GetResultReturns ==
  \A failed \in SUBSET Conns :
    (/\ prog = "wait"
     /\ Failed = failed
     /\ \E c \in Registered : Owed(c))
      ~> prog = "idle" \/ Failed # failed
=============================================================================
