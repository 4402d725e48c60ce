------------------------------ MODULE Terminal ------------------------------
(***************************************************************************)
(* The interactive client (clientLoop::start, mode = 1) and its one        *)
(* connection: commands and replies are frames of 4096 bytes, sent whole   *)
(* and read with one read() each, on both sides; nobody puts the pieces of *)
(* a frame together.  A stream is a sequence of half frames: TCP may hand  *)
(* a reader one half or two, of one frame or of two.  The first half holds *)
(* the message, except that of a long command, which needs both (that a    *)
(* second half might itself read like a message is left out).              *)
(***************************************************************************)
EXTENDS Integers, Sequences

CONSTANT MaxTyped  \* bound: the commands that are typed

ASSUME TerminalAssumption == MaxTyped \in Nat

VARIABLES
  up,        \* the server accepts connections
  conn,      \* the client's socket: "none" (-1), "open", "closed" or "reset"
  toServer,  \* halves of commands the server has not read
  toClient,  \* halves of replies the client has not read
  torn,      \* history: a read on this connection returned no whole frame
  prog,      \* where start() is
  typed,     \* how many commands were typed; they are numbered
  long,      \* the commands whose message needs both halves
  answer,    \* the command whose reply was read last; 0 if it was to none
  executed,  \* history: how often the server executed each command
  cut        \* history: the commands it executed without their second half

netVars == <<up, conn, toServer, toClient, torn>>
userVars == <<typed, long, answer>>
workVars == <<executed, cut>>
vars == <<netVars, prog, userVars, workVars>>

Commands == 1..MaxTyped

(* The reply to what is no command. *)
NotFound == 0

-----------------------------------------------------------------------------
(* Operators named after a slip are used by no action; PROJECT.json        *)
(* substitutes them to test the properties.                                *)

Half(n, part) == [of |-> n, part |-> part]

Frame(n) == <<Half(n, 1), Half(n, 2)>>

(* What read() may return of a stream: a half or two. *)
Reads(s) == {k \in 1..2 : k =< Len(s)}

Chunk(s, k) == SubSeq(s, 1, k)

Rest(s, k) == SubSeq(s, k + 1, Len(s))

WholeFrame(chunk) == Len(chunk) = 2 /\ chunk[1].part = 1

(* The message a buffer is parsed for: a buffer that begins in the middle  *)
(* of a frame holds none.                                                  *)
Parsed(chunk) == IF chunk[1].part = 1 THEN chunk[1].of ELSE NotFound

SilentReply(n) == IF n = NotFound THEN <<>> ELSE Frame(n)

(* rpc::response: a frame, whatever the message was. *)
ReplyTo(n) == Frame(n)

-----------------------------------------------------------------------------
Init ==
  /\ up = TRUE
  /\ conn = "open"
  /\ toServer = <<>> /\ toClient = <<>>
  /\ torn = FALSE
  /\ prog = "prompt"
  /\ typed = 0
  /\ long = {}
  /\ answer = NotFound
  /\ executed = [n \in Commands |-> 0]
  /\ cut = {}

-----------------------------------------------------------------------------
(* The server and the network. *)

(* processRead, processMsg and the reply.  The buffer was cleared before,  *)
(* so of a command that was cut the rest reads as zeros.                   *)
Serve ==
  /\ conn = "open"
  /\ \E k \in Reads(toServer) :
       LET chunk == Chunk(toServer, k)
           n == Parsed(chunk)
       IN /\ toServer' = Rest(toServer, k)
          /\ toClient' = toClient \o ReplyTo(n)
          /\ executed' = IF n = NotFound THEN executed
                         ELSE [executed EXCEPT ![n] = @ + 1]
          /\ cut' = IF n \in long /\ k = 1 THEN cut \cup {n} ELSE cut
          /\ torn' = (torn \/ ~WholeFrame(chunk))
  /\ UNCHANGED <<up, conn, prog, userVars>>

(* The connection ends, in order or by a reset.  Commands not read are     *)
(* lost, replies may be.                                                   *)
End ==
  /\ conn = "open"
  /\ conn' \in {"closed", "reset"}
  /\ toServer' = <<>>
  /\ toClient' \in {toClient, <<>>}

(* The server drops a client that was idle.  It may do so here whatever is *)
(* underway; the timers are EventLoop's.                                   *)
Kick ==
  /\ End
  /\ UNCHANGED <<up, torn, prog, userVars, workVars>>

GoDown ==
  /\ up
  /\ up' = FALSE
  /\ \/ End
     \/ conn # "open" /\ UNCHANGED <<conn, toServer, toClient>>
  /\ UNCHANGED <<torn, prog, userVars, workVars>>

ComeUp ==
  /\ ~up
  /\ up' = TRUE
  /\ UNCHANGED <<conn, toServer, toClient, torn, prog, userVars, workVars>>

-----------------------------------------------------------------------------
(* The client. *)

(* A command of the table with as many words as it needs; others are       *)
(* refused by processCmd and change nothing.                               *)
Type ==
  /\ prog = "prompt"
  /\ typed < MaxTyped
  /\ typed' = typed + 1
  /\ long' \in {long, long \cup {typed + 1}}
  /\ prog' = "check"
  /\ UNCHANGED <<netVars, answer, workVars>>

Quit ==
  /\ prog = "prompt"
  /\ prog' = "off"
  /\ conn' = "none"
  /\ toServer' = <<>> /\ toClient' = <<>>
  /\ UNCHANGED <<up, torn, userVars, workVars>>

Prompt ==
  /\ prog' = "prompt"
  /\ UNCHANGED netVars

(* isConnect.  For the descriptor -1 getsockopt fails, which is not taken   *)
(* for a lost connection: send() fails and the client never connects again. *)
Check ==
  /\ prog = "check"
  /\ prog' = CASE conn = "open" -> "send"
               [] conn = "none" -> "prompt"
               [] OTHER -> "reconnect"
  /\ UNCHANGED <<netVars, userVars, workVars>>

(* send() into a socket that the server closed meanwhile succeeds, and the *)
(* command is lost.                                                        *)
Put ==
  toServer' = IF conn = "open" THEN toServer \o Frame(typed) ELSE toServer

Send ==
  /\ prog = "send"
  /\ IF conn = "reset"
       THEN Prompt
       ELSE /\ Put
            /\ prog' = "read"
            /\ UNCHANGED <<up, conn, toClient, torn>>
  /\ UNCHANGED <<userVars, workVars>>

ReconnectKeeping ==
  /\ prog = "reconnect"
  /\ up
  /\ conn' = "open"
  /\ toServer' = <<>>
  /\ torn' = FALSE
  /\ prog' = "resend"
  /\ UNCHANGED <<up, toClient, userVars, workVars>>

(* A new socket; the old one is left open. *)
Reconnect ==
  /\ prog = "reconnect"
  /\ up
  /\ conn' = "open"
  /\ toServer' = <<>> /\ toClient' = <<>>
  /\ torn' = FALSE
  /\ prog' = "resend"
  /\ UNCHANGED <<up, userVars, workVars>>

(* Without a server the descriptor is -1; read() from it fails.  The loop   *)
(* that is to try five times returns in its first turn.                    *)
GiveUp ==
  /\ prog = "reconnect"
  /\ ~up
  /\ conn' = "none"
  /\ toServer' = <<>> /\ toClient' = <<>>
  /\ prog' = "prompt"
  /\ UNCHANGED <<up, torn, userVars, workVars>>

(* The second request(): its result is not looked at. *)
Resend ==
  /\ prog = "resend"
  /\ Put
  /\ prog' = "read"
  /\ UNCHANGED <<up, conn, toClient, torn, userVars, workVars>>

(* getResponse: one read(), and the reply found in the buffer is printed.  *)
(* Where no reply was read, at the end of file and after a piece of a      *)
(* frame, the buffer has bytes that nobody wrote; so has the end of every  *)
(* reply's frame (rpc::response).  What is printed of those is left out.   *)
(* A reset, which may also answer a send into a closed socket, makes       *)
(* read() fail, and nothing is printed.                                    *)
Read ==
  /\ prog = "read"
  /\ prog' = "prompt"
  /\ \/ \E k \in Reads(toClient) :
          LET chunk == Chunk(toClient, k)
          IN /\ answer' = Parsed(chunk)
             /\ toClient' = Rest(toClient, k)
             /\ torn' = (torn \/ ~WholeFrame(chunk))
     \/ /\ toClient = <<>> /\ conn \in {"closed", "reset"}
        /\ answer' \in {answer, NotFound}
        /\ UNCHANGED <<toClient, torn>>
  /\ UNCHANGED <<up, conn, toServer, typed, long, workVars>>

-----------------------------------------------------------------------------
Client == Check \/ Send \/ Reconnect \/ GiveUp \/ Resend \/ Read

Next == Serve \/ Kick \/ GoDown \/ ComeUp \/ Type \/ Quit \/ Client

Spec == Init /\ [][Next]_vars

(* The client runs on.  That the server serves whoever is ready is taken   *)
(* for granted; EventLoop has the cases in which it does not.              *)
FairSpec == Spec /\ WF_vars(Client) /\ WF_vars(Serve)

-----------------------------------------------------------------------------
(* Properties *)

Stream == Seq([of : 0..MaxTyped, part : 1..2])

(* Types; what is underway was typed. *)
TypeOK ==
  /\ up \in BOOLEAN
  /\ conn \in {"none", "open", "closed", "reset"}
  /\ toServer \in Stream /\ toClient \in Stream
  /\ \A i \in DOMAIN toServer : toServer[i].of \in 1..typed
  /\ torn \in BOOLEAN
  /\ prog \in {"prompt", "check", "send", "reconnect", "resend", "read", "off"}
  /\ typed \in 0..MaxTyped /\ long \subseteq 1..typed
  /\ answer \in 0..typed
  /\ executed \in [Commands -> Nat] /\ cut \subseteq long

(* As long as every read of a connection returned a whole frame, client    *)
(* and server are in step on it, through kicks, restarts and reconnections *)
(* before it: at the prompt nothing is underway, and the reply last read   *)
(* is that of the command last typed, which ran whole.                     *)
InStep ==
  conn = "open" /\ ~torn =>
    /\ prog = "prompt" =>
         /\ toServer = <<>> /\ toClient = <<>>
         /\ answer = typed /\ typed \notin cut
    /\ prog = "read" => toServer \o toClient = Frame(typed)

(* Torn or not, second requests after a reconnection (rpc.cpp:133) execute *)
(* no command twice, and a reply that is read is that of a command that    *)
(* was executed.                                                           *)
RunsOnce ==
  /\ \A n \in Commands : executed[n] =< 1
  /\ answer # NotFound => executed[answer] = 1

(* A command that was typed brings the prompt back, even when frames have  *)
(* fallen apart: the server answers pieces that are no command too, so     *)
(* there is always something to read.                                      *)
PromptReturns == prog = "check" ~> prog = "prompt"
=============================================================================
