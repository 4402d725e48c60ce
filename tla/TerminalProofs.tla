--------------------------- MODULE TerminalProofs ---------------------------
(***************************************************************************)
(* Proofs about Terminal, for any number of commands: no command is        *)
(* executed twice, however frames fall apart, and as long as they do not,  *)
(* client and server are in step.                                          *)
(***************************************************************************)
EXTENDS Terminal, SequenceTheorems, TLAPS

HalfFrames == [of : 0..MaxTyped, part : 1..2]

(* No command begins twice in a stream. *)
Single(s) ==
  \A i, j \in 1..Len(s) :
    s[i].part = 1 /\ s[j].part = 1 /\ s[i].of = s[j].of => i = j

(* A command that is about to be sent, or sent again. *)
Fresh == prog \in {"check", "send", "reconnect", "resend"}

Typed ==
  /\ up \in BOOLEAN /\ torn \in BOOLEAN
  /\ conn \in {"none", "open", "closed", "reset"}
  /\ prog \in {"prompt", "check", "send", "reconnect", "resend", "read", "off"}
  /\ toServer \in Seq(HalfFrames) /\ toClient \in Seq(HalfFrames)
  /\ typed \in 0..MaxTyped /\ long \subseteq 1..typed
  /\ answer \in 0..typed
  /\ executed \in [Commands -> Nat]
  /\ cut \subseteq long

(* What is underway to the server was typed, begins once, and was not      *)
(* executed before; the command about to be sent is not underway yet.      *)
Underway ==
  /\ \A i \in 1..Len(toServer) :
       /\ toServer[i].of \in 1..typed
       /\ toServer[i].part = 1 => executed[toServer[i].of] = 0
       /\ Fresh => toServer[i].of # typed
  /\ Single(toServer)

(* What was executed, was typed and sent. *)
Executed ==
  /\ \A n \in Commands : executed[n] =< 1
  /\ \A n \in Commands : n > typed \/ (n = typed /\ Fresh) => executed[n] = 0
  /\ \A n \in cut : executed[n] = 1

(* Replies are to commands that were executed. *)
Answered ==
  /\ answer # NotFound => executed[answer] = 1
  /\ \A i \in 1..Len(toClient) :
       toClient[i].of # NotFound =>
         toClient[i].of \in 1..typed /\ executed[toClient[i].of] = 1

(* A connection whose reads were all of whole frames is empty unless the   *)
(* client waits for a reply.                                               *)
Aligned ==
  conn = "open" /\ ~torn =>
    /\ prog # "read" => toServer = <<>> /\ toClient = <<>>
    /\ prog = "prompt" => answer = typed /\ typed \notin cut
    /\ prog = "read" =>
         /\ typed \in Commands
         /\ \/ toServer = Frame(typed) /\ toClient = <<>>
            \/ toServer = <<>> /\ toClient = Frame(typed) /\ typed \notin cut

Sockets ==
  /\ prog = "resend" => conn # "none"
  /\ prog \in {"check", "send", "reconnect", "resend", "read"} => typed \in Commands

Inv == Typed /\ Underway /\ Executed /\ Answered /\ Aligned /\ Sockets

-----------------------------------------------------------------------------
(* Streams *)

(* What a read leaves is the stream without its first k halves. *)
LEMMA RestIs ==
  ASSUME NEW s \in Seq(HalfFrames), NEW k \in Reads(s)
  PROVE  /\ Rest(s, k) \in Seq(HalfFrames)
         /\ Len(Rest(s, k)) = Len(s) - k
         /\ \A i \in 1..(Len(s) - k) : Rest(s, k)[i] = s[i + k]
<1>1. Len(s) \in Nat /\ k \in 1..2 /\ k =< Len(s)
  BY DEF Reads
<1>2. \A i \in (k + 1)..Len(s) : s[i] \in HalfFrames
  BY <1>1
<1>3. /\ SubSeq(s, k + 1, Len(s)) \in Seq(HalfFrames)
      /\ Len(SubSeq(s, k + 1, Len(s)))
           = IF k + 1 <= Len(s) THEN Len(s) - (k + 1) + 1 ELSE 0
      /\ \A i \in 1..(Len(s) - (k + 1) + 1) :
           SubSeq(s, k + 1, Len(s))[i] = s[k + 1 + i - 1]
  BY <1>1, <1>2, SubSeqProperties
<1> QED
  BY <1>1, <1>3 DEF Rest

(* A read gets the first k halves. *)
LEMMA ChunkIs ==
  ASSUME NEW s \in Seq(HalfFrames), NEW k \in Reads(s)
  PROVE  /\ Len(Chunk(s, k)) = k
         /\ \A i \in 1..k : Chunk(s, k)[i] = s[i]
         /\ 1 \in 1..Len(s) /\ s[1] \in HalfFrames /\ k \in 1..2
<1>1. Len(s) \in Nat /\ k \in 1..2 /\ k =< Len(s)
  BY DEF Reads
<1>2. \A i \in 1..k : s[i] \in HalfFrames
  BY <1>1
<1>3. /\ Len(SubSeq(s, 1, k)) = IF 1 <= k THEN k - 1 + 1 ELSE 0
      /\ \A i \in 1..(k - 1 + 1) : SubSeq(s, 1, k)[i] = s[1 + i - 1]
  BY <1>1, <1>2, SubSeqProperties
<1> QED
  BY <1>1, <1>2, <1>3 DEF Chunk

(* The message found in a read is that of the stream's first half, if that *)
(* begins a frame.                                                         *)
LEMMA ParsedIs ==
  ASSUME NEW s \in Seq(HalfFrames), NEW k \in Reads(s)
  PROVE  Parsed(Chunk(s, k)) = IF s[1].part = 1 THEN s[1].of ELSE NotFound
BY ChunkIs DEF Parsed

LEMMA FrameIs ==
  ASSUME NEW n \in 0..MaxTyped
  PROVE  /\ Frame(n) \in Seq(HalfFrames)
         /\ Len(Frame(n)) = 2
         /\ Frame(n)[1] = [of |-> n, part |-> 1]
         /\ Frame(n)[2] = [of |-> n, part |-> 2]
BY DEF Frame, Half, HalfFrames

LEMMA SentIs ==
  ASSUME NEW s \in Seq(HalfFrames), NEW n \in 0..MaxTyped
  PROVE  /\ s \o Frame(n) \in Seq(HalfFrames)
         /\ Len(s \o Frame(n)) = Len(s) + 2
         /\ \A i \in 1..Len(s) : (s \o Frame(n))[i] = s[i]
         /\ (s \o Frame(n))[Len(s) + 1] = [of |-> n, part |-> 1]
         /\ (s \o Frame(n))[Len(s) + 2] = [of |-> n, part |-> 2]
<1>1. Len(s) \in Nat
  OBVIOUS
<1>2. Frame(n) \in Seq(HalfFrames) /\ Len(Frame(n)) = 2
  BY FrameIs
<1>3. /\ s \o Frame(n) \in Seq(HalfFrames)
      /\ Len(s \o Frame(n)) = Len(s) + Len(Frame(n))
      /\ \A i \in 1..(Len(s) + Len(Frame(n))) :
           (s \o Frame(n))[i] = IF i <= Len(s) THEN s[i] ELSE Frame(n)[i - Len(s)]
  BY <1>2, ConcatProperties, Zenon
<1> QED
  BY <1>1, <1>2, <1>3, FrameIs

LEMMA EmptyIs ==
  /\ <<>> \in Seq(HalfFrames) /\ Len(<<>>) = 0
  /\ Single(<<>>)
BY DEF Single, HalfFrames

(* Reading and sending keep commands from beginning twice. *)
LEMMA RestSingle ==
  ASSUME NEW s \in Seq(HalfFrames), NEW k \in Reads(s), Single(s)
  PROVE  Single(Rest(s, k))
<1>1. Len(s) \in Nat /\ k \in 1..2 /\ k =< Len(s)
  BY DEF Reads
<1> SUFFICES ASSUME NEW i \in 1..(Len(s) - k), NEW j \in 1..(Len(s) - k),
                    Rest(s, k)[i].part = 1, Rest(s, k)[j].part = 1,
                    Rest(s, k)[i].of = Rest(s, k)[j].of
             PROVE  i = j
  BY RestIs DEF Single
<1>2. i + k \in 1..Len(s) /\ j + k \in 1..Len(s)
  BY <1>1
<1>3. Rest(s, k)[i] = s[i + k] /\ Rest(s, k)[j] = s[j + k]
  BY RestIs
<1>4. i + k = j + k
  BY <1>2, <1>3 DEF Single
<1> QED
  BY <1>1, <1>4

LEMMA SentSingle ==
  ASSUME NEW s \in Seq(HalfFrames), NEW n \in 0..MaxTyped, Single(s),
         \A i \in 1..Len(s) : s[i].of # n
  PROVE  Single(s \o Frame(n))
<1>1. ASSUME NEW t, NEW l \in Nat, Len(s) = l, Len(t) = l + 2,
             \A i \in 1..l : t[i] = s[i],
             t[l + 1] = [of |-> n, part |-> 1], t[l + 2] = [of |-> n, part |-> 2]
      PROVE  Single(t)
  <2> SUFFICES ASSUME NEW i \in 1..(l + 2), NEW j \in 1..(l + 2),
                      t[i].part = 1, t[j].part = 1, t[i].of = t[j].of
               PROVE  i = j
    BY <1>1 DEF Single
  <2>1. ASSUME NEW m \in 1..(l + 2), t[m].part = 1
        PROVE  m = l + 1 \/ m \in 1..l
    BY <1>1, <2>1
  <2>2. \A m \in 1..l : t[m].of # n /\ t[m] = s[m]
    BY <1>1
  <2>3. t[l + 1].of = n
    BY <1>1
  <2> QED
    BY <1>1, <2>1, <2>2, <2>3 DEF Single
<1>2. Len(s) \in Nat
  OBVIOUS
<1>3. /\ Len(s \o Frame(n)) = Len(s) + 2
      /\ \A i \in 1..Len(s) : (s \o Frame(n))[i] = s[i]
      /\ (s \o Frame(n))[Len(s) + 1] = [of |-> n, part |-> 1]
      /\ (s \o Frame(n))[Len(s) + 2] = [of |-> n, part |-> 2]
  BY SentIs
<1> QED
  BY <1>1, <1>2, <1>3, Zenon

-----------------------------------------------------------------------------
(* The invariant *)

LEMMA InitInv == Init => Inv
<1> SUFFICES ASSUME Init
             PROVE  Inv
  OBVIOUS
<1>1. MaxTyped \in Nat
  BY TerminalAssumption
<1>2. /\ toServer = <<>> /\ toClient = <<>> /\ typed = 0 /\ answer = 0
      /\ cut = {} /\ long = {} /\ prog = "prompt" /\ conn = "open"
      /\ executed = [n \in Commands |-> 0] /\ up = TRUE /\ torn = FALSE
  BY DEF Init, NotFound
<1>3. Typed
  <2>1. executed \in [Commands -> Nat]
    BY <1>2
  <2>2. toServer \in Seq(HalfFrames) /\ toClient \in Seq(HalfFrames)
    BY <1>2, EmptyIs, Zenon
  <2>3. long \subseteq 1..typed /\ cut \subseteq long
    BY <1>2, Zenon
  <2>4. typed \in 0..MaxTyped /\ answer \in 0..typed
    BY <1>1, <1>2
  <2>5. /\ up \in BOOLEAN /\ torn \in BOOLEAN
        /\ conn \in {"none", "open", "closed", "reset"}
        /\ prog \in {"prompt", "check", "send", "reconnect", "resend", "read", "off"}
    BY <1>2, Zenon
  <2> QED
    BY <2>1, <2>2, <2>3, <2>4, <2>5, Zenon DEF Typed
<1>4. Underway
  BY <1>2, EmptyIs DEF Underway
<1>5. Executed
  BY <1>2 DEF Executed
<1>6. Answered
  BY <1>2, EmptyIs DEF Answered, NotFound
<1>7. Aligned /\ Sockets
  BY <1>2 DEF Aligned, Sockets
<1> QED
  BY <1>3, <1>4, <1>5, <1>6, <1>7 DEF Inv

(* The server reads a piece, and answers it. *)
LEMMA ServeInv ==
  ASSUME Inv, Serve
  PROVE  Inv'
<1>1. Typed /\ Underway /\ Executed /\ Answered /\ Aligned /\ Sockets
  BY DEF Inv
<1>2. PICK k \in Reads(toServer) :
        LET chunk == Chunk(toServer, k)
            n == Parsed(chunk)
        IN /\ toServer' = Rest(toServer, k)
           /\ toClient' = toClient \o ReplyTo(n)
           /\ executed' = IF n = NotFound THEN executed
                          ELSE [executed EXCEPT ![n] = @ + 1]
           /\ cut' = IF n \in long /\ k = 1 THEN cut \cup {n} ELSE cut
           /\ torn' = (torn \/ ~WholeFrame(chunk))
  BY DEF Serve
<1>3. conn = "open" /\ UNCHANGED <<up, conn, prog, typed, long, answer>>
  BY DEF Serve, userVars
<1> DEFINE n == Parsed(Chunk(toServer, k))
<1>4. /\ toServer \in Seq(HalfFrames) /\ toClient \in Seq(HalfFrames)
      /\ typed \in 0..MaxTyped /\ MaxTyped \in Nat
  BY <1>1, TerminalAssumption DEF Typed
<1>5. /\ k \in 1..2 /\ Len(Chunk(toServer, k)) = k
      /\ Chunk(toServer, k)[1] = toServer[1]
      /\ Len(toServer) \in Nat /\ k =< Len(toServer)
      /\ n = IF toServer[1].part = 1 THEN toServer[1].of ELSE NotFound
  BY <1>4, ChunkIs, ParsedIs DEF Reads
<1>6. /\ toServer' \in Seq(HalfFrames) /\ Len(toServer') = Len(toServer) - k
      /\ \A i \in 1..(Len(toServer) - k) : toServer'[i] = toServer[i + k]
      /\ Single(toServer')
  BY <1>1, <1>2, <1>4, RestIs, RestSingle DEF Underway
<1>7. /\ n \in 0..typed
      /\ n # NotFound => /\ n \in Commands /\ executed[n] = 0
                         /\ toServer[1].part = 1 /\ toServer[1].of = n
                         /\ ~(n = typed /\ Fresh)
  BY <1>1, <1>4, <1>5 DEF Underway, NotFound, Commands
<1>8. /\ toClient' \in Seq(HalfFrames) /\ Len(toClient') = Len(toClient) + 2
      /\ Len(toClient) \in Nat
      /\ \A i \in 1..Len(toClient) : toClient'[i] = toClient[i]
      /\ toClient'[Len(toClient) + 1].of = n
      /\ toClient'[Len(toClient) + 2].of = n
  <2>1. n \in 0..MaxTyped
    BY <1>4, <1>7
  <2>2. toClient' = toClient \o Frame(n)
    BY <1>2 DEF ReplyTo
  <2> HIDE DEF n
  <2>3. /\ toClient \o Frame(n) \in Seq(HalfFrames)
        /\ Len(toClient \o Frame(n)) = Len(toClient) + 2
        /\ \A i \in 1..Len(toClient) : (toClient \o Frame(n))[i] = toClient[i]
        /\ (toClient \o Frame(n))[Len(toClient) + 1] = [of |-> n, part |-> 1]
        /\ (toClient \o Frame(n))[Len(toClient) + 2] = [of |-> n, part |-> 2]
    BY <1>4, <2>1, SentIs
  <2>4. Len(toClient) \in Nat
    BY <1>4
  <2> QED
    BY <2>2, <2>3, <2>4
<1>9. /\ executed' \in [Commands -> Nat]
      /\ \A m \in Commands : executed'[m] = IF m = n THEN 1 ELSE executed[m]
  <2>1. executed \in [Commands -> Nat] /\ 0 \notin Commands
    BY <1>1 DEF Typed, Commands
  <2>2. CASE n = NotFound
    BY <1>2, <2>1, <2>2 DEF NotFound
  <2>3. CASE n # NotFound
    BY <1>2, <1>7, <2>1, <2>3
  <2> QED
    BY <2>2, <2>3
<1> HIDE DEF n
<1>10. cut' = IF n \in long /\ k = 1 THEN cut \cup {n} ELSE cut
  BY <1>2 DEF n
<1>11. Fresh' = Fresh
  BY <1>3 DEF Fresh
<1>12. Typed'
  BY <1>1, <1>2, <1>3, <1>6, <1>8, <1>9, <1>10 DEF Typed
<1>13. Underway'
  <2>1. ASSUME NEW i \in 1..Len(toServer')
        PROVE  /\ toServer'[i].of \in 1..typed
               /\ toServer'[i].part = 1 => executed'[toServer'[i].of] = 0
               /\ Fresh => toServer'[i].of # typed
    <3>1. i + k \in 1..Len(toServer) /\ toServer'[i] = toServer[i + k]
          /\ 1 \in 1..Len(toServer) /\ i + k # 1
      BY <1>5, <1>6
    <3>2. /\ toServer[i + k].of \in 1..typed
          /\ toServer[i + k].part = 1 => executed[toServer[i + k].of] = 0
          /\ Fresh => toServer[i + k].of # typed
      BY <1>1, <3>1 DEF Underway
    <3>3. toServer[i + k].of \in Commands
      BY <1>4, <3>2 DEF Commands
    <3>4. toServer[i + k].part = 1 => toServer[i + k].of # n
      BY <1>1, <1>7, <3>1, <3>2 DEF Underway, Single, NotFound
    <3> QED
      BY <1>9, <3>1, <3>2, <3>3, <3>4
  <2> QED
    BY <1>3, <1>6, <1>11, <2>1 DEF Underway
<1>14. Executed'
  <2>1. \A m \in Commands : executed'[m] =< 1
    BY <1>1, <1>9 DEF Executed
  <2>2. ASSUME NEW m \in Commands, m > typed \/ (m = typed /\ Fresh)
        PROVE  executed'[m] = 0
    BY <1>1, <1>4, <1>7, <1>9, <2>2 DEF Executed, NotFound, Commands
  <2>3. ASSUME NEW m \in cut'
        PROVE  executed'[m] = 1
    BY <1>1, <1>4, <1>9, <1>10, <2>3 DEF Executed, Typed, Commands
  <2> QED
    BY <1>3, <1>11, <2>1, <2>2, <2>3 DEF Executed
<1>15. Answered'
  <2>1. \A m \in 1..typed : executed[m] = 1 => executed'[m] = 1
    BY <1>4, <1>9 DEF Commands
  <2>2. n # NotFound => n \in 1..typed /\ executed'[n] = 1
    BY <1>4, <1>7, <1>9 DEF NotFound
  <2>3. answer \in 0..typed
    BY <1>1 DEF Typed
  <2>4. answer # NotFound => executed'[answer] = 1
    BY <1>1, <1>4, <2>1, <2>3 DEF Answered, NotFound
  <2>5. ASSUME NEW i \in 1..Len(toClient'), toClient'[i].of # NotFound
        PROVE  toClient'[i].of \in 1..typed /\ executed'[toClient'[i].of] = 1
    <3>1. CASE i \in 1..Len(toClient)
      BY <1>1, <1>8, <2>1, <2>5, <3>1 DEF Answered
    <3>2. CASE i \notin 1..Len(toClient)
      <4>1. i = Len(toClient) + 1 \/ i = Len(toClient) + 2
        BY <1>8, <3>2
      <4> QED
        BY <1>8, <2>2, <2>5, <4>1
    <3> QED
      BY <3>1, <3>2
  <2> QED
    BY <1>3, <2>4, <2>5 DEF Answered
<1>16. Aligned'
  <2> SUFFICES ASSUME ~torn'
               PROVE  /\ prog = "read" /\ typed \in Commands
                      /\ toServer' = <<>> /\ toClient' = Frame(typed)
                      /\ typed \notin cut'
    BY <1>3 DEF Aligned
  <2>1. ~torn /\ WholeFrame(Chunk(toServer, k))
    BY <1>2, Zenon
  <2>2. k = 2 /\ toServer[1].part = 1 /\ toServer # <<>>
    BY <1>5, <2>1 DEF WholeFrame
  <2>3. /\ prog = "read" /\ typed \in Commands
        /\ toServer = Frame(typed) /\ toClient = <<>>
    BY <1>1, <1>3, <2>1, <2>2 DEF Aligned
  <2>4. Len(Frame(typed)) = 2 /\ Frame(typed)[1].of = typed
    <3>1. Len(Frame(typed)) = 2 /\ Frame(typed)[1] = [of |-> typed, part |-> 1]
      BY <1>4, FrameIs, Zenon
    <3> QED
      BY <3>1
  <2>5. n = typed
    BY <1>5, <2>2, <2>3, <2>4
  <2>6. toServer' = <<>>
    BY <1>6, <2>2, <2>3, <2>4
  <2>7. toClient' = Frame(typed)
    <3>1. toClient' = <<>> \o Frame(typed)
      BY <1>2, <2>3, <2>5 DEF ReplyTo, n
    <3>2. Frame(typed) \in Seq(HalfFrames)
      BY <1>4, FrameIs
    <3> QED
      BY <3>1, <3>2, ConcatEmptySeq
  <2>8. typed \notin cut'
    <3>1. executed[typed] = 0
      BY <1>7, <2>3, <2>5 DEF Commands, NotFound
    <3> QED
      BY <1>1, <1>10, <2>2, <3>1 DEF Executed
  <2> QED
    BY <2>3, <2>6, <2>7, <2>8
<1>17. Sockets'
  BY <1>1, <1>3 DEF Sockets
<1> QED
  BY <1>12, <1>13, <1>14, <1>15, <1>16, <1>17 DEF Inv

(* The connection ends: what is underway to the server is lost, replies    *)
(* may be.                                                                 *)
LEMMA EndInv ==
  ASSUME Inv, End, UNCHANGED <<torn, prog, userVars, workVars>>, up' \in BOOLEAN
  PROVE  Inv'
<1>1. /\ toServer' = <<>> /\ toClient' \in {toClient, <<>>}
      /\ conn' \in {"closed", "reset"}
      /\ UNCHANGED <<torn, prog, typed, long, answer, executed, cut>>
  BY DEF End, userVars, workVars
<1>2. Typed'
  BY <1>1, EmptyIs DEF Inv, Typed
<1>3. Underway'
  BY <1>1, EmptyIs DEF Underway
<1>4. Executed'
  BY <1>1 DEF Inv, Executed, Fresh
<1>5. Answered'
  BY <1>1, EmptyIs DEF Inv, Answered
<1>6. Aligned' /\ Sockets'
  BY <1>1 DEF Inv, Aligned, Sockets
<1> QED
  BY <1>2, <1>3, <1>4, <1>5, <1>6 DEF Inv

(* What the steps that only move the client on leave alone. *)
LEMMA MovesInv ==
  ASSUME Inv, UNCHANGED <<netVars, userVars, workVars>>,
         prog' \in {"prompt", "send", "reconnect"}, prog = "check",
         prog' = "prompt" => conn # "open"
  PROVE  Inv'
BY DEF Inv, Typed, Underway, Executed, Answered, Aligned, Sockets, Fresh,
       netVars, userVars, workVars

LEMMA ComeUpInv ==
  ASSUME Inv, ComeUp
  PROVE  Inv'
BY DEF ComeUp, Inv, Typed, Underway, Executed, Answered, Aligned, Sockets, Fresh,
       userVars, workVars

LEMMA TypeInv ==
  ASSUME Inv, Type
  PROVE  Inv'
<1>1. /\ prog = "prompt" /\ prog' = "check" /\ typed < MaxTyped
      /\ typed' = typed + 1 /\ long' \in {long, long \cup {typed + 1}}
      /\ UNCHANGED <<up, conn, toServer, toClient, torn, answer, executed, cut>>
  BY DEF Type, netVars, workVars
<1>2. MaxTyped \in Nat /\ typed \in 0..MaxTyped
  BY TerminalAssumption DEF Inv, Typed
<1>3. Typed'
  BY <1>1, <1>2 DEF Inv, Typed
<1>4. Underway'
  BY <1>1, <1>2 DEF Inv, Underway
<1>5. Executed'
  BY <1>1, <1>2 DEF Inv, Executed, Fresh, Commands
<1>6. Answered'
  BY <1>1, <1>2 DEF Inv, Answered
<1>7. Aligned' /\ Sockets'
  BY <1>1, <1>2 DEF Inv, Aligned, Sockets, Commands
<1> QED
  BY <1>3, <1>4, <1>5, <1>6, <1>7 DEF Inv

(* The client leaves, or gives up. *)
LEMMA CloseInv ==
  ASSUME Inv, conn' = "none", toServer' = <<>>, toClient' = <<>>,
         UNCHANGED <<up, torn, userVars, workVars>>,
         prog' \in {"off", "prompt"}
  PROVE  Inv'
<1>1. UNCHANGED <<up, torn, typed, long, answer, executed, cut>>
  BY DEF userVars, workVars
<1>2. Typed'
  BY <1>1, EmptyIs DEF Inv, Typed
<1>3. Underway'
  BY EmptyIs DEF Underway
<1>4. Executed'
  BY <1>1 DEF Inv, Executed, Fresh
<1>5. Answered'
  BY <1>1, EmptyIs DEF Inv, Answered
<1>6. Aligned' /\ Sockets'
  BY DEF Aligned, Sockets
<1> QED
  BY <1>2, <1>3, <1>4, <1>5, <1>6 DEF Inv

(* The command is sent, or lost in a socket that was closed meanwhile. *)
LEMMA PutInv ==
  ASSUME Inv, Put, prog \in {"send", "resend"}, prog' = "read",
         UNCHANGED <<up, conn, toClient, torn, userVars, workVars>>
  PROVE  Inv'
<1>1. UNCHANGED <<up, conn, toClient, torn, typed, long, answer, executed, cut>>
  BY DEF userVars, workVars
<1>2. CASE conn # "open"
  <2>1. toServer' = toServer
    BY <1>2 DEF Put
  <2> QED
    BY <1>1, <1>2, <2>1 DEF Inv, Typed, Underway, Executed, Answered, Aligned,
       Sockets, Fresh
<1>3. CASE conn = "open"
  <2>1. toServer' = toServer \o Frame(typed)
    BY <1>3 DEF Put
  <2>2. /\ toServer \in Seq(HalfFrames) /\ typed \in 0..MaxTyped /\ typed \in Commands
        /\ Fresh /\ ~Fresh' /\ MaxTyped \in Nat /\ Len(toServer) \in Nat
        /\ Single(toServer) /\ \A i \in 1..Len(toServer) : toServer[i].of # typed
    BY TerminalAssumption DEF Inv, Typed, Fresh, Sockets, Underway
  <2>3. /\ toServer' \in Seq(HalfFrames) /\ Len(toServer') = Len(toServer) + 2
        /\ \A i \in 1..Len(toServer) : toServer'[i] = toServer[i]
        /\ toServer'[Len(toServer) + 1] = [of |-> typed, part |-> 1]
        /\ toServer'[Len(toServer) + 2] = [of |-> typed, part |-> 2]
        /\ Single(toServer')
    <3>1. /\ toServer \o Frame(typed) \in Seq(HalfFrames)
          /\ Len(toServer \o Frame(typed)) = Len(toServer) + 2
          /\ \A i \in 1..Len(toServer) : (toServer \o Frame(typed))[i] = toServer[i]
          /\ (toServer \o Frame(typed))[Len(toServer) + 1] = [of |-> typed, part |-> 1]
          /\ (toServer \o Frame(typed))[Len(toServer) + 2] = [of |-> typed, part |-> 2]
      BY <2>2, SentIs, Zenon
    <3>2. Single(toServer \o Frame(typed))
      BY <2>2, SentSingle
    <3> QED
      BY <2>1, <3>1, <3>2, Zenon
  <2>4. Typed'
    BY <1>1, <2>3 DEF Inv, Typed
  <2>5. Underway'
    <3>1. ASSUME NEW i \in 1..Len(toServer')
          PROVE  /\ toServer'[i].of \in 1..typed
                 /\ toServer'[i].part = 1 => executed[toServer'[i].of] = 0
      <4>1. CASE i \in 1..Len(toServer)
        BY <2>2, <2>3, <4>1 DEF Inv, Underway
      <4>2. CASE i \notin 1..Len(toServer)
        <5>1. i = Len(toServer) + 1 \/ i = Len(toServer) + 2
          BY <2>2, <2>3, <4>2
        <5>2. toServer'[i].of = typed
          BY <2>3, <5>1
        <5>3. executed[typed] = 0 /\ typed \in 1..typed
          BY <2>2 DEF Inv, Executed, Commands
        <5> QED
          BY <5>2, <5>3
      <4> QED
        BY <4>1, <4>2
    <3> QED
      BY <1>1, <2>2, <2>3, <3>1 DEF Underway
  <2>6. Executed'
    BY <1>1, <2>2 DEF Inv, Executed
  <2>7. Answered'
    BY <1>1 DEF Inv, Answered
  <2>8. Aligned'
    <3>1. ~torn => toServer = <<>> /\ toClient = <<>>
      BY <1>3 DEF Inv, Aligned
    <3>2. <<>> \o Frame(typed) = Frame(typed)
      <4>1. Frame(typed) \in Seq(HalfFrames)
        BY <2>2, FrameIs
      <4> QED
        BY <4>1, ConcatEmptySeq
    <3>3. ~torn => toServer' = Frame(typed) /\ toClient' = <<>>
      BY <1>1, <2>1, <3>1, <3>2, Zenon
    <3> SUFFICES ASSUME ~torn
                 PROVE  /\ typed \in Commands
                        /\ toServer' = Frame(typed) /\ toClient' = <<>>
      BY <1>1 DEF Aligned
    <3> QED
      BY <2>2, <3>3, Zenon
  <2>9. Sockets'
    BY <1>1, <2>2 DEF Sockets
  <2> QED
    BY <2>4, <2>5, <2>6, <2>7, <2>8, <2>9 DEF Inv
<1> QED
  BY <1>2, <1>3

LEMMA SendInv ==
  ASSUME Inv, Send
  PROVE  Inv'
<1>1. CASE conn = "reset"
  <2>1. /\ prog' = "prompt" /\ prog = "send"
        /\ UNCHANGED <<netVars, userVars, workVars>>
    BY <1>1 DEF Send, Prompt
  <2> QED
    BY <1>1, <2>1 DEF Inv, Typed, Underway, Executed, Answered, Aligned, Sockets,
       Fresh, netVars, userVars, workVars
<1>2. CASE conn # "reset"
  BY <1>2, PutInv DEF Send
<1> QED
  BY <1>1, <1>2

(* A new connection begins with nothing underway. *)
LEMMA ReconnectInv ==
  ASSUME Inv, Reconnect
  PROVE  Inv'
<1>1. /\ conn' = "open" /\ toServer' = <<>> /\ toClient' = <<>> /\ torn' = FALSE
      /\ prog = "reconnect" /\ prog' = "resend"
      /\ UNCHANGED <<up, typed, long, answer, executed, cut>>
  BY DEF Reconnect, userVars, workVars
<1>2. Typed'
  BY <1>1, EmptyIs DEF Inv, Typed
<1>3. Underway'
  BY <1>1, EmptyIs DEF Underway
<1>4. Executed'
  BY <1>1 DEF Inv, Executed, Fresh
<1>5. Answered'
  BY <1>1, EmptyIs DEF Inv, Answered
<1>6. Aligned' /\ Sockets'
  BY <1>1 DEF Inv, Aligned, Sockets
<1> QED
  BY <1>2, <1>3, <1>4, <1>5, <1>6 DEF Inv

(* One read of the client, whatever is in the buffer. *)
LEMMA ReadInv ==
  ASSUME Inv, Read
  PROVE  Inv'
<1>1. /\ prog = "read" /\ prog' = "prompt"
      /\ UNCHANGED <<up, conn, toServer, typed, long, executed, cut>>
  BY DEF Read, workVars
<1>2. /\ toClient \in Seq(HalfFrames) /\ typed \in 0..MaxTyped /\ MaxTyped \in Nat
      /\ answer \in 0..typed
  BY TerminalAssumption DEF Inv, Typed
<1>3. Underway' /\ Executed' /\ Sockets'
  BY <1>1 DEF Inv, Underway, Executed, Sockets, Fresh
<1>4. CASE /\ toClient = <<>> /\ conn \in {"closed", "reset"}
           /\ answer' \in {answer, NotFound}
           /\ UNCHANGED <<toClient, torn>>
  <2>1. Typed' /\ Answered' /\ Aligned'
    BY <1>1, <1>2, <1>4 DEF Inv, Typed, Answered, Aligned, NotFound
  <2> QED
    BY <1>3, <2>1 DEF Inv
<1>5. ASSUME NEW k \in Reads(toClient),
             answer' = Parsed(Chunk(toClient, k)),
             toClient' = Rest(toClient, k),
             torn' = (torn \/ ~WholeFrame(Chunk(toClient, k)))
      PROVE  Inv'
  <2>1. /\ Len(Chunk(toClient, k)) = k /\ Chunk(toClient, k)[1] = toClient[1]
        /\ 1 \in 1..Len(toClient) /\ toClient[1] \in HalfFrames /\ k \in 1..2
    BY <1>2, ChunkIs
  <2>2. answer' = IF toClient[1].part = 1 THEN toClient[1].of ELSE NotFound
    BY <1>2, <1>5, ParsedIs
  <2>3. /\ toClient' \in Seq(HalfFrames) /\ Len(toClient') = Len(toClient) - k
        /\ \A i \in 1..(Len(toClient) - k) : toClient'[i] = toClient[i + k]
        /\ Len(toClient) \in Nat
    BY <1>2, <1>5, RestIs
  <2>4. answer' \in 0..typed /\ (answer' # NotFound => executed[answer'] = 1)
    BY <1>2, <2>1, <2>2 DEF Inv, Answered, NotFound
  <2>5. Typed'
    BY <1>1, <1>2, <1>5, <2>3, <2>4 DEF Inv, Typed
  <2>6. Answered'
    <3>1. ASSUME NEW i \in 1..Len(toClient'), toClient'[i].of # NotFound
          PROVE  toClient'[i].of \in 1..typed /\ executed[toClient'[i].of] = 1
      <4>1. i + k \in 1..Len(toClient) /\ toClient'[i] = toClient[i + k]
        BY <2>1, <2>3
      <4> QED
        BY <3>1, <4>1 DEF Inv, Answered
    <3> QED
      BY <1>1, <2>4, <3>1 DEF Answered
  <2>7. Aligned'
    <3> SUFFICES ASSUME conn = "open", ~torn'
                 PROVE  /\ toServer' = <<>> /\ toClient' = <<>>
                        /\ answer' = typed /\ typed \notin cut
      BY <1>1 DEF Aligned
    <3>1. ~torn /\ WholeFrame(Chunk(toClient, k))
      BY <1>5, Zenon
    <3>2. k = 2 /\ toClient[1].part = 1 /\ toClient # <<>>
      BY <2>1, <3>1 DEF WholeFrame
    <3>3. toServer = <<>> /\ toClient = Frame(typed) /\ typed \notin cut
      BY <1>1, <3>1, <3>2 DEF Inv, Aligned
    <3>4. Len(Frame(typed)) = 2 /\ Frame(typed)[1] = [of |-> typed, part |-> 1]
      BY <1>2, FrameIs, Zenon
    <3>5. toClient[1].of = typed /\ Len(toClient) = 2
      BY <3>3, <3>4
    <3>6. toClient' = <<>>
      BY <2>3, <3>2, <3>5
    <3> QED
      BY <1>1, <2>2, <3>2, <3>3, <3>5, <3>6
  <2> QED
    BY <1>3, <2>5, <2>6, <2>7 DEF Inv
<1> QED
  BY <1>4, <1>5 DEF Read

LEMMA NextInv ==
  ASSUME Inv, [Next]_vars
  PROVE  Inv'
<1>1. ASSUME Kick PROVE Inv'
  BY <1>1, EndInv DEF Kick, Inv, Typed
<1>2. ASSUME GoDown PROVE Inv'
  <2>1. CASE End
    BY <1>2, <2>1, EndInv DEF GoDown
  <2>2. CASE UNCHANGED <<conn, toServer, toClient>>
    BY <1>2, <2>2 DEF GoDown, Inv, Typed, Underway, Executed, Answered, Aligned,
       Sockets, Fresh, userVars, workVars
  <2> QED
    BY <1>2, <2>1, <2>2 DEF GoDown
<1>3. ASSUME Quit PROVE Inv'
  BY <1>3, CloseInv DEF Quit
<1>4. ASSUME GiveUp PROVE Inv'
  BY <1>4, CloseInv DEF GiveUp
<1>5. ASSUME Check PROVE Inv'
  <2>1. /\ prog = "check" /\ prog' \in {"prompt", "send", "reconnect"}
        /\ prog' = "prompt" => conn # "open"
        /\ UNCHANGED <<netVars, userVars, workVars>>
    BY <1>5 DEF Check
  <2> QED
    BY <2>1, MovesInv
<1>6. ASSUME Resend PROVE Inv'
  BY <1>6, PutInv DEF Resend
<1>7. CASE UNCHANGED vars
  BY <1>7 DEF vars, netVars, userVars, workVars, Inv, Typed, Underway, Executed,
     Answered, Aligned, Sockets, Fresh
<1> QED
  BY <1>1, <1>2, <1>3, <1>4, <1>5, <1>6, <1>7, ServeInv, ComeUpInv, TypeInv,
     SendInv, ReconnectInv, ReadInv DEF Next, Client

LEMMA Invariance == Spec => []Inv
BY InitInv, NextInv, PTL DEF Spec

-----------------------------------------------------------------------------
(* The theorems *)

(* The state always has its types, and what is underway to the server was  *)
(* typed (clientLoop::start).                                              *)
THEOREM TypeCorrect == Spec => []TypeOK
<1>1. Inv => TypeOK
  BY DEF Inv, Typed, Underway, TypeOK, Stream, HalfFrames
<1> QED
  BY <1>1, Invariance, PTL

(* A command that was sent again after a reconnection (rpc.cpp:133) is not *)
(* executed twice, and a reply that is read is that of an executed         *)
(* command, with any number of commands and torn frames.                   *)
THEOREM CommandsRunOnce == Spec => []RunsOnce
<1>1. Inv => RunsOnce
  BY DEF Inv, Executed, Answered, RunsOnce
<1> QED
  BY <1>1, Invariance, PTL

(* Client and server are in step on every connection whose reads were all  *)
(* of whole frames (aeEvent::processRead, rpc::getResponse).               *)
THEOREM TerminalInStep == Spec => []InStep
<1>1. Inv => InStep
  <2> SUFFICES ASSUME Inv, conn = "open", ~torn, prog = "read"
               PROVE  toServer \o toClient = Frame(typed)
    BY DEF Inv, Aligned, InStep
  <2>1. Frame(typed) \in Seq(HalfFrames)
    BY FrameIs DEF Inv, Typed
  <2>2. /\ Frame(typed) \o <<>> = Frame(typed)
        /\ <<>> \o Frame(typed) = Frame(typed)
    BY <2>1, ConcatEmptySeq
  <2> QED
    BY <2>2 DEF Inv, Aligned
<1> QED
  BY <1>1, Invariance, PTL
=============================================================================
