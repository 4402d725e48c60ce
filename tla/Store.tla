------------------------------- MODULE Store -------------------------------
(***************************************************************************)
(* What the commands on the five kinds of value promise a client, whatever *)
(* objects the server keeps for it: contents by kind and key, with nothing *)
(* stored and nothing left being the same.  KeyStore implements it.        *)
(***************************************************************************)
EXTENDS Contents

VARIABLES
  strings,  \* string or None
  hashes,   \* from some of Fields to Values
  lists,    \* sequence of values
  sets,     \* set of members
  sorted,   \* from some of Scores to the member
  answer    \* the last answer

Init ==
  /\ strings = [k \in Keys |-> None]
  /\ hashes = [k \in Keys |-> Nothing]
  /\ lists = [k \in Keys |-> <<>>]
  /\ sets = [k \in Keys |-> {}]
  /\ sorted = [k \in Keys |-> Nothing]
  /\ answer = Ok

Set(k, v) ==
  /\ strings' = [strings EXCEPT ![k] = v]
  /\ answer' = Ok
  /\ UNCHANGED <<hashes, lists, sets, sorted>>

Get(k) ==
  /\ answer' = IF strings[k] = None THEN Null ELSE <<"value", strings[k]>>
  /\ UNCHANGED <<strings, hashes, lists, sets, sorted>>

(* OK: all fields were written.  FAIL: the first of them may be. *)
HSet(k, new) ==
  /\ \/ /\ answer' = Ok
        /\ hashes' = [hashes EXCEPT ![k] = Overlay(@, new)]
     \/ /\ answer' = Fail
        /\ \/ hashes' = [hashes EXCEPT ![k] = Overlay(@, new)]
           \/ UNCHANGED hashes
  /\ UNCHANGED <<strings, lists, sets, sorted>>

HGet(k, f) ==
  /\ answer' = IF f \in DOMAIN hashes[k] THEN <<"value", hashes[k][f]>> ELSE Null
  /\ UNCHANGED <<strings, hashes, lists, sets, sorted>>

(* A list is a queue: values go in at one end and out at the other. *)
Push(k, vs) ==
  /\ lists' = [lists EXCEPT ![k] = @ \o vs]
  /\ answer' = <<"size", Len(lists[k] \o vs)>>
  /\ UNCHANGED <<strings, hashes, sets, sorted>>

Pop(k) ==
  /\ lists[k] # <<>>
  /\ lists' = [lists EXCEPT ![k] = Tail(@)]
  /\ answer' = <<"popped", Head(lists[k]), Len(lists[k]) - 1>>
  /\ UNCHANGED <<strings, hashes, sets, sorted>>

PopNothing(k) ==
  /\ lists[k] = <<>>
  /\ answer' \in {Null, Blank}
  /\ UNCHANGED <<strings, hashes, lists, sets, sorted>>

(* The members are added, whatever the answer. *)
Add(k, vs) ==
  /\ sets' = [sets EXCEPT ![k] = @ \cup {vs[i] : i \in DOMAIN vs}]
  /\ answer' \in {Ok, Fail, Blank}
  /\ UNCHANGED <<strings, hashes, lists, sorted>>

TakeOut(k) ==
  /\ \E v \in sets[k] :
       /\ sets' = [sets EXCEPT ![k] = @ \ {v}]
       /\ answer' = <<"value", v>>
  /\ UNCHANGED <<strings, hashes, lists, sorted>>

TakeNothing(k) ==
  /\ sets[k] = {}
  /\ answer' = Fail
  /\ UNCHANGED <<strings, hashes, lists, sets, sorted>>

(* The first member of a score stays. *)
Score(k, s, v) ==
  /\ sorted' = [sorted EXCEPT ![k] = Overlay([x \in {s} |-> v], @)]
  /\ answer' = Ok
  /\ UNCHANGED <<strings, hashes, lists, sets>>

Ranked(k, low, high) ==
  /\ answer' \in {<<"range", Between(sorted[k], low, high)>>, Fail}
  /\ answer' = Fail => Between(sorted[k], low, high) = Nothing
  /\ UNCHANGED <<strings, hashes, lists, sets, sorted>>

Unknown ==
  /\ answer' = Null
  /\ UNCHANGED <<strings, hashes, lists, sets, sorted>>

(* The server dies, and starts again with nothing. *)
Die ==
  /\ answer' = NoAnswer
  /\ UNCHANGED <<strings, hashes, lists, sets, sorted>>

Restart ==
  /\ answer = NoAnswer
  /\ Init'

Command(k) ==
  \/ \E v \in Values : Set(k, v)
  \/ Get(k)
  \/ \E new \in Maps(Fields, Values) : HSet(k, new)
  \/ \E f \in Fields : HGet(k, f)
  \/ \E vs \in ValueLists : Push(k, vs) \/ Add(k, vs)
  \/ Pop(k) \/ PopNothing(k)
  \/ TakeOut(k) \/ TakeNothing(k)
  \/ \E s \in Scores, v \in Values : Score(k, s, v)
  \/ \E low, high \in Scores : Ranked(k, low, high)
  \/ Die

Next ==
  \/ answer # NoAnswer /\ (Unknown \/ \E k \in Keys : Command(k))
  \/ Restart

Spec == Init /\ [][Next]_<<strings, hashes, lists, sets, sorted, answer>>
=============================================================================
