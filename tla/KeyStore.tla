------------------------------ MODULE KeyStore ------------------------------
(***************************************************************************)
(* The commands on values: cmdSet::redisCommandProc, the callbacks of      *)
(* cmdCb, the map of redisDb and the objects of dbObject, for one          *)
(* database.  The event loop handles one request at a time, of any of its  *)
(* clients, so that a command is one step.                                 *)
(*                                                                         *)
(* The map of redisDb is a function from some pairs of type and key to the *)
(* contents of the object.  A request is complete: it names a key and      *)
(* carries what its command reads.  Values are not empty.  No command sets *)
(* a time after which an object expires; what a save erases because such a *)
(* time was never initialized is Snapshot's concern.  Answers are told     *)
(* apart as far as a client needs; their wording is left out, and so are   *)
(* the log records (ThreadPool), the change counts (EventLoop) and the     *)
(* times of last use, which only eviction would read.  Operators named     *)
(* after a slip are used by no action; PROJECT.json substitutes them in    *)
(* its mutants.                                                            *)
(***************************************************************************)
EXTENDS Contents

VARIABLES
  db,      \* the objects in memory
  answer,  \* the answer to the last request
  pushed,  \* history: the values pushed to each list, in order
  popped   \* history: the values handed out of each list, in order

histVars == <<pushed, popped>>
vars == <<db, answer, histVars>>

PlaceUntyped(type, k) == <<"any", k>>

(* The type is part of an object's key in the map. *)
Place(type, k) == <<type, k>>

(* The contents of an object of the map m, if it is there. *)
Found(m, type, k, otherwise) ==
  IF Place(type, k) \in DOMAIN m THEN m[Place(type, k)] ELSE otherwise

(* The map with an object changed where it is, or put in as a new one. *)
With(m, type, k, contents) ==
  [p \in DOMAIN m \cup {Place(type, k)} |->
     IF p = Place(type, k) THEN contents ELSE m[p]]

Without(m, type, k) == [p \in DOMAIN m \ {Place(type, k)} |-> m[p]]

Has(type, k) == Place(type, k) \in DOMAIN db

Init ==
  /\ db = Nothing
  /\ answer = Ok
  /\ pushed = [k \in Keys |-> <<>>]
  /\ popped = [k \in Keys |-> <<>>]

-----------------------------------------------------------------------------
(* Strings *)

Text(k) == Found(db, "string", k, None)

Set(k, v) ==
  /\ db' = With(db, "string", k, v)
  /\ answer' = Ok
  /\ UNCHANGED histVars

Get(k) ==
  /\ answer' = IF Has("string", k) THEN <<"value", Text(k)>> ELSE Null
  /\ UNCHANGED <<db, histVars>>

-----------------------------------------------------------------------------
(* Hashes.  A request has groups of fields and groups of values.  Groups   *)
(* are handled in turn up to the first whose numbers of fields and values  *)
(* differ: "new" is what those before it amount to, and "whole" that there *)
(* is none that differs, as in every request of this repository's client.  *)

Hash(k) == Found(db, "hash", k, Nothing)

InPlaceAnew(k, new) == With(db, "hash", k, new)

(* What isExist makes of a hash that is there. *)
InPlace(k, new) == With(db, "hash", k, Overlay(Hash(k), new))

(* Existing hashes are changed group by group: fields written before an    *)
(* uneven group stay written.                                              *)
HSetExisting(k, new, whole) ==
  /\ Has("hash", k)
  /\ db' = InPlace(k, new)
  /\ answer' = IF whole THEN Ok ELSE Fail
  /\ UNCHANGED histVars

(* The code that puts a new hash or set into the map ends without a        *)
(* return statement: any number is returned, and a negative one becomes    *)
(* the answer FAIL.                                                        *)
NewAnswers == {Ok, Fail}

HSetNew(k, new, whole) ==
  /\ ~Has("hash", k)
  /\ IF whole
       THEN db' = With(db, "hash", k, new) /\ answer' \in NewAnswers
       ELSE UNCHANGED db /\ answer' = Fail
  /\ UNCHANGED histVars

HGet(k, f) ==
  /\ answer' = IF f \in DOMAIN Hash(k) THEN <<"value", Hash(k)[f]>> ELSE Null
  /\ UNCHANGED <<db, histVars>>

-----------------------------------------------------------------------------
(* Lists *)

List(k) == Found(db, "list", k, <<>>)

LPush(k, vs) ==
  /\ Len(pushed[k] \o vs) =< MaxPushed
  /\ db' = With(db, "list", k, List(k) \o vs)
  /\ answer' = <<"size", Len(List(k) \o vs)>>
  /\ pushed' = [pushed EXCEPT ![k] = @ \o vs]
  /\ UNCHANGED popped

Few(s) == Len(s) =< 1

Emptied(s) == Len(s) = 0

(* lpop and blpop.  blpop does not block: it leaves the answer blank. *)
Pop(k, nothing) ==
  \/ /\ Has("list", k)
     /\ ~Emptied(List(k))
     /\ db' = With(db, "list", k, Tail(List(k)))
     /\ answer' = <<"popped", Head(List(k)), Len(Tail(List(k)))>>
     /\ popped' = [popped EXCEPT ![k] = Append(@, Head(List(k)))]
     /\ UNCHANGED pushed
  \/ /\ Has("list", k)
     /\ Emptied(List(k))
     /\ db' = Without(db, "list", k)
     /\ answer' = nothing
     /\ UNCHANGED histVars
  \/ /\ ~Has("list", k)
     /\ answer' = nothing
     /\ UNCHANGED <<db, histVars>>

LPop(k) == Pop(k, Null)

BLPop(k) == Pop(k, Blank)

-----------------------------------------------------------------------------
(* Sets *)

Members(k) == Found(db, "set", k, {})

SAdd(k, vs) ==
  /\ db' = With(db, "set", k, Members(k) \cup {vs[i] : i \in DOMAIN vs})
  /\ answer' \in IF Has("set", k) THEN {Blank} ELSE NewAnswers
  /\ UNCHANGED histVars

(* The first member in the order of strings, which is left open.  An       *)
(* emptied set is kept.                                                    *)
SPop(k) ==
  \/ \E v \in Members(k) :
       /\ db' = With(db, "set", k, Members(k) \ {v})
       /\ answer' = <<"value", v>>
       /\ UNCHANGED histVars
  \/ /\ Members(k) = {}
     /\ answer' = Fail
     /\ UNCHANGED <<db, histVars>>

(* This repository's client puts the key of spop where the server does not *)
(* look for it; the server reads an element of an empty list.              *)
SPopNamesNoList ==
  /\ answer' = NoAnswer
  /\ UNCHANGED <<db, histVars>>

-----------------------------------------------------------------------------
(* Sorted sets, as ScoreSet has them *)

Sorted(k) == Found(db, "zset", k, Nothing)

FirstStays(z, s, v) == Overlay([x \in {s} |-> v], z)

ZAdd(k, s, v) ==
  /\ db' = With(db, "zset", k, FirstStays(Sorted(k), s, v))
  /\ answer' = Ok
  /\ UNCHANGED histVars

ZRange(k, low, high) ==
  /\ Has("zset", k)
  /\ Between(Sorted(k), low, high) # Nothing
  /\ answer' = <<"range", Between(Sorted(k), low, high)>>
  /\ UNCHANGED <<db, histVars>>

ZRangeNoSet(k) ==
  /\ ~Has("zset", k)
  /\ answer' = Fail
  /\ UNCHANGED <<db, histVars>>

(* With no member in the range, the byte before an empty string is written *)
(* to: part of its length, so that copying it into the answer fails.       *)
ZRangeNothing(k, low, high) ==
  /\ Has("zset", k)
  /\ Between(Sorted(k), low, high) = Nothing
  /\ answer' = NoAnswer
  /\ UNCHANGED <<db, histVars>>

-----------------------------------------------------------------------------
(* A command that is not in the table.  This repository's client sends     *)
(* blpop without its name.                                                 *)
NotFound ==
  /\ answer' = Null
  /\ UNCHANGED <<db, histVars>>

(* The server is started again; what a save kept is Snapshot's concern. *)
Restart ==
  /\ answer = NoAnswer
  /\ db' = Nothing
  /\ answer' = Ok
  /\ pushed' = [k \in Keys |-> <<>>]
  /\ popped' = [k \in Keys |-> <<>>]

Strings(k) == (\E v \in Values : Set(k, v)) \/ Get(k)

Hashes(k) ==
  \/ \E new \in Maps(Fields, Values), whole \in BOOLEAN :
       /\ whole => new # Nothing
       /\ HSetExisting(k, new, whole) \/ HSetNew(k, new, whole)
  \/ \E f \in Fields : HGet(k, f)

Lists(k) == (\E vs \in ValueLists : LPush(k, vs)) \/ LPop(k) \/ BLPop(k)

Sets(k) == (\E vs \in ValueLists : SAdd(k, vs)) \/ SPop(k) \/ SPopNamesNoList

SortedSets(k) ==
  \/ \E s \in Scores, v \in Values : ZAdd(k, s, v)
  \/ \E low, high \in Scores :
       ZRange(k, low, high) \/ ZRangeNoSet(k) \/ ZRangeNothing(k, low, high)

Next ==
  \/ /\ answer # NoAnswer
     /\ \/ \E k \in Keys :
             Strings(k) \/ Hashes(k) \/ Lists(k) \/ Sets(k) \/ SortedSets(k)
        \/ NotFound
  \/ Restart

Spec == Init /\ [][Next]_vars

-----------------------------------------------------------------------------
(* Properties *)

(* Types: every object has the contents of its type. *)
TypeOK ==
  /\ DOMAIN db \subseteq {"string", "hash", "list", "set", "zset"} \X Keys
  /\ \A k \in Keys :
       /\ Has("string", k) => Text(k) \in Values
       /\ Hash(k) \in Maps(Fields, Values)
       /\ List(k) \in Seq(Values)
       /\ Members(k) \subseteq Values
       /\ Sorted(k) \in Maps(Scores, Values)
  /\ pushed \in [Keys -> Seq(Values)]
  /\ popped \in [Keys -> Seq(Values)]

(* Whoever pushes and pops, and however often the emptied object of a list *)
(* is erased and made again: what was handed out of a list, followed by    *)
(* what is in it, is what was pushed, in that order.                       *)
QueueFifo == \A k \in Keys : pushed[k] = popped[k] \o List(k)

(* What the objects hold, by type and key *)
Texts == [k \in Keys |-> Text(k)]
Tables == [k \in Keys |-> Hash(k)]
Queues == [k \in Keys |-> List(k)]
Groups == [k \in Keys |-> Members(k)]
Rankings == [k \in Keys |-> Sorted(k)]

(* The server's objects amount to a store in which a key has a value of    *)
(* each type of its own, nothing left is as good as nothing stored, an OK  *)
(* means that all was written, and a FAIL that at most what was asked for. *)
Promised ==
  INSTANCE Store WITH
    strings <- Texts, hashes <- Tables, lists <- Queues, sets <- Groups,
    sorted <- Rankings

IsStore == Promised!Spec
=============================================================================
