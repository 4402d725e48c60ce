--------------------------- MODULE KeyStoreProofs ---------------------------
(***************************************************************************)
(* For any keys, values, fields and scores: the objects keep their types,  *)
(* lists are queues, and the commands implement Store.                     *)
(***************************************************************************)
EXTENDS KeyStore, SequenceTheorems, TLAPS

Types == {"string", "hash", "list", "set", "zset"}

(* Putting one object into a map changes what is found of that object only. *)
LEMMA FoundWith ==
  ASSUME NEW m, NEW t, NEW k, NEW contents, NEW u, NEW j, NEW otherwise
  PROVE  Found(With(m, t, k, contents), u, j, otherwise) =
           IF u = t /\ j = k THEN contents ELSE Found(m, u, j, otherwise)
<1> DEFINE w == With(m, t, k, contents)
<1>1. /\ DOMAIN w = DOMAIN m \cup {Place(t, k)}
      /\ \A p \in DOMAIN w :
           w[p] = IF p = Place(t, k) THEN contents ELSE m[p]
  BY DEF With
<1>2. Place(u, j) = Place(t, k) <=> u = t /\ j = k
  BY DEF Place
<1> QED
  BY <1>1, <1>2 DEF Found

(* Erasing one object takes away that object only. *)
LEMMA FoundWithout ==
  ASSUME NEW m, NEW t, NEW k, NEW u, NEW j, NEW otherwise
  PROVE  Found(Without(m, t, k), u, j, otherwise) =
           IF u = t /\ j = k THEN otherwise ELSE Found(m, u, j, otherwise)
<1> DEFINE w == Without(m, t, k)
<1>1. /\ DOMAIN w = DOMAIN m \ {Place(t, k)}
      /\ \A p \in DOMAIN w : w[p] = m[p]
  BY DEF Without
<1>2. Place(u, j) = Place(t, k) <=> u = t /\ j = k
  BY DEF Place
<1> QED
  BY <1>1, <1>2 DEF Found

(* Nothing is found in an empty map.                                       *)
LEMMA FoundNothing ==
  ASSUME NEW u, NEW j, NEW otherwise
  PROVE  Found(Nothing, u, j, otherwise) = otherwise
BY DEF Nothing, Found

(* Writing some fields over others gives fields and values. *)
LEMMA OverlayMap ==
  ASSUME NEW S, NEW T, NEW f \in Maps(S, T), NEW g \in Maps(S, T)
  PROVE  Overlay(f, g) \in Maps(S, T)
<1>1. PICK A \in SUBSET S : f \in [A -> T]
  BY DEF Maps
<1>2. PICK B \in SUBSET S : g \in [B -> T]
  BY DEF Maps
<1>3. Overlay(f, g) \in [A \cup B -> T]
  BY <1>1, <1>2 DEF Overlay
<1> QED
  BY <1>3 DEF Maps

(* The empty function is one from some members to values.                  *)
LEMMA NothingMap ==
  ASSUME NEW S, NEW T
  PROVE  Nothing \in Maps(S, T)
<1>1. Nothing \in [{} -> T]
  BY DEF Nothing
<1> QED
  BY <1>1 DEF Maps

(* One score with its member is a sorted set.                              *)
LEMMA SingleMap ==
  ASSUME NEW S, NEW T, NEW s \in S, NEW v \in T
  PROVE  [x \in {s} |-> v] \in Maps(S, T)
<1>1. [x \in {s} |-> v] \in [{s} -> T]
  OBVIOUS
<1> QED
  BY <1>1 DEF Maps

-----------------------------------------------------------------------------
(* What a command changes: one object of one type *)

Untouched(j) ==
  /\ Has("string", j)' <=> Has("string", j)
  /\ Text(j)' = Text(j)
  /\ Hash(j)' = Hash(j)
  /\ List(j)' = List(j)
  /\ Members(j)' = Members(j)
  /\ Sorted(j)' = Sorted(j)

DomainOK == DOMAIN db \subseteq Types \X Keys

(* Storing a string changes what is found of that string only; so do the   *)
(* next lemmas say of objects of the other types.                          *)
LEMMA WithText ==
  ASSUME DomainOK, NEW k \in Keys, NEW contents,
         db' = With(db, "string", k, contents)
  PROVE  /\ DomainOK'
         /\ \A j \in Keys :
          /\ Has("string", j)' <=> j = k \/ Has("string", j)
          /\ Text(j)' = IF j = k THEN contents ELSE Text(j)
          /\ Hash(j)' = Hash(j)
          /\ List(j)' = List(j)
          /\ Members(j)' = Members(j)
          /\ Sorted(j)' = Sorted(j)
<1>1. DOMAIN db' = DOMAIN db \cup {Place("string", k)}
  BY DEF With
<1>2. DomainOK'
  BY <1>1 DEF DomainOK, Place, Types
<1>3. ASSUME NEW j \in Keys
      PROVE
          /\ Has("string", j)' <=> j = k \/ Has("string", j)
          /\ Text(j)' = IF j = k THEN contents ELSE Text(j)
          /\ Hash(j)' = Hash(j)
          /\ List(j)' = List(j)
          /\ Members(j)' = Members(j)
          /\ Sorted(j)' = Sorted(j)
  BY <1>1, FoundWith DEF Has, Place, Text, Hash, List, Members, Sorted
<1> QED
  BY <1>2, <1>3

(* Storing a hash.                                                         *)
LEMMA WithHash ==
  ASSUME DomainOK, NEW k \in Keys, NEW contents,
         db' = With(db, "hash", k, contents)
  PROVE  /\ DomainOK'
         /\ \A j \in Keys :
          /\ Has("string", j)' <=> Has("string", j)
          /\ Text(j)' = Text(j)
          /\ Hash(j)' = IF j = k THEN contents ELSE Hash(j)
          /\ List(j)' = List(j)
          /\ Members(j)' = Members(j)
          /\ Sorted(j)' = Sorted(j)
<1>1. DOMAIN db' = DOMAIN db \cup {Place("hash", k)}
  BY DEF With
<1>2. DomainOK'
  BY <1>1 DEF DomainOK, Place, Types
<1>3. ASSUME NEW j \in Keys
      PROVE
          /\ Has("string", j)' <=> Has("string", j)
          /\ Text(j)' = Text(j)
          /\ Hash(j)' = IF j = k THEN contents ELSE Hash(j)
          /\ List(j)' = List(j)
          /\ Members(j)' = Members(j)
          /\ Sorted(j)' = Sorted(j)
  BY <1>1, FoundWith DEF Has, Place, Text, Hash, List, Members, Sorted
<1> QED
  BY <1>2, <1>3

(* Storing a list.                                                         *)
LEMMA WithList ==
  ASSUME DomainOK, NEW k \in Keys, NEW contents,
         db' = With(db, "list", k, contents)
  PROVE  /\ DomainOK'
         /\ \A j \in Keys :
          /\ Has("string", j)' <=> Has("string", j)
          /\ Text(j)' = Text(j)
          /\ Hash(j)' = Hash(j)
          /\ List(j)' = IF j = k THEN contents ELSE List(j)
          /\ Members(j)' = Members(j)
          /\ Sorted(j)' = Sorted(j)
<1>1. DOMAIN db' = DOMAIN db \cup {Place("list", k)}
  BY DEF With
<1>2. DomainOK'
  BY <1>1 DEF DomainOK, Place, Types
<1>3. ASSUME NEW j \in Keys
      PROVE
          /\ Has("string", j)' <=> Has("string", j)
          /\ Text(j)' = Text(j)
          /\ Hash(j)' = Hash(j)
          /\ List(j)' = IF j = k THEN contents ELSE List(j)
          /\ Members(j)' = Members(j)
          /\ Sorted(j)' = Sorted(j)
  BY <1>1, FoundWith DEF Has, Place, Text, Hash, List, Members, Sorted
<1> QED
  BY <1>2, <1>3

(* Storing a set.                                                          *)
LEMMA WithMembers ==
  ASSUME DomainOK, NEW k \in Keys, NEW contents,
         db' = With(db, "set", k, contents)
  PROVE  /\ DomainOK'
         /\ \A j \in Keys :
          /\ Has("string", j)' <=> Has("string", j)
          /\ Text(j)' = Text(j)
          /\ Hash(j)' = Hash(j)
          /\ List(j)' = List(j)
          /\ Members(j)' = IF j = k THEN contents ELSE Members(j)
          /\ Sorted(j)' = Sorted(j)
<1>1. DOMAIN db' = DOMAIN db \cup {Place("set", k)}
  BY DEF With
<1>2. DomainOK'
  BY <1>1 DEF DomainOK, Place, Types
<1>3. ASSUME NEW j \in Keys
      PROVE
          /\ Has("string", j)' <=> Has("string", j)
          /\ Text(j)' = Text(j)
          /\ Hash(j)' = Hash(j)
          /\ List(j)' = List(j)
          /\ Members(j)' = IF j = k THEN contents ELSE Members(j)
          /\ Sorted(j)' = Sorted(j)
  BY <1>1, FoundWith DEF Has, Place, Text, Hash, List, Members, Sorted
<1> QED
  BY <1>2, <1>3

(* Storing a sorted set.                                                   *)
LEMMA WithSorted ==
  ASSUME DomainOK, NEW k \in Keys, NEW contents,
         db' = With(db, "zset", k, contents)
  PROVE  /\ DomainOK'
         /\ \A j \in Keys :
          /\ Has("string", j)' <=> Has("string", j)
          /\ Text(j)' = Text(j)
          /\ Hash(j)' = Hash(j)
          /\ List(j)' = List(j)
          /\ Members(j)' = Members(j)
          /\ Sorted(j)' = IF j = k THEN contents ELSE Sorted(j)
<1>1. DOMAIN db' = DOMAIN db \cup {Place("zset", k)}
  BY DEF With
<1>2. DomainOK'
  BY <1>1 DEF DomainOK, Place, Types
<1>3. ASSUME NEW j \in Keys
      PROVE
          /\ Has("string", j)' <=> Has("string", j)
          /\ Text(j)' = Text(j)
          /\ Hash(j)' = Hash(j)
          /\ List(j)' = List(j)
          /\ Members(j)' = Members(j)
          /\ Sorted(j)' = IF j = k THEN contents ELSE Sorted(j)
  BY <1>1, FoundWith DEF Has, Place, Text, Hash, List, Members, Sorted
<1> QED
  BY <1>2, <1>3

(* Erasing a list is the same as emptying it.                              *)
LEMMA WithoutList ==
  ASSUME DomainOK, NEW k \in Keys, db' = Without(db, "list", k)
  PROVE  /\ DomainOK'
         /\ \A j \in Keys :
          /\ Has("string", j)' <=> Has("string", j)
          /\ Text(j)' = Text(j)
          /\ Hash(j)' = Hash(j)
          /\ List(j)' = IF j = k THEN <<>> ELSE List(j)
          /\ Members(j)' = Members(j)
          /\ Sorted(j)' = Sorted(j)
<1>0. DOMAIN db' = DOMAIN db \ {Place("list", k)}
  BY DEF Without
<1>1. DomainOK'
  BY <1>0 DEF DomainOK
<1>2. ASSUME NEW j \in Keys
      PROVE
          /\ Has("string", j)' <=> Has("string", j)
          /\ Text(j)' = Text(j)
          /\ Hash(j)' = Hash(j)
          /\ List(j)' = IF j = k THEN <<>> ELSE List(j)
          /\ Members(j)' = Members(j)
          /\ Sorted(j)' = Sorted(j)
  BY <1>0, FoundWithout DEF Has, Place, Text, Hash, List, Members, Sorted
<1> QED
  BY <1>1, <1>2

(* With the map as it was, everything is found as it was.                  *)
LEMMA SameMap ==
  ASSUME UNCHANGED db
  PROVE  /\ DomainOK => DomainOK'
         /\ \A j \in Keys : Untouched(j)
BY DEF DomainOK, Untouched, Has, Text, Hash, List, Members, Sorted

(* In an empty map no object is there.                                     *)
LEMMA EmptyMap ==
  ASSUME db = Nothing
  PROVE  /\ DomainOK
         /\ \A j \in Keys :
              /\ ~Has("string", j)
              /\ Text(j) = None
              /\ Hash(j) = Nothing
              /\ List(j) = <<>>
              /\ Members(j) = {}
              /\ Sorted(j) = Nothing
<1>1. DOMAIN db = {}
  BY DEF Nothing
<1> QED
  BY <1>1, FoundNothing DEF DomainOK, Has, Text, Hash, List, Members, Sorted

-----------------------------------------------------------------------------
(* Sequences and requests *)

(* What a pop takes of a list that is not empty. *)
LEMMA HeadAndTail ==
  ASSUME NEW S, NEW s \in Seq(S), ~Emptied(s)
  PROVE  /\ Head(s) \in S
         /\ Tail(s) \in Seq(S)
         /\ Len(Tail(s)) = Len(s) - 1
         /\ s # <<>>
BY HeadTailProperties, EmptySeq DEF Emptied

(* The members a request carries. *)
LEMMA Carried ==
  ASSUME NEW vs \in ValueLists
  PROVE  vs \in Seq(Values) /\ {vs[i] : i \in DOMAIN vs} \subseteq Values
<1>1. vs \in Seq(Values)
  BY ContentsAssumption
<1>2. \A i \in DOMAIN vs : vs[i] \in Values
  BY <1>1, ElementOfSeq
<1> QED
  BY <1>1, <1>2

-----------------------------------------------------------------------------
(* Types *)

ObjectsOK ==
  \A k \in Keys :
    /\ Has("string", k) => Text(k) \in Values
    /\ Hash(k) \in Maps(Fields, Values)
    /\ List(k) \in Seq(Values)
    /\ Members(k) \subseteq Values
    /\ Sorted(k) \in Maps(Scores, Values)

HistoryOK ==
  /\ pushed \in [Keys -> Seq(Values)]
  /\ popped \in [Keys -> Seq(Values)]

Typed == DomainOK /\ ObjectsOK /\ HistoryOK

(* TypeOK, by its parts.                                                   *)
LEMMA TypeParts == TypeOK <=> Typed
BY DEF TypeOK, DomainOK, ObjectsOK, HistoryOK, Typed, Types

(* An empty map is typed, now and in the next state. *)
LEMMA EmptyTyped ==
  ASSUME db = Nothing
  PROVE  DomainOK /\ ObjectsOK
<1>1. <<>> \in Seq(Values)
  OBVIOUS
<1>2. Nothing \in Maps(Fields, Values) /\ Nothing \in Maps(Scores, Values)
  BY NothingMap
<1> QED
  BY <1>1, <1>2, EmptyMap DEF ObjectsOK

(* The same of the map after a restart.                                    *)
LEMMA EmptyTypedNext ==
  ASSUME db' = Nothing
  PROVE  DomainOK' /\ ObjectsOK'
<1>1. <<>> \in Seq(Values) /\ DOMAIN db' = {}
  BY DEF Nothing
<1>2. Nothing \in Maps(Fields, Values) /\ Nothing \in Maps(Scores, Values)
  BY NothingMap
<1> QED
  BY <1>1, <1>2, FoundNothing
  DEF DomainOK, ObjectsOK, Has, Text, Hash, List, Members, Sorted

(* A step that leaves the map alone leaves it typed. *)
LEMMA SameTyped ==
  ASSUME DomainOK, ObjectsOK, UNCHANGED db
  PROVE  DomainOK' /\ ObjectsOK'
BY SameMap DEF ObjectsOK, Untouched

(* A step that leaves the histories alone leaves them typed.               *)
LEMMA HistorySame ==
  ASSUME HistoryOK, UNCHANGED histVars
  PROVE  HistoryOK'
BY DEF HistoryOK, histVars

(* What the two kinds of steps on a hash that is there, and on one that is *)
(* not, make of it.                                                        *)
LEMMA HashTyped ==
  ASSUME DomainOK, ObjectsOK, NEW k \in Keys,
         NEW new \in Maps(Fields, Values),
         db' \in {InPlace(k, new), With(db, "hash", k, new)}
  PROVE  DomainOK' /\ ObjectsOK'
<1>1. Overlay(Hash(k), new) \in Maps(Fields, Values)
  BY OverlayMap DEF ObjectsOK
<1>2. CASE db' = InPlace(k, new)
  <2>1. db' = With(db, "hash", k, Overlay(Hash(k), new))
    BY <1>2 DEF InPlace
  <2> QED
    BY <1>1, <2>1, WithHash DEF ObjectsOK
<1>3. CASE db' = With(db, "hash", k, new)
  BY <1>3, WithHash DEF ObjectsOK
<1> QED
  BY <1>2, <1>3

(* Every command, of any client, leaves each object with the contents of   *)
(* its type.                                                               *)
LEMMA TypeStep ==
  ASSUME TypeOK, [Next]_vars
  PROVE  TypeOK'
<1>0. Typed
  BY TypeParts
<1> USE <1>0 DEF Typed
<1>1. ASSUME NEW k \in Keys, Strings(k)
      PROVE  Typed'
  <2>1. HistoryOK'
    BY <1>1, HistorySame DEF Strings, Set, Get, histVars
  <2>2. CASE Get(k)
    BY <2>1, <2>2, SameTyped DEF Get
  <2>3. ASSUME NEW v \in Values, Set(k, v)
        PROVE  Typed'
    <3>1. db' = With(db, "string", k, v)
      BY <2>3 DEF Set
    <3>2. DomainOK' /\ ObjectsOK'
      BY <3>1, WithText DEF ObjectsOK
    <3> QED
      BY <2>1, <3>2
  <2> QED
    BY <1>1, <2>2, <2>3 DEF Strings
<1>2. ASSUME NEW k \in Keys, Hashes(k)
      PROVE  Typed'
  <2>1. HistoryOK'
    BY <1>2, HistorySame DEF Hashes, HSetExisting, HSetNew, HGet, histVars
  <2>2. ASSUME NEW f \in Fields, HGet(k, f)
        PROVE  Typed'
    BY <2>1, <2>2, SameTyped DEF HGet
  <2>3. ASSUME NEW new \in Maps(Fields, Values), NEW whole \in BOOLEAN,
               HSetExisting(k, new, whole) \/ HSetNew(k, new, whole)
        PROVE  Typed'
    <3>1. CASE UNCHANGED db
      BY <2>1, <3>1, SameTyped
    <3>2. CASE db' \in {InPlace(k, new), With(db, "hash", k, new)}
      BY <2>1, <3>2, HashTyped
    <3> QED
      BY <2>3, <3>1, <3>2 DEF HSetExisting, HSetNew
  <2> QED
    BY <1>2, <2>2, <2>3 DEF Hashes
<1>3. ASSUME NEW k \in Keys, Lists(k)
      PROVE  Typed'
  <2>1. ASSUME NEW vs \in ValueLists, LPush(k, vs)
        PROVE  Typed'
    <3>1. vs \in Seq(Values) /\ List(k) \o vs \in Seq(Values)
      BY Carried, ConcatProperties DEF ObjectsOK
    <3>2. DomainOK' /\ ObjectsOK'
      BY <2>1, <3>1, WithList DEF LPush, ObjectsOK
    <3>3. pushed[k] \o vs \in Seq(Values)
      BY <3>1, ConcatProperties DEF HistoryOK
    <3>4. HistoryOK'
      BY <2>1, <3>3 DEF LPush, HistoryOK
    <3> QED
      BY <3>2, <3>4
  <2>2. ASSUME NEW nothing, Pop(k, nothing)
        PROVE  Typed'
    <3>1. CASE /\ ~Emptied(List(k))
               /\ db' = With(db, "list", k, Tail(List(k)))
               /\ popped' = [popped EXCEPT ![k] = Append(@, Head(List(k)))]
               /\ UNCHANGED pushed
      <4>1. Head(List(k)) \in Values /\ Tail(List(k)) \in Seq(Values)
        BY <3>1, HeadAndTail DEF ObjectsOK
      <4>2. DomainOK' /\ ObjectsOK'
        BY <3>1, <4>1, WithList DEF ObjectsOK
      <4>3. Append(popped[k], Head(List(k))) \in Seq(Values)
        BY <4>1, AppendProperties DEF HistoryOK
      <4>4. HistoryOK'
        BY <3>1, <4>3 DEF HistoryOK
      <4> QED
        BY <4>2, <4>4
    <3>2. CASE db' = Without(db, "list", k) /\ UNCHANGED histVars
      <4>1. <<>> \in Seq(Values)
        OBVIOUS
      <4>2. DomainOK' /\ ObjectsOK'
        BY <3>2, <4>1, WithoutList DEF ObjectsOK
      <4> QED
        BY <3>2, <4>2, HistorySame
    <3>3. CASE UNCHANGED <<db, histVars>>
      BY <3>3, SameTyped, HistorySame
    <3> QED
      BY <2>2, <3>1, <3>2, <3>3 DEF Pop
  <2> QED
    BY <1>3, <2>1, <2>2 DEF Lists, LPop, BLPop
<1>4. ASSUME NEW k \in Keys, Sets(k)
      PROVE  Typed'
  <2>1. HistoryOK'
    BY <1>4, HistorySame DEF Sets, SAdd, SPop, SPopNamesNoList, histVars
  <2>2. ASSUME NEW vs \in ValueLists, SAdd(k, vs)
        PROVE  Typed'
    <3>1. Members(k) \cup {vs[i] : i \in DOMAIN vs} \subseteq Values
      BY Carried DEF ObjectsOK
    <3>2. DomainOK' /\ ObjectsOK'
      BY <2>2, <3>1, WithMembers DEF SAdd, ObjectsOK
    <3> QED
      BY <2>1, <3>2
  <2>3. ASSUME NEW v \in Members(k), db' = With(db, "set", k, Members(k) \ {v})
        PROVE  Typed'
    <3>1. Members(k) \ {v} \subseteq Values
      BY DEF ObjectsOK
    <3>2. DomainOK' /\ ObjectsOK'
      BY <2>3, <3>1, WithMembers DEF ObjectsOK
    <3> QED
      BY <2>1, <3>2
  <2>4. CASE UNCHANGED db
    BY <2>1, <2>4, SameTyped
  <2> QED
    BY <1>4, <2>2, <2>3, <2>4 DEF Sets, SPop, SPopNamesNoList
<1>5. ASSUME NEW k \in Keys, SortedSets(k)
      PROVE  Typed'
  <2>1. HistoryOK'
    BY <1>5, HistorySame
    DEF SortedSets, ZAdd, ZRange, ZRangeNoSet, ZRangeNothing, histVars
  <2>2. ASSUME NEW s \in Scores, NEW v \in Values, ZAdd(k, s, v)
        PROVE  Typed'
    <3>1. FirstStays(Sorted(k), s, v) \in Maps(Scores, Values)
      BY SingleMap, OverlayMap DEF FirstStays, ObjectsOK
    <3>2. DomainOK' /\ ObjectsOK'
      BY <2>2, <3>1, WithSorted DEF ZAdd, ObjectsOK
    <3> QED
      BY <2>1, <3>2
  <2>3. CASE UNCHANGED db
    BY <2>1, <2>3, SameTyped
  <2> QED
    BY <1>5, <2>2, <2>3 DEF SortedSets, ZRange, ZRangeNoSet, ZRangeNothing
<1>6. ASSUME NotFound \/ UNCHANGED vars
      PROVE  Typed'
  BY <1>6, SameTyped, HistorySame DEF NotFound, vars
<1>7. ASSUME Restart
      PROVE  Typed'
  <2>1. DomainOK' /\ ObjectsOK'
    BY <1>7, EmptyTypedNext DEF Restart
  <2>2. HistoryOK'
    BY <1>7 DEF Restart, HistoryOK
  <2> QED
    BY <2>1, <2>2
<1>8. Typed'
  BY <1>1, <1>2, <1>3, <1>4, <1>5, <1>6, <1>7 DEF Next
<1> QED
  BY <1>8 DEF TypeOK, DomainOK, ObjectsOK, HistoryOK, Types

(* The objects of each type hold what that type holds, whatever commands   *)
(* come, of any number of keys, values, fields and scores.                 *)
THEOREM TypeCorrect == Spec => []TypeOK
<1>1. Init => TypeOK
  <2> SUFFICES ASSUME Init
               PROVE  TypeOK
    OBVIOUS
  <2>1. DomainOK /\ ObjectsOK
    BY EmptyTyped DEF Init
  <2>2. HistoryOK
    BY DEF Init, HistoryOK
  <2> QED
    BY <2>1, <2>2, TypeParts DEF Typed
<1>2. TypeOK /\ [Next]_vars => TypeOK'
  BY TypeStep
<1> QED
  BY <1>1, <1>2, PTL DEF Spec

-----------------------------------------------------------------------------
(* Lists as queues *)

(* A step that leaves what is found of every list, and the histories,      *)
(* leaves the queues.                                                      *)
LEMMA QueuesKept ==
  ASSUME QueueFifo, UNCHANGED histVars,
         \A j \in Keys : List(j)' = List(j)
  PROVE  QueueFifo'
BY DEF QueueFifo, histVars

(* Values that go in at the end of what is in the list go in at the end of *)
(* what was pushed.                                                        *)
LEMMA PushedBehind ==
  ASSUME TypeOK, QueueFifo, NEW k \in Keys, NEW vs \in ValueLists,
         LPush(k, vs)
  PROVE  QueueFifo'
<1>0. vs \in Seq(Values)
  BY Carried
<1>1. Typed
  BY TypeParts
<1>2. \A j \in Keys : List(j)' = IF j = k THEN List(k) \o vs ELSE List(j)
  BY <1>1, WithList DEF LPush, Typed
<1>3. pushed' = [pushed EXCEPT ![k] = pushed[k] \o vs] /\ popped' = popped
  BY DEF LPush
<1>4. popped[k] \in Seq(Values) /\ List(k) \in Seq(Values)
  BY <1>1 DEF Typed, ObjectsOK, HistoryOK
<1>5. pushed[k] \o vs = popped[k] \o (List(k) \o vs)
  <2>1. (popped[k] \o List(k)) \o vs = popped[k] \o (List(k) \o vs)
    <3>1. \A p, q, r \in Seq(Values) : (p \o q) \o r = p \o (q \o r)
      BY ConcatAssociative
    <3> QED
      BY <1>0, <1>4, <3>1, Zenon
  <2>2. pushed[k] = popped[k] \o List(k)
    BY DEF QueueFifo
  <2> QED
    BY <2>1, <2>2, Zenon
<1>6. pushed \in [Keys -> Seq(Values)]
  BY <1>1 DEF Typed, HistoryOK
<1> QED
  BY <1>2, <1>3, <1>5, <1>6 DEF QueueFifo

(* The value handed out is the next of what was pushed; an object is       *)
(* erased only with nothing left in it.                                    *)
LEMMA PoppedInOrder ==
  ASSUME TypeOK, QueueFifo, NEW k \in Keys, NEW nothing, Pop(k, nothing)
  PROVE  QueueFifo'
<1>1. Typed
  BY TypeParts
<1>2. popped[k] \in Seq(Values) /\ List(k) \in Seq(Values)
  BY <1>1 DEF Typed, ObjectsOK, HistoryOK
<1>3. CASE /\ ~Emptied(List(k))
           /\ db' = With(db, "list", k, Tail(List(k)))
           /\ popped' = [popped EXCEPT ![k] = Append(popped[k], Head(List(k)))]
           /\ UNCHANGED pushed
  <2> DEFINE h == Head(List(k))
             t == Tail(List(k))
  <2>1. h \in Values /\ t \in Seq(Values) /\ List(k) # <<>>
    BY <1>2, <1>3, HeadAndTail
  <2>2. List(k) = <<h>> \o t
    BY <1>2, <2>1, HeadTailProperties
  <2>3. Append(popped[k], h) = popped[k] \o <<h>>
    BY <1>2, <2>1, AppendIsConcat
  <2>4. (popped[k] \o <<h>>) \o t = popped[k] \o (<<h>> \o t)
    <3>1. <<h>> \in Seq(Values)
      BY <2>1
    <3> QED
      BY <1>2, <2>1, <3>1, ConcatAssociative
  <2>5. pushed[k] = Append(popped[k], h) \o t
    BY <2>2, <2>3, <2>4 DEF QueueFifo
  <2>6. \A j \in Keys : List(j)' = IF j = k THEN t ELSE List(j)
    BY <1>1, <1>3, WithList DEF Typed
  <2>7. popped \in [Keys -> Seq(Values)]
    BY <1>1 DEF Typed, HistoryOK
  <2> QED
    BY <1>3, <2>5, <2>6, <2>7 DEF QueueFifo
<1>4. CASE /\ Emptied(List(k))
           /\ db' = Without(db, "list", k)
           /\ UNCHANGED histVars
  <2>1. List(k) = <<>>
    BY <1>2, <1>4, EmptySeq DEF Emptied
  <2>2. \A j \in Keys : List(j)' = List(j)
    BY <1>1, <1>4, <2>1, WithoutList DEF Typed
  <2> QED
    BY <1>4, <2>2, QueuesKept
<1>5. CASE UNCHANGED <<db, histVars>>
  BY <1>5, SameMap, QueuesKept DEF Untouched
<1> QED
  BY <1>3, <1>4, <1>5 DEF Pop

(* Every command leaves what was pushed in its order: pushes and pops by the *)
(* lemmas above, the others because they touch no list.                    *)
LEMMA QueueStep ==
  ASSUME TypeOK, QueueFifo, [Next]_vars
  PROVE  QueueFifo'
<1>0. DomainOK
  BY TypeParts DEF Typed
<1>1. ASSUME NEW k \in Keys, Lists(k)
      PROVE  QueueFifo'
  BY <1>1, PushedBehind, PoppedInOrder DEF Lists, LPop, BLPop
<1>2. ASSUME UNCHANGED db, UNCHANGED histVars
      PROVE  QueueFifo'
  BY <1>2, SameMap, QueuesKept DEF Untouched
<1>3. ASSUME NEW k \in Keys, NEW contents, UNCHANGED histVars,
             \E type \in {"string", "hash", "set", "zset"} :
               db' = With(db, type, k, contents)
      PROVE  QueueFifo'
  <2>1. \A j \in Keys : List(j)' = List(j)
    BY <1>0, <1>3, WithText, WithHash, WithMembers, WithSorted
  <2> QED
    BY <1>3, <2>1, QueuesKept
<1>4. ASSUME NEW k \in Keys, Strings(k)
      PROVE  QueueFifo'
  BY <1>2, <1>3, <1>4 DEF Strings, Set, Get
<1>5. ASSUME NEW k \in Keys, Hashes(k)
      PROVE  QueueFifo'
  BY <1>2, <1>3, <1>5 DEF Hashes, HSetExisting, InPlace, HSetNew, HGet
<1>6. ASSUME NEW k \in Keys, Sets(k)
      PROVE  QueueFifo'
  BY <1>2, <1>3, <1>6 DEF Sets, SAdd, SPop, SPopNamesNoList
<1>7. ASSUME NEW k \in Keys, SortedSets(k)
      PROVE  QueueFifo'
  BY <1>2, <1>3, <1>7
  DEF SortedSets, ZAdd, ZRange, ZRangeNoSet, ZRangeNothing
<1>8. ASSUME Restart
      PROVE  QueueFifo'
  <2>1. \A j \in Keys : List(j)' = <<>>
    BY <1>8, FoundNothing DEF Restart, List
  <2>2. <<>> \o <<>> = <<>>
    OBVIOUS
  <2> QED
    BY <1>8, <2>1, <2>2 DEF Restart, QueueFifo
<1> QED
  BY <1>1, <1>2, <1>4, <1>5, <1>6, <1>7, <1>8 DEF Next, NotFound, vars

(* What was handed out of a list, and what is in it, is what was pushed to *)
(* it, in order, for requests of any length.                               *)
THEOREM QueueFifoHolds == Spec => []QueueFifo
<1>1. Init => QueueFifo
  <2>1. <<>> \o <<>> = <<>>
    OBVIOUS
  <2> QED
    BY <2>1, FoundNothing DEF Init, QueueFifo, List
<1>2. TypeOK /\ QueueFifo /\ [Next]_vars => QueueFifo'
  BY QueueStep
<1> QED
  BY <1>1, <1>2, TypeCorrect, PTL DEF Spec

-----------------------------------------------------------------------------
(* The abstract store *)

(* What putting an object into the map is to the abstract store. *)
LEMMA TextsWith ==
  ASSUME DomainOK, NEW k \in Keys, NEW contents,
         db' = With(db, "string", k, contents)
  PROVE  /\ Texts' = [Texts EXCEPT ![k] = contents]
         /\ UNCHANGED <<Tables, Queues, Groups, Rankings>>
BY WithText DEF Texts, Tables, Queues, Groups, Rankings

(* The same of hashes.                                                     *)
LEMMA TablesWith ==
  ASSUME DomainOK, NEW k \in Keys, NEW contents,
         db' = With(db, "hash", k, contents)
  PROVE  /\ Tables' = [Tables EXCEPT ![k] = contents]
         /\ UNCHANGED <<Texts, Queues, Groups, Rankings>>
BY WithHash DEF Texts, Tables, Queues, Groups, Rankings

(* The same of lists.                                                      *)
LEMMA QueuesWith ==
  ASSUME DomainOK, NEW k \in Keys, NEW contents,
         db' = With(db, "list", k, contents)
  PROVE  /\ Queues' = [Queues EXCEPT ![k] = contents]
         /\ UNCHANGED <<Texts, Tables, Groups, Rankings>>
BY WithList DEF Texts, Tables, Queues, Groups, Rankings

(* The same of sets.                                                       *)
LEMMA GroupsWith ==
  ASSUME DomainOK, NEW k \in Keys, NEW contents,
         db' = With(db, "set", k, contents)
  PROVE  /\ Groups' = [Groups EXCEPT ![k] = contents]
         /\ UNCHANGED <<Texts, Tables, Queues, Rankings>>
BY WithMembers DEF Texts, Tables, Queues, Groups, Rankings

(* The same of sorted sets.                                                *)
LEMMA RankingsWith ==
  ASSUME DomainOK, NEW k \in Keys, NEW contents,
         db' = With(db, "zset", k, contents)
  PROVE  /\ Rankings' = [Rankings EXCEPT ![k] = contents]
         /\ UNCHANGED <<Texts, Tables, Queues, Groups>>
BY WithSorted DEF Texts, Tables, Queues, Groups, Rankings

(* With the map as it was, the abstract store is as it was.                *)
LEMMA StoreSame ==
  ASSUME UNCHANGED db
  PROVE  UNCHANGED <<Texts, Tables, Queues, Groups, Rankings>>
BY SameMap DEF Texts, Tables, Queues, Groups, Rankings, Untouched

(* Store and KeyStore name the same answers and functions.                 *)
LEMMA SameAnswers ==
  /\ Promised!Ok = Ok
  /\ Promised!Fail = Fail
  /\ Promised!Null = Null
  /\ Promised!Blank = Blank
  /\ Promised!NoAnswer = NoAnswer
  /\ Promised!Nothing = Nothing
BY DEF Promised!Ok, Promised!Fail, Promised!Null, Promised!Blank,
       Promised!NoAnswer, Promised!Nothing,
       Ok, Fail, Null, Blank, NoAnswer, Nothing

(* They compute with the same operators.                                   *)
LEMMA SameOperators ==
  /\ \A f, g : Promised!Overlay(f, g) = Overlay(f, g)
  /\ \A f, low, high : Promised!Between(f, low, high) = Between(f, low, high)
  /\ \A S, T : Promised!Maps(S, T) = Maps(S, T)
BY DEF Promised!Overlay, Overlay, Promised!Between, Between,
       Promised!Maps, Maps

(* A command on strings is one of the store. *)
LEMMA StringsImplement ==
  ASSUME TypeOK, NEW k \in Keys, Strings(k)
  PROVE  Promised!Command(k)
<1>1. ASSUME NEW v \in Values, Set(k, v)
      PROVE  Promised!Set(k, v)
  BY <1>1, TextsWith, TypeParts, SameAnswers DEF Typed, Set, Promised!Set
<1>2. ASSUME Get(k)
      PROVE  Promised!Get(k)
  <2>1. Texts[k] = Text(k) /\ (Has("string", k) => Text(k) \in Values)
    BY TypeParts DEF Typed, ObjectsOK, Texts
  <2>2. ~Has("string", k) => Text(k) = None
    BY DEF Has, Text, Found
  <2>3. Has("string", k) <=> Texts[k] # None
    BY <2>1, <2>2, ContentsAssumption
  <2> QED
    BY <1>2, <2>1, <2>3, StoreSame, SameAnswers DEF Get, Promised!Get
<1> QED
  BY <1>1, <1>2 DEF Strings, Promised!Command

(* HSet of the store allows what an uneven request and the missing return  *)
(* statement make of a hash.                                               *)
LEMMA HashesImplement ==
  ASSUME TypeOK, NEW k \in Keys, Hashes(k)
  PROVE  Promised!Command(k)
<1>1. Tables[k] = Hash(k) /\ Tables = [Tables EXCEPT ![k] = Hash(k)]
  BY DEF Tables
<1>2. ASSUME NEW new \in Maps(Fields, Values), NEW whole \in BOOLEAN,
             HSetExisting(k, new, whole)
      PROVE  Promised!HSet(k, new)
  <2>1. db' = With(db, "hash", k, Overlay(Hash(k), new))
    BY <1>2 DEF HSetExisting, InPlace
  <2>2. /\ Tables' = [Tables EXCEPT ![k] = Overlay(Tables[k], new)]
        /\ UNCHANGED <<Texts, Queues, Groups, Rankings>>
    BY <1>1, <2>1, TablesWith, TypeParts DEF Typed
  <2>3. answer' \in {Ok, Fail}
    BY <1>2 DEF HSetExisting
  <2> QED
    BY <2>2, <2>3, SameAnswers, SameOperators DEF Promised!HSet
<1>3. ASSUME NEW new \in Maps(Fields, Values), NEW whole \in BOOLEAN,
             HSetNew(k, new, whole)
      PROVE  Promised!HSet(k, new)
  <2>1. CASE whole
    <3>1. db' = With(db, "hash", k, new) /\ answer' \in {Ok, Fail}
      BY <1>3, <2>1 DEF HSetNew, NewAnswers
    <3>2. Hash(k) = Nothing
      BY <1>3 DEF HSetNew, Has, Hash, Found
    <3>3. Overlay(Nothing, new) = new
      <4>1. PICK A \in SUBSET Fields : new \in [A -> Values]
        BY DEF Maps
      <4> QED
        BY <4>1 DEF Overlay, Nothing
    <3>4. /\ Tables' = [Tables EXCEPT ![k] = Overlay(Tables[k], new)]
          /\ UNCHANGED <<Texts, Queues, Groups, Rankings>>
      BY <1>1, <3>1, <3>2, <3>3, TablesWith, TypeParts DEF Typed
    <3> QED
      BY <3>1, <3>4, SameAnswers, SameOperators DEF Promised!HSet
  <2>2. CASE ~whole
    BY <1>3, <2>2, StoreSame, SameAnswers DEF HSetNew, Promised!HSet
  <2> QED
    BY <2>1, <2>2
<1>4. ASSUME NEW f \in Fields, HGet(k, f)
      PROVE  Promised!HGet(k, f)
  BY <1>1, <1>4, StoreSame, SameAnswers DEF HGet, Promised!HGet
<1> QED
  BY <1>2, <1>3, <1>4, SameOperators DEF Hashes, Promised!Command

(* A pop that erases an emptied object finds nothing, and takes nothing, in *)
(* the store.                                                              *)
LEMMA ListsImplement ==
  ASSUME TypeOK, NEW k \in Keys, Lists(k)
  PROVE  Promised!Command(k)
<1>1. Queues[k] = List(k) /\ List(k) \in Seq(Values)
  BY TypeParts DEF Typed, ObjectsOK, Queues
<1>2. ASSUME NEW vs \in ValueLists, LPush(k, vs)
      PROVE  Promised!Push(k, vs)
  BY <1>1, <1>2, QueuesWith, TypeParts DEF Typed, LPush, Promised!Push
<1>3. ASSUME NEW nothing \in {Null, Blank}, Pop(k, nothing)
      PROVE  Promised!Pop(k) \/ Promised!PopNothing(k)
  <2>1. CASE /\ ~Emptied(List(k))
             /\ db' = With(db, "list", k, Tail(List(k)))
             /\ answer' = <<"popped", Head(List(k)), Len(Tail(List(k)))>>
    <3>1. List(k) # <<>> /\ Len(Tail(List(k))) = Len(List(k)) - 1
      BY <1>1, <2>1, HeadAndTail
    <3>2. Promised!Pop(k)
      BY <1>1, <2>1, <3>1, QueuesWith, TypeParts DEF Typed, Promised!Pop
    <3> QED
      BY <3>2
  <2>2. CASE /\ Emptied(List(k))
             /\ db' = Without(db, "list", k)
             /\ answer' = nothing
    <3>1. List(k) = <<>>
      BY <1>1, <2>2, EmptySeq DEF Emptied
    <3>2. UNCHANGED <<Texts, Tables, Queues, Groups, Rankings>>
      BY <2>2, <3>1, WithoutList, TypeParts
      DEF Typed, Texts, Tables, Queues, Groups, Rankings
    <3>3. Promised!PopNothing(k)
      BY <1>1, <2>2, <3>1, <3>2, SameAnswers DEF Promised!PopNothing
    <3> QED
      BY <3>3
  <2>3. CASE ~Has("list", k) /\ answer' = nothing /\ UNCHANGED db
    <3>1. List(k) = <<>>
      BY <2>3 DEF Has, List, Found
    <3>2. Promised!PopNothing(k)
      BY <1>1, <2>3, <3>1, StoreSame, SameAnswers DEF Promised!PopNothing
    <3> QED
      BY <3>2
  <2> QED
    BY <1>3, <2>1, <2>2, <2>3 DEF Pop
<1> QED
  BY <1>2, <1>3 DEF Lists, LPop, BLPop, Promised!Command

(* A set that is there and empty, or not there, has no member to take.     *)
LEMMA SetsImplement ==
  ASSUME TypeOK, NEW k \in Keys, Sets(k)
  PROVE  Promised!Command(k)
<1>1. Groups[k] = Members(k)
  BY DEF Groups
<1>2. ASSUME NEW vs \in ValueLists, SAdd(k, vs)
      PROVE  Promised!Add(k, vs)
  <2>1. answer' \in {Ok, Fail, Blank}
    BY <1>2 DEF SAdd, NewAnswers
  <2> QED
    BY <1>1, <1>2, <2>1, GroupsWith, TypeParts, SameAnswers
    DEF Typed, SAdd, Promised!Add
<1>3. ASSUME NEW v \in Members(k), answer' = <<"value", v>>,
             db' = With(db, "set", k, Members(k) \ {v})
      PROVE  Promised!TakeOut(k)
  BY <1>1, <1>3, GroupsWith, TypeParts DEF Typed, Promised!TakeOut
<1>4. ASSUME Members(k) = {}, answer' = Fail, UNCHANGED db
      PROVE  Promised!TakeNothing(k)
  BY <1>1, <1>4, StoreSame, SameAnswers DEF Promised!TakeNothing
<1>5. ASSUME SPopNamesNoList
      PROVE  Promised!Die
  BY <1>5, StoreSame, SameAnswers DEF SPopNamesNoList, Promised!Die
<1> QED
  BY <1>2, <1>3, <1>4, <1>5 DEF Sets, SPop, Promised!Command

(* Ranges answer with what is in the store; of a set that is not there, the *)
(* range is empty.                                                         *)
LEMMA SortedSetsImplement ==
  ASSUME TypeOK, NEW k \in Keys, SortedSets(k)
  PROVE  Promised!Command(k)
<1>1. Rankings[k] = Sorted(k)
  BY DEF Rankings
<1>2. ASSUME NEW s \in Scores, NEW v \in Values, ZAdd(k, s, v)
      PROVE  Promised!Score(k, s, v)
  BY <1>1, <1>2, RankingsWith, TypeParts, SameAnswers, SameOperators
  DEF Typed, ZAdd, FirstStays, Promised!Score
<1>3. ASSUME NEW low \in Scores, NEW high \in Scores, ZRange(k, low, high)
      PROVE  Promised!Ranked(k, low, high)
  <2>1. answer' = <<"range", Between(Sorted(k), low, high)>>
    BY <1>3 DEF ZRange
  <2>2. answer' # Fail
    BY <2>1 DEF Fail
  <2> QED
    BY <1>1, <1>3, <2>1, <2>2, StoreSame, SameAnswers, SameOperators
    DEF ZRange, Promised!Ranked
<1>4. ASSUME ZRangeNoSet(k)
      PROVE  \A low, high \in Scores : Promised!Ranked(k, low, high)
  <2>1. Sorted(k) = Nothing
    BY <1>4 DEF ZRangeNoSet, Has, Sorted, Found
  <2>2. \A low, high : Between(Nothing, low, high) = Nothing
    BY DEF Between, Nothing
  <2> QED
    BY <1>1, <1>4, <2>1, <2>2, StoreSame, SameAnswers, SameOperators
    DEF ZRangeNoSet, Promised!Ranked
<1>5. ASSUME NEW low \in Scores, NEW high \in Scores,
             ZRangeNothing(k, low, high)
      PROVE  Promised!Die
  BY <1>5, StoreSame, SameAnswers DEF ZRangeNothing, Promised!Die
<1> QED
  BY <1>2, <1>3, <1>4, <1>5 DEF SortedSets, Promised!Command

(* The server's objects, whatever types, keys and requests there are, are  *)
(* an implementation of Store: a key has a value of each type of its own,  *)
(* an OK means that all was written and a FAIL that at most what was asked *)
(* for, and ranges and pops answer with what is there.                     *)
THEOREM ImplementsStore == Spec => IsStore
<1>1. Init => Promised!Init
  BY FoundNothing, SameAnswers
  DEF Init, Promised!Init, Text, Hash, List, Members, Sorted,
      Texts, Tables, Queues, Groups, Rankings
<1>2. TypeOK /\ [Next]_vars
        => [Promised!Next]_<<Texts, Tables, Queues, Groups, Rankings, answer>>
  <2> SUFFICES ASSUME TypeOK, [Next]_vars
               PROVE  Promised!Next \/
                      UNCHANGED <<Texts, Tables, Queues, Groups, Rankings, answer>>
    OBVIOUS
  <2>1. ASSUME answer # NoAnswer, NEW k \in Keys,
               \/ Strings(k) \/ Hashes(k) \/ Lists(k) \/ Sets(k)
               \/ SortedSets(k)
        PROVE  Promised!Next
    <3>1. Promised!Command(k)
      BY <2>1, StringsImplement, HashesImplement, ListsImplement,
         SetsImplement, SortedSetsImplement
    <3> QED
      BY <2>1, <3>1, SameAnswers DEF Promised!Next
  <2>2. ASSUME answer # NoAnswer, NotFound
        PROVE  Promised!Next
    <3>1. Promised!Unknown
      BY <2>2, StoreSame, SameAnswers DEF NotFound, Promised!Unknown
    <3> QED
      BY <2>2, <3>1, SameAnswers DEF Promised!Next
  <2>3. ASSUME Restart
        PROVE  Promised!Next
    <3>1. Promised!Init'
      BY <2>3, FoundNothing, SameAnswers
      DEF Restart, Promised!Init, Text, Hash, List, Members, Sorted,
          Texts, Tables, Queues, Groups, Rankings
    <3> QED
      BY <2>3, <3>1, SameAnswers DEF Restart, Promised!Restart, Promised!Next
  <2>4. CASE UNCHANGED vars
    BY <2>4, StoreSame DEF vars
  <2> QED
    BY <2>1, <2>2, <2>3, <2>4 DEF Next
<1> QED
  BY <1>1, <1>2, TypeCorrect, PTL DEF Spec, IsStore, Promised!Spec
=============================================================================
