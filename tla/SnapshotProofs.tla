--------------------------- MODULE SnapshotProofs ---------------------------
(***************************************************************************)
(* The safety of saving for any databases, keys and types: what a save     *)
(* that ended listed is there and was in memory, the iterator that is kept *)
(* between saves is left dangling by two commands only, and memory that    *)
(* stays as it is gets to the disk in two saves.  And of the files' text   *)
(* for any objects: which come back from it and as what, and why a         *)
(* recovery may not reach its end.                                         *)
(***************************************************************************)
EXTENDS Snapshot, RdbCodec, SequenceTheorems, FiniteSetTheorems, WellFoundedInduction,
        TLAPS

(* What a database is: its own objects, each key once. *)
MemOK(m) ==
  /\ m \in [Dbs -> Seq(Object)]
  /\ \A d \in Dbs : \A i \in DOMAIN m[d] : m[d][i].home = d
  /\ \A d \in Dbs : \A i, j \in DOMAIN m[d] :
       i # j => m[d][i].key # m[d][j].key

Iterator == [state : {"unset", "end", "node", "freed"}, obj : Object \cup {None}]

(* An iterator that points at a node points at an object of m. *)
IterOK(it, m) ==
  /\ it \in Iterator
  /\ it.state \in {"node", "freed"} => it.obj \in Object
  /\ it.state = "node" =>
       \E i \in DOMAIN m[it.obj.home] : m[it.obj.home][i] = it.obj

-----------------------------------------------------------------------------
(* Sequences *)

(* Inserting shifts what comes after. *)
LEMMA InsertedAt ==
  ASSUME NEW S, NEW s \in Seq(S), NEW e \in S, NEW i \in 1..(Len(s) + 1)
  PROVE  /\ InsertAt(s, i, e) \in Seq(S)
         /\ Len(InsertAt(s, i, e)) = Len(s) + 1
         /\ \A j \in 1..(Len(s) + 1) :
              InsertAt(s, i, e)[j] = IF j < i THEN s[j]
                                     ELSE IF j = i THEN e ELSE s[j - 1]
<1> DEFINE a == SubSeq(s, 1, i - 1)
           b == SubSeq(s, i, Len(s))
<1>1. /\ a \in Seq(S) /\ Len(a) = i - 1
      /\ \A j \in 1..(i - 1) : a[j] = s[j]
  BY SubSeqProperties
<1>2. /\ b \in Seq(S) /\ Len(b) = Len(s) - i + 1
      /\ \A j \in 1..(Len(s) - i + 1) : b[j] = s[i + j - 1]
  BY SubSeqProperties
<1> HIDE DEF a, b
<1>3. /\ <<e>> \in Seq(S) /\ Len(<<e>>) = 1 /\ <<e>>[1] = e
  OBVIOUS
<1>4. /\ a \o <<e>> \in Seq(S) /\ Len(a \o <<e>>) = i
      /\ \A j \in 1..i : (a \o <<e>>)[j] = IF j < i THEN s[j] ELSE e
  BY <1>1, <1>3
<1> DEFINE ae == a \o <<e>>
<1> HIDE DEF ae
<1>5. /\ ae \o b \in Seq(S) /\ Len(ae \o b) = Len(s) + 1
      /\ \A j \in 1..(Len(s) + 1) :
           (ae \o b)[j] = IF j =< i THEN ae[j] ELSE b[j - i]
  <2>1. ae \in Seq(S) /\ Len(ae) = i
    BY <1>4 DEF ae
  <2>2. /\ ae \o b \in Seq(S)
        /\ Len(ae \o b) = Len(ae) + Len(b)
        /\ \A j \in 1..(Len(ae) + Len(b)) :
             (ae \o b)[j] = IF j =< Len(ae) THEN ae[j] ELSE b[j - Len(ae)]
    BY <1>2, <2>1, ConcatProperties
  <2>3. Len(ae) + Len(b) = Len(s) + 1
    BY <1>2, <2>1
  <2> QED
    BY <2>1, <2>2, <2>3
<1>6. InsertAt(s, i, e) = ae \o b
  BY DEF InsertAt, ae, a, b
<1>7. \A j \in 1..i : ae[j] = IF j < i THEN s[j] ELSE e
  BY <1>4 DEF ae
<1>8. \A j \in (i + 1)..(Len(s) + 1) : b[j - i] = s[j - 1]
  BY <1>2
<1>9. \A j \in 1..(Len(s) + 1) :
        (ae \o b)[j] = IF j < i THEN s[j] ELSE IF j = i THEN e ELSE s[j - 1]
  <2> SUFFICES ASSUME NEW j \in 1..(Len(s) + 1)
               PROVE  (ae \o b)[j] = IF j < i THEN s[j] ELSE IF j = i THEN e ELSE s[j - 1]
    OBVIOUS
  <2>1. CASE j =< i
    <3>1. j \in 1..i /\ (ae \o b)[j] = ae[j]
      BY <1>5, <2>1
    <3> QED  BY <1>7, <2>1, <3>1
  <2>2. CASE i < j
    <3>1. j \in (i + 1)..(Len(s) + 1) /\ (ae \o b)[j] = b[j - i]
      BY <1>2, <1>5, <2>2
    <3> QED  BY <1>8, <2>2, <3>1
  <2>3. i \in Int /\ j \in Int
    OBVIOUS
  <2>4. j =< i \/ i < j
    BY <2>3
  <2> QED  BY <2>1, <2>2, <2>4
<1> QED
  BY <1>5, <1>6, <1>9

(* Appending adds one element. *)
LEMMA AppendedTo ==
  ASSUME NEW S, NEW s \in Seq(S), NEW e \in S
  PROVE  ToSet(Append(s, e)) = ToSet(s) \cup {e}
<1>1. /\ Len(Append(s, e)) = Len(s) + 1
      /\ DOMAIN Append(s, e) = 1..(Len(s) + 1) /\ DOMAIN s = 1..Len(s)
      /\ \A j \in 1..Len(s) : Append(s, e)[j] = s[j]
      /\ Append(s, e)[Len(s) + 1] = e
  OBVIOUS
<1>2. 1..(Len(s) + 1) = 1..Len(s) \cup {Len(s) + 1}
  OBVIOUS
<1> QED
  BY <1>1, <1>2 DEF ToSet

(* Removing shifts what comes after. *)
LEMMA RemovedAt ==
  ASSUME NEW S, NEW s \in Seq(S), NEW i \in 1..Len(s)
  PROVE  /\ RemoveAt(s, i) \in Seq(S)
         /\ Len(RemoveAt(s, i)) = Len(s) - 1
         /\ \A j \in 1..(Len(s) - 1) :
              RemoveAt(s, i)[j] = IF j < i THEN s[j] ELSE s[j + 1]
<1> DEFINE a == SubSeq(s, 1, i - 1)
           b == SubSeq(s, i + 1, Len(s))
<1>1. /\ a \in Seq(S) /\ Len(a) = i - 1
      /\ \A j \in 1..(i - 1) : a[j] = s[j]
  BY SubSeqProperties
<1>2. /\ b \in Seq(S) /\ Len(b) = Len(s) - i
      /\ \A j \in 1..(Len(s) - i) : b[j] = s[i + j]
  BY SubSeqProperties
<1> HIDE DEF a, b
<1>3. /\ a \o b \in Seq(S) /\ Len(a \o b) = Len(s) - 1
      /\ \A j \in 1..(Len(s) - 1) :
           (a \o b)[j] = IF j < i THEN a[j] ELSE b[j - i + 1]
  <2>1. /\ a \o b \in Seq(S)
        /\ Len(a \o b) = Len(a) + Len(b)
        /\ \A j \in 1..(Len(a) + Len(b)) :
             (a \o b)[j] = IF j =< Len(a) THEN a[j] ELSE b[j - Len(a)]
    BY <1>1, <1>2, ConcatProperties
  <2>2. Len(a) = i - 1 /\ Len(a) + Len(b) = Len(s) - 1
    BY <1>1, <1>2
  <2> QED
    BY <2>1, <2>2
<1>4. RemoveAt(s, i) = a \o b
  BY DEF RemoveAt, a, b
<1>5. \A j \in i..(Len(s) - 1) : b[j - i + 1] = s[j + 1]
  BY <1>2
<1>6. \A j \in 1..(Len(s) - 1) : (a \o b)[j] = IF j < i THEN s[j] ELSE s[j + 1]
  BY <1>1, <1>3, <1>5
<1> QED
  BY <1>3, <1>4, <1>6

-----------------------------------------------------------------------------
(* Iterators *)

(* An object of a database is an object, at home there. *)
LEMMA ObjectsOfMem ==
  ASSUME NEW m, MemOK(m), NEW d \in Dbs, NEW i \in DOMAIN m[d]
  PROVE  /\ m[d][i] \in Object
         /\ m[d][i].home = d
         /\ DOMAIN m[d] = 1..Len(m[d]) /\ Len(m[d]) \in Nat
BY DEF MemOK

(* begin() is an iterator into the database. *)
LEMMA BeginIsOK ==
  ASSUME MemOK(mem), NEW d \in Dbs
  PROVE  IterOK(Begin(mem[d]), mem)
<1>1. CASE mem[d] = <<>>
  BY <1>1 DEF Begin, End, IterOK, Iterator
<1>2. CASE mem[d] # <<>>
  <2>1. mem[d] \in Seq(Object)
    BY DEF MemOK
  <2>2. 1 \in DOMAIN mem[d]
    BY <1>2, <2>1
  <2> QED
    BY <1>2, <2>2, ObjectsOfMem DEF Begin, Node, IterOK, Iterator
<1> QED
  BY <1>1, <1>2

(* Moving on from an object leads to the end or to another object. *)
LEMMA AfterIsOK ==
  ASSUME MemOK(mem), NEW d \in Dbs, NEW i \in DOMAIN mem[d]
  PROVE  /\ IterOK(After(mem[d], mem[d][i]), mem)
         /\ After(mem[d], mem[d][i]) # Node(mem[d][i])
         /\ After(mem[d], mem[d][i]).state # "freed"
<1> DEFINE s == mem[d]
           o == mem[d][i]
<1>1. /\ s \in Seq(Object) /\ DOMAIN s = 1..Len(s) /\ Len(s) \in Nat
      /\ \A j, k \in 1..Len(s) : j # k => s[j] # s[k]
  BY ObjectsOfMem DEF MemOK
<1>2. CASE o = s[Len(s)]
  BY <1>2 DEF After, End, Node, IterOK, Iterator
<1>3. CASE o # s[Len(s)]
  <2>1. i + 1 \in 2..Len(s) /\ s[(i + 1) - 1] = o
    BY <1>1, <1>3
  <2> DEFINE j == CHOOSE k \in 2..Len(s) : s[k - 1] = o
  <2>2. j \in 2..Len(s) /\ s[j - 1] = o
    BY <2>1
  <2>3. After(s, o) = Node(s[j])
    BY <1>3 DEF After
  <2> HIDE DEF j
  <2>4. j \in DOMAIN s /\ s[j] # o
    BY <1>1, <2>2
  <2> QED
    BY <2>3, <2>4, ObjectsOfMem DEF Node, IterOK, Iterator
<1> QED
  BY <1>2, <1>3

(* Erasing an object keeps the databases and all other iterators intact. *)
LEMMA RemoveIsOK ==
  ASSUME MemOK(mem), NEW d \in Dbs, NEW i \in DOMAIN mem[d],
         NEW m, m = [mem EXCEPT ![d] = RemoveAt(@, i)]
  PROVE  /\ MemOK(m)
         /\ \A it : IterOK(it, mem) /\ it # Node(mem[d][i]) => IterOK(it, m)
         /\ \A e \in Dbs : ToSet(m[e]) \subseteq ToSet(mem[e])
<1> DEFINE s == mem[d]
           r == RemoveAt(s, i)
<1>1. s \in Seq(Object) /\ i \in 1..Len(s) /\ DOMAIN s = 1..Len(s)
  BY ObjectsOfMem DEF MemOK
<1>2. /\ r \in Seq(Object)
      /\ Len(r) = Len(s) - 1
      /\ \A j \in 1..(Len(s) - 1) : r[j] = IF j < i THEN s[j] ELSE s[j + 1]
  BY <1>1, RemovedAt
<1>3. m \in [Dbs -> Seq(Object)] /\ m[d] = r /\ \A e \in Dbs \ {d} : m[e] = mem[e]
  BY <1>2 DEF MemOK
<1> HIDE DEF r
<1>4. DOMAIN r = 1..(Len(s) - 1)
  BY <1>2
<1>5. \A j \in DOMAIN r : \E k \in DOMAIN s :
        r[j] = s[k] /\ k = (IF j < i THEN j ELSE j + 1)
  BY <1>1, <1>2, <1>4
<1>6. MemOK(m)
  <2>1. \A e \in Dbs : \A j \in DOMAIN m[e] : m[e][j].home = e
    BY <1>3, <1>5 DEF MemOK
  <2>2. \A j, k \in DOMAIN r : j # k => r[j].key # r[k].key
    <3> SUFFICES ASSUME NEW j \in DOMAIN r, NEW k \in DOMAIN r, j # k
                 PROVE  r[j].key # r[k].key
      OBVIOUS
    <3>1. PICK jj \in DOMAIN s : r[j] = s[jj] /\ jj = (IF j < i THEN j ELSE j + 1)
      BY <1>5
    <3>2. PICK kk \in DOMAIN s : r[k] = s[kk] /\ kk = (IF k < i THEN k ELSE k + 1)
      BY <1>5
    <3>3. jj # kk
      BY <1>1, <1>4, <3>1, <3>2
    <3> QED
      BY <3>1, <3>2, <3>3 DEF MemOK
  <2> QED
    BY <1>3, <2>1, <2>2 DEF MemOK
<1>7. ASSUME NEW it, IterOK(it, mem), it # Node(mem[d][i])
      PROVE  IterOK(it, m)
  <2> SUFFICES ASSUME it.state = "node"
               PROVE  \E j \in DOMAIN m[it.obj.home] : m[it.obj.home][j] = it.obj
    BY <1>7 DEF IterOK
  <2>1. it.obj \in Object
    BY <1>7 DEF IterOK
  <2>2. PICK k \in DOMAIN mem[it.obj.home] : mem[it.obj.home][k] = it.obj
    BY <1>7 DEF IterOK
  <2>3. CASE it.obj.home # d
    BY <1>3, <2>1, <2>2, <2>3 DEF Object
  <2>4. CASE it.obj.home = d
    <3>1. it = Node(it.obj)
      BY <1>7 DEF IterOK, Iterator, Node
    <3>2. k # i
      BY <1>7, <2>2, <2>4, <3>1
    <3>3. k \in 1..Len(s)
      BY <1>1, <2>2, <2>4
    <3>4. CASE k < i
      BY <1>1, <1>2, <1>3, <1>4, <2>2, <2>4, <3>3, <3>4
    <3>5. CASE k > i
      <4>1. k - 1 \in 1..(Len(s) - 1) /\ r[k - 1] = s[(k - 1) + 1]
        BY <1>1, <1>2, <3>3, <3>5
      <4> QED
        BY <1>3, <1>4, <2>2, <2>4, <3>3, <4>1
    <3> QED
      BY <1>1, <3>2, <3>3, <3>4, <3>5
  <2> QED
    BY <2>3, <2>4
<1>8. \A e \in Dbs : ToSet(m[e]) \subseteq ToSet(mem[e])
  BY <1>3, <1>5 DEF ToSet
<1> QED
  BY <1>6, <1>7, <1>8

(* Inserting a key that is not there keeps iterators intact. *)
LEMMA InsertIsOK ==
  ASSUME MemOK(mem), NEW d \in Dbs, NEW o \in Object, o.home = d,
         Missing(d, o.key), NEW i \in Places(mem[d]),
         NEW m, m = [mem EXCEPT ![d] = InsertAt(@, i, o)]
  PROVE  /\ MemOK(m)
         /\ \A it : IterOK(it, mem) => IterOK(it, m)
<1> DEFINE s == mem[d]
           r == InsertAt(s, i, o)
<1>1. /\ s \in Seq(Object) /\ DOMAIN s = 1..Len(s) /\ Len(s) \in Nat
      /\ i \in 1..(Len(s) + 1)
  <2>1. s \in Seq(Object)
    BY DEF MemOK
  <2> QED
    BY <2>1 DEF Places
<1>2. /\ r \in Seq(Object)
      /\ Len(r) = Len(s) + 1
      /\ \A j \in 1..(Len(s) + 1) :
           r[j] = IF j < i THEN s[j] ELSE IF j = i THEN o ELSE s[j - 1]
  <2> HIDE DEF s
  <2>1. s \in Seq(Object) /\ o \in Object /\ i \in 1..(Len(s) + 1)
    BY <1>1
  <2> QED
    BY <2>1, InsertedAt, SMTT(30)
<1>3. m \in [Dbs -> Seq(Object)] /\ m[d] = r /\ \A e \in Dbs \ {d} : m[e] = mem[e]
  BY <1>2 DEF MemOK
<1> HIDE DEF r
<1>4. DOMAIN r = 1..(Len(s) + 1)
  BY <1>2
<1>5. \A j \in DOMAIN r : j # i =>
        \E k \in DOMAIN s : r[j] = s[k] /\ k = (IF j < i THEN j ELSE j - 1)
  BY <1>1, <1>2, <1>4
<1>6. r[i] = o /\ \A k \in DOMAIN s : s[k].key # o.key
  BY <1>1, <1>2 DEF Missing
<1>7. MemOK(m)
  <2>1. \A e \in Dbs : \A j \in DOMAIN m[e] : m[e][j].home = e
    BY <1>3, <1>5, <1>6, SMTT(30) DEF MemOK
  <2>2. \A j, k \in DOMAIN r : j # k => r[j].key # r[k].key
    <3> SUFFICES ASSUME NEW j \in DOMAIN r, NEW k \in DOMAIN r, j # k
                 PROVE  r[j].key # r[k].key
      OBVIOUS
    <3>1. CASE j = i \/ k = i
      BY <1>5, <1>6, <3>1
    <3>2. CASE j # i /\ k # i
      <4>1. PICK jj \in DOMAIN s : r[j] = s[jj] /\ jj = (IF j < i THEN j ELSE j - 1)
        BY <1>5, <3>2
      <4>2. PICK kk \in DOMAIN s : r[k] = s[kk] /\ kk = (IF k < i THEN k ELSE k - 1)
        BY <1>5, <3>2
      <4>3. jj # kk
        BY <1>1, <1>4, <3>2, <4>1, <4>2
      <4> QED
        BY <4>1, <4>2, <4>3 DEF MemOK
    <3> QED
      BY <3>1, <3>2
  <2> QED
    BY <1>3, <2>1, <2>2 DEF MemOK
<1>8. ASSUME NEW it, IterOK(it, mem)
      PROVE  IterOK(it, m)
  <2> SUFFICES ASSUME it.state = "node"
               PROVE  \E j \in DOMAIN m[it.obj.home] : m[it.obj.home][j] = it.obj
    BY <1>8 DEF IterOK
  <2>1. it.obj.home \in Dbs
    BY <1>8 DEF IterOK, Object
  <2>2. PICK k \in DOMAIN mem[it.obj.home] : mem[it.obj.home][k] = it.obj
    BY <1>8 DEF IterOK
  <2>3. CASE it.obj.home # d
    BY <1>3, <2>1, <2>2, <2>3
  <2>4. CASE it.obj.home = d
    <3>1. k \in 1..Len(s)
      BY <1>1, <2>2, <2>4
    <3>2. CASE k < i
      BY <1>1, <1>2, <1>3, <1>4, <2>2, <2>4, <3>1, <3>2
    <3>3. CASE k >= i
      <4>1. k + 1 \in 1..(Len(s) + 1) /\ r[k + 1] = s[(k + 1) - 1]
        BY <1>1, <1>2, <3>1, <3>3
      <4> QED
        BY <1>3, <1>4, <2>2, <2>4, <3>1, <4>1
    <3> QED
      BY <1>1, <3>1, <3>2, <3>3
  <2> QED
    BY <2>3, <2>4
<1> QED
  BY <1>7, <1>8

(* What a file gives back are objects of the database it is named after.   *)
LEMMA RestoredObjects ==
  ASSUME file \in [Dbs -> Seq(Object) \cup {Absent}],
         NEW d \in Dbs, NEW o \in Restored(d)
  PROVE  o \in Object /\ o.home = d
<1> DEFINE f == file[d]
<1>1. d \in Loads
  BY DEF Restored
<1>2. f \in Seq(Object)
  BY <1>1, SnapshotAssumption DEF Loads
<1>3. PICK g \in Inserted(f) :
        o = [home |-> d, key |-> f[g[2]].key, end |-> EndRead(f, g)]
  BY <1>1 DEF Restored
<1> HIDE DEF f
<1>4. g \in Heads(f) \X DOMAIN f /\ Tagged(f[g[2]])
  BY DEF Inserted, ReadGroups, Groups
<1>5. g[1] \in DOMAIN f /\ g[2] \in DOMAIN f
  BY <1>4 DEF Heads
<1>6. f[g[1]] \in Object /\ f[g[2]] \in Object
  BY <1>2, <1>5
<1>7. f[g[1]].end \in {NoEnd} \cup SetEnds
  BY <1>6 DEF Object, EndsOf, NewEnds
<1>8. f[g[2]].key \in Keys
  BY <1>6 DEF Object
<1>9. EndRead(f, g) \in EndsOf(f[g[2]].key)
  BY <1>4, <1>7 DEF Tagged, EndRead, EndsOf, NewEnds
<1> QED
  BY <1>3, <1>8, <1>9 DEF Object

(* An entry with contents has one head. *)
LEMMA OneHead ==
  ASSUME NEW f \in Seq(Object), NEW g \in Groups(f), NEW h \in Groups(f),
         g[2] = h[2]
  PROVE  ~(g[1] < h[1])
<1> SUFFICES ASSUME g[1] < h[1] PROVE FALSE
  OBVIOUS
<1>1. /\ g \in Heads(f) \X DOMAIN f /\ h \in Heads(f) \X DOMAIN f
      /\ h[1] =< h[2]
      /\ \A j \in g[1]..(g[2] - 1) : ~Tagged(f[j])
  BY DEF Groups
<1>2. g[1] \in 1..Len(f) /\ h[1] \in 1..Len(f) /\ h[2] \in 1..Len(f)
  BY <1>1 DEF Heads
<1>3. h[1] # 1
  BY <1>2
<1>4. Tagged(f[h[1] - 1])
  BY <1>1, <1>3 DEF Heads
<1>5. h[1] - 1 \in g[1]..(g[2] - 1)
  BY <1>1, <1>2
<1> QED
  BY <1>1, <1>4, <1>5

(* No key is inserted twice. *)
LEMMA InsertedOnce ==
  ASSUME NEW f \in Seq(Object), NEW g \in Inserted(f), NEW h \in Inserted(f),
         f[g[2]].key = f[h[2]].key
  PROVE  g = h
<1>1. g \in Groups(f) /\ h \in Groups(f)
  BY DEF Inserted, ReadGroups
<1>2. g \in Heads(f) \X DOMAIN f /\ h \in Heads(f) \X DOMAIN f
  BY <1>1 DEF Groups
<1>3. /\ g[1] \in Nat /\ g[2] \in Nat /\ h[1] \in Nat /\ h[2] \in Nat
  BY <1>2 DEF Heads
<1>4. ~(g[2] < h[2]) /\ ~(h[2] < g[2])
  BY DEF Inserted
<1>5. g[2] = h[2]
  BY <1>3, <1>4
<1>6. ~(g[1] < h[1])
  BY <1>1, <1>5, OneHead
<1>7. ~(h[1] < g[1])
  BY <1>1, <1>5, OneHead
<1>8. g[1] = h[1]
  BY <1>3, <1>6, <1>7
<1> QED
  BY <1>2, <1>5, <1>8

(* Pairs of members of finite sets are finite in number. *)
LEMMA FinitePairs ==
  ASSUME NEW D, IsFiniteSet(D), NEW H, H \subseteq D, NEW I, I \subseteq H \X D
  PROVE  IsFiniteSet(I)
<1>1. IsFiniteSet(D \X D)
  BY FS_Product
<1>2. I \subseteq D \X D
  OBVIOUS
<1> QED
  BY <1>1, <1>2, FS_Subset

(* What a recovery loads are databases: a key that a file holds twice is   *)
(* inserted once.                                                          *)
LEMMA RecoverIsOK ==
  ASSUME file \in [Dbs -> Seq(Object) \cup {Absent}],
         NEW m \in [Dbs -> UNION {Orders(d) : d \in Dbs}],
         \A d \in Dbs : m[d] \in Orders(d)
  PROVE  MemOK(m)
<1>1. ASSUME NEW d \in Dbs
      PROVE  /\ m[d] \in Seq(Object)
             /\ \A i \in DOMAIN m[d] : m[d][i].home = d
             /\ \A i, j \in DOMAIN m[d] : i # j => m[d][i].key # m[d][j].key
  <2> DEFINE R == Restored(d)
  <2>1. /\ IsFiniteSet(R)
        /\ \A o, p \in R : o.key = p.key => o = p
    <3>1. CASE d \notin Loads
      <4>1. R = {}
        BY <3>1 DEF Restored
      <4> QED  BY <4>1, FS_EmptySet
    <3>2. CASE d \in Loads
      <4> DEFINE f == file[d]
                 I == Inserted(f)
                 made == [g \in I |-> [home |-> d, key |-> f[g[2]].key,
                                       end |-> EndRead(f, g)]]
      <4>1. f \in Seq(Object)
        BY <3>2, <1>1, SnapshotAssumption DEF Loads
      <4>2. R = {made[g] : g \in I}
        BY <3>2 DEF Restored
      <4> HIDE DEF f
      <4>3. IsFiniteSet(DOMAIN f)
        <5>1. Len(f) \in Int /\ 1 \in Int /\ DOMAIN f = 1..Len(f)
          BY <4>1
        <5> QED
          BY <5>1, FS_Interval, Zenon
      <4>4. Heads(f) \subseteq DOMAIN f
        BY DEF Heads
      <4>5. I \subseteq Heads(f) \X DOMAIN f
        BY DEF Inserted, ReadGroups, Groups
      <4> HIDE DEF I
      <4>6. IsFiniteSet(I)
        BY <4>3, <4>4, <4>5, FinitePairs
      <4>7. made \in Surjection(I, R)
        BY <4>2 DEF Surjection
      <4>8. IsFiniteSet(R)
        BY <4>6, <4>7, FS_Surjection
      <4>9. ASSUME NEW g \in I, NEW h \in I, made[g].key = made[h].key
            PROVE  made[g] = made[h]
        <5>1. f[g[2]].key = f[h[2]].key
          BY <4>9
        <5>2. g \in Inserted(f) /\ h \in Inserted(f)
          BY DEF I
        <5>3. g = h
          BY <4>1, <5>1, <5>2, InsertedOnce
        <5> QED  BY <5>3
      <4> HIDE DEF made
      <4> QED
        BY <4>2, <4>8, <4>9
    <3> QED
      BY <3>1, <3>2
  <2>2. \A o \in R : o \in Object /\ o.home = d
    BY RestoredObjects
  <2>4. m[d] \in SetToSeqs(R)
    BY <1>1 DEF Orders
  <2>5. Cardinality(R) \in Nat
    BY <2>1, FS_CardinalityType
  <2> HIDE DEF R
  <2>6. /\ m[d] \in [1..Cardinality(R) -> R]
        /\ \A i, j \in 1..Cardinality(R) : i # j => m[d][i] # m[d][j]
    BY <2>4 DEF SetToSeqs
  <2>7. m[d] \in Seq(Object)
    BY <2>2, <2>5, <2>6
  <2> QED
    BY <2>1, <2>2, <2>6, <2>7
<1> QED
  BY <1>1 DEF MemOK

(* The iterator a call of getNextDb starts from. *)
LEMMA HereIsOK ==
  ASSUME MemOK(mem), IterOK(cursor, mem), at \in Dbs
  PROVE  IterOK(Here, mem)
BY BeginIsOK DEF Here

-----------------------------------------------------------------------------
(* Type correctness *)

(* Until the files have been read there is nothing in memory. *)
Unloaded == loaded = 0 => \A d \in Dbs : mem[d] = <<>>

Shape ==
  /\ TypeOK
  /\ MemOK(mem)
  /\ IterOK(cursor, mem)
  /\ Unloaded
  /\ pc \in {"walk", "remove", "rename"} => at \in Dbs
  /\ pc = "down" => cursor = Unset

(* The initial state has the right shape. *)
LEMMA InitShape == Init => Shape
<1> SUFFICES ASSUME Init PROVE Shape
  OBVIOUS
<1>1. MemOK(mem)
  BY DEF Init, MemOK
<1>2. IterOK(cursor, mem)
  BY DEF Init, IterOK, Iterator, Unset
<1>3. Unloaded
  BY DEF Init, Unloaded
<1>4. /\ now \in 1..MaxNow /\ loaded \in {0, 1} /\ at \in Nat
      /\ complete \in {0, 1} /\ quiet \in -1..2 /\ undefined \in {0, 1}
  BY SnapshotAssumption DEF Init
<1>5. /\ tmp \in Seq(Object) /\ names \subseteq Dbs
      /\ snap \subseteq Object /\ durable \subseteq Object
      /\ file \in [Dbs -> Seq(Object) \cup {Absent}]
  BY DEF Init
<1> QED
  BY <1>1, <1>2, <1>3, <1>4, <1>5 DEF Init, Shape, TypeOK, MemOK, IterOK, Iterator

(* Every step keeps the shape. *)
LEMMA NextShape == Shape /\ [Next]_vars => Shape'
<1> SUFFICES ASSUME Shape, [Next]_vars PROVE Shape'
  OBVIOUS
<1> USE DEF Shape
<1>1. ASSUME   /\ MemOK(mem') /\ IterOK(cursor', mem')
               /\ pc' \in {"down", "serving", "next", "walk", "remove", "rename"}
               /\ at' \in Nat
               /\ pc' \in {"walk", "remove", "rename"} => at' \in Dbs
               /\ pc' = "down" => cursor' = Unset
               /\ tmp' \in Seq(Object)
               /\ names' \subseteq Dbs
               /\ file' \in [Dbs -> Seq(Object) \cup {Absent}]
               /\ snap' \subseteq Object
               /\ complete' \in {0, 1}
               /\ quiet' \in -1..2
               /\ durable' \subseteq Object
               /\ undefined' \in {0, 1}
               /\ now' \in 1..MaxNow /\ loaded' \in {0, 1}
               /\ Unloaded'
      PROVE    Shape'
  BY <1>1 DEF TypeOK, MemOK, IterOK, Iterator
<1>2. InMemory \subseteq Object
  BY ObjectsOfMem DEF InMemory, ToSet
<1>u. ASSUME mem' = mem, loaded' = loaded
      PROVE  Unloaded'
  BY <1>u DEF Unloaded
<1>m. ASSUME NEW d \in Dbs, mem[d] # <<>>, loaded' = loaded
      PROVE  Unloaded'
  BY <1>m DEF Unloaded, TypeOK
<1>3. ASSUME NEW d \in Dbs, NEW k \in Keys, Put(d, k)
      PROVE  Shape'
  <2>1. PICK end \in NewEnds(k), i \in Places(mem[d]) :
          mem' = [mem EXCEPT ![d] =
                    InsertAt(@, i, [home |-> d, key |-> k, end |-> end])]
    BY <1>3 DEF Put
  <2> DEFINE o == [home |-> d, key |-> k, end |-> end]
  <2>2. o \in Object /\ o.home = d /\ o.key = k
    <3>1. end \in EndsOf(k)
      BY DEF EndsOf, NewEnds
    <3> QED  BY <3>1 DEF Object
  <2> HIDE DEF o
  <2>3. Missing(d, o.key)
    BY <1>3, <2>2 DEF Put
  <2>4. mem' = [mem EXCEPT ![d] = InsertAt(@, i, o)]
    BY <2>1 DEF o
  <2>5. MemOK(mem') /\ IterOK(cursor, mem')
    BY <2>2, <2>3, <2>4, InsertIsOK
  <2> QED
    BY <1>1, <1>3, <2>5 DEF Put, TypeOK, diskVars, saveVars, procVars, Unloaded
<1>4. ASSUME NEW d \in Dbs, NEW k \in Keys, Drop(d, k)
      PROVE  Shape'
  <2>1. PICK i \in DOMAIN mem[d] :
          /\ mem' = [mem EXCEPT ![d] = RemoveAt(@, i)]
          /\ cursor' = CursorErased(mem[d][i])
          /\ durable' \subseteq durable
    BY <1>4 DEF Drop, Erase
  <2>2. /\ MemOK(mem')
        /\ \A it : IterOK(it, mem) /\ it # Node(mem[d][i]) => IterOK(it, mem')
    BY <2>1, RemoveIsOK
  <2>u. Unloaded'
    BY <1>m, <1>4, ObjectsOfMem DEF Drop, procVars
  <2>3. IterOK(cursor', mem')
    <3>1. CASE cursor = Node(mem[d][i])
      BY <2>1, <3>1, ObjectsOfMem DEF CursorErased, Freed, IterOK, Iterator
    <3>2. CASE cursor # Node(mem[d][i])
      BY <2>1, <2>2, <3>2 DEF CursorErased
    <3> QED
      BY <3>1, <3>2
  <2> QED
    BY <1>1, <1>4, <2>u, <2>1, <2>2, <2>3 DEF Drop, TypeOK, diskVars, procVars
<1>5. CASE BeginSave
  BY <1>1, <1>u, <1>2, <1>5 DEF BeginSave, TypeOK, Truncated, procVars
<1>6. CASE SaveNext
  <2>1. PICK d \in ToSave : at' = d /\ names' = names \cup {d}
    BY <1>6 DEF SaveNext
  <2>2. d \in Dbs /\ d \in Nat
    BY SnapshotAssumption DEF ToSave
  <2>3. /\ at' \in Dbs /\ at' \in Nat /\ names' \subseteq Dbs
    BY <2>1, <2>2 DEF TypeOK
  <2>4. /\ pc' \in {"walk", "serving"} /\ quiet' \in -1..2
        /\ tmp' \in Seq(Object)
    <3>1. /\ <<>> \in Seq(Object) /\ tmp \in Seq(Object)
          /\ quiet \in -1..2 /\ 0 \in -1..2
      BY DEF TypeOK
    <3>2. \/ pc' = "walk" /\ tmp' = <<>> /\ quiet' = quiet
          \/ pc' = "serving" /\ quiet' = 0 /\ tmp' = tmp
      BY <1>6 DEF SaveNext
    <3> QED
      BY <3>1, <3>2, Zenon
  <2>5. MemOK(mem') /\ IterOK(cursor', mem')
    BY <1>6 DEF SaveNext
  <2> QED
    BY <1>1, <1>u, <1>6, <2>3, <2>4, <2>5 DEF SaveNext, TypeOK, procVars
<1>7. CASE EndSave
  <2>1. Recoverable \subseteq Object
    BY RestoredObjects DEF Recoverable, TypeOK
  <2>2. quiet' \in -1..2
    BY <1>7 DEF EndSave, TypeOK
  <2> QED
    BY <1>1, <1>u, <1>7, <2>1, <2>2 DEF EndSave, TypeOK, diskVars, procVars
<1>8. CASE WalkObject
  <2>1. at \in Dbs /\ IterOK(Here, mem) /\ Here.state = "node"
    BY <1>8, HereIsOK DEF WalkObject
  <2>2. Here.obj \in Object /\ Here.obj.home \in Dbs
    BY <2>1 DEF IterOK, Object
  <2>3. PICK i \in DOMAIN mem[Here.obj.home] :
          mem[Here.obj.home][i] = Here.obj
    BY <2>1 DEF IterOK
  <2>4. IterOK(cursor', mem)
    BY <1>8, <2>2, <2>3, AfterIsOK DEF WalkObject
  <2>5. tmp' \in Seq(Object)
    BY <1>8, <2>2 DEF WalkObject, TypeOK
  <2> QED
    BY <1>1, <1>u, <1>8, <2>4, <2>5
    DEF WalkObject, TypeOK, diskVars, histVars, procVars
<1>9. CASE WalkEnd
  <2>1. at \in Dbs /\ IterOK(cursor', mem)
    BY <1>9, BeginIsOK DEF WalkEnd, Rewound
  <2> QED
    BY <1>1, <1>u, <1>9, <2>1 DEF WalkEnd, TypeOK, diskVars, histVars, procVars
<1>10. CASE WalkExpired
  <2>1. at \in Dbs /\ Here.obj.home = at
    BY <1>10 DEF WalkExpired
  <2>2. PICK i \in DOMAIN mem[at] :
          /\ mem[at][i] = Here.obj
          /\ mem' = [mem EXCEPT ![at] = RemoveAt(@, i)]
    BY <1>10 DEF WalkExpired
  <2>3. /\ IterOK(cursor', mem)
        /\ cursor' # Node(mem[at][i])
    BY <1>10, <2>1, <2>2, AfterIsOK DEF WalkExpired, Advanced
  <2>4. MemOK(mem') /\ IterOK(cursor', mem')
    BY <2>1, <2>2, <2>3, RemoveIsOK
  <2>u. Unloaded'
    BY <1>m, <1>10, <2>1, ObjectsOfMem DEF WalkExpired, procVars
  <2> QED
    BY <1>1, <1>10, <2>u, <2>1, <2>4 DEF WalkExpired, TypeOK, diskVars, procVars
<1>11. CASE WalkFreed
  <2>1. at \in Dbs /\ IterOK(Here, mem) /\ Here.state = "freed"
    BY <1>11, HereIsOK DEF WalkFreed
  <2>2. tmp' \in Seq(Object)
    <3>1. tmp \in Seq(Object) /\ Here.obj \in Object
      BY <2>1 DEF TypeOK, IterOK
    <3>2. tmp' \in {tmp, Append(tmp, Here.obj)}
      BY <1>11 DEF WalkFreed
    <3> QED  BY <3>1, <3>2
  <2>3. IterOK(cursor', mem)
    <3>1. CASE cursor' = End
      BY <3>1 DEF End, IterOK, Iterator
    <3>2. CASE cursor' # End
      <4>1. PICK o \in InMemory : cursor' = Node(o)
        BY <1>11, <3>2 DEF WalkFreed
      <4>2. PICK d \in Dbs : \E i \in DOMAIN mem[d] : mem[d][i] = o
        BY DEF InMemory, ToSet
      <4> QED
        BY <4>1, <4>2, ObjectsOfMem DEF Node, IterOK, Iterator
    <3> QED
      BY <3>1, <3>2
  <2> QED
    BY <1>1, <1>u, <1>11, <2>1, <2>2, <2>3
    DEF WalkFreed, TypeOK, diskVars, procVars
<1>12. CASE RemoveOld
  BY <1>1, <1>u, <1>12 DEF RemoveOld, TypeOK, histVars, procVars
<1>13. CASE RenameTmp
  BY <1>1, <1>u, <1>13 DEF RenameTmp, Renamed, TypeOK, histVars, procVars
<1>14. CASE Crash
  <2>1. MemOK(mem')
    BY <1>14 DEF Crash, MemOK
  <2>2. IterOK(cursor', mem')
    BY <1>14 DEF Crash, IterOK, Iterator, Unset
  <2> QED
    BY <1>1, <1>14, <2>1, <2>2 DEF Crash, TypeOK, diskVars, Unloaded
<1>15. CASE Start
  BY <1>1, <1>u, <1>15 DEF Start, TypeOK, diskVars, histVars, procVars
<1>16. CASE Recover
  <2>1. MemOK(mem')
    BY <1>16, RecoverIsOK DEF Recover, TypeOK
  <2>2. pc' = "serving" /\ cursor' = cursor
    BY <1>16 DEF Recover, saveVars
  <2>3. \A d \in Dbs : mem[d] = <<>>
    BY <1>16 DEF Recover, Unloaded
  <2>4. cursor.state # "node"
    BY <2>3 DEF IterOK, Object
  <2>5. IterOK(cursor', mem')
    BY <2>2, <2>4 DEF IterOK
  <2> QED
    BY <1>1, <1>16, <2>1, <2>2, <2>5
    DEF Recover, TypeOK, diskVars, saveVars, Unloaded
<1>17. CASE Tick
  <2>1. now' \in 1..MaxNow
    BY <1>17, SnapshotAssumption DEF Tick, TypeOK
  <2> QED
    BY <1>1, <1>u, <1>17, <2>1 DEF Tick, TypeOK, diskVars, saveVars, histVars
<1>18. CASE UNCHANGED vars
  BY <1>1, <1>u, <1>18 DEF vars, TypeOK, diskVars, saveVars, histVars, procVars
<1> QED
  BY <1>3, <1>4, <1>5, <1>6, <1>7, <1>8, <1>9, <1>10, <1>11, <1>12, <1>13,
     <1>14, <1>15, <1>16, <1>17, <1>18 DEF Next

-----------------------------------------------------------------------------
(* What a save leaves behind *)

Saving == pc \in {"next", "walk", "remove", "rename"}
Writing == pc \in {"walk", "remove", "rename"}

(* The databases listed so far have their files, but for the one that is    *)
(* being written.                                                           *)
Listed ==
  /\ Saving => complete = 0
  /\ Writing => \A d \in names \ {at} : file[d] # Absent
  /\ pc = "next" \/ complete = 1 => \A d \in names : file[d] # Absent

(* Those files, and the one that is being written, hold what was in memory  *)
(* when the save began.                                                     *)
Faithful(d) == file[d] # Absent => ToSet(file[d]) \subseteq snap

Snapped ==
  /\ Saving => InMemory \subseteq snap
  /\ undefined = 0 =>
       /\ Writing => ToSet(tmp) \subseteq snap
       /\ Writing => \A d \in names \ {at} : Faithful(d)
       /\ pc = "next" \/ complete = 1 => \A d \in names : Faithful(d)

Inv == Shape /\ Listed /\ Snapped

(* The listed files are kept by every step. *)
LEMMA NextListed == Shape /\ Listed /\ [Next]_vars => Listed'
<1> SUFFICES ASSUME Shape, Listed, [Next]_vars PROVE Listed'
  OBVIOUS
<1> USE DEF Listed, Saving, Writing
<1>1. file \in [Dbs -> Seq(Object) \cup {Absent}] /\ names \subseteq Dbs
  BY DEF Shape, TypeOK
<1>2. ASSUME NEW d \in Dbs, NEW k \in Keys, Put(d, k) \/ Drop(d, k)
      PROVE  Listed'
  BY <1>2 DEF Put, Drop, diskVars, saveVars
<1>3. CASE BeginSave
  BY <1>3 DEF BeginSave, Truncated
<1>4. CASE SaveNext
  <2>1. complete' = 0 /\ file' = file /\ pc' \in {"walk", "serving"}
    BY <1>4 DEF SaveNext
  <2>2. names' \ {at'} \subseteq names
    BY <1>4 DEF SaveNext
  <2>3. \A d \in names : file[d] # Absent
    BY <1>4 DEF SaveNext
  <2> QED
    BY <2>1, <2>2, <2>3
<1>5. CASE EndSave
  BY <1>5 DEF EndSave, diskVars
<1>6. CASE WalkObject \/ WalkEnd \/ WalkExpired \/ WalkFreed
  BY <1>6 DEF WalkObject, WalkEnd, WalkExpired, WalkFreed, diskVars, histVars
<1>7. CASE RemoveOld
  BY <1>1, <1>7 DEF RemoveOld, histVars
<1>8. CASE RenameTmp
  <2>1. tmp # Absent
    BY <1>8, AbsentIsNoFile DEF Shape, TypeOK
  <2> QED
    BY <1>1, <1>8, <2>1 DEF RenameTmp, Renamed, histVars, Shape
<1>9. CASE Crash \/ Start \/ Recover \/ Tick
  BY <1>9 DEF Crash, Start, Recover, Tick, diskVars, saveVars, histVars
<1>10. CASE UNCHANGED vars
  BY <1>10 DEF vars, diskVars, saveVars, histVars
<1> QED
  BY <1>2, <1>3, <1>4, <1>5, <1>6, <1>7, <1>8, <1>9, <1>10 DEF Next

(* What is written was in memory, as long as no dangling iterator is used. *)
LEMMA NextSnapped == Inv /\ [Next]_vars => Snapped'
<1> SUFFICES ASSUME Shape, Listed, Snapped, [Next]_vars PROVE Snapped'
  BY DEF Inv
<1> USE DEF Snapped, Saving, Writing
<1>1. file \in [Dbs -> Seq(Object) \cup {Absent}] /\ names \subseteq Dbs
  BY DEF Shape, TypeOK
<1>2. ASSUME NEW d \in Dbs, NEW k \in Keys, Put(d, k) \/ Drop(d, k)
      PROVE  Snapped'
  BY <1>2 DEF Put, Drop, diskVars, saveVars, Faithful
<1>3. CASE BeginSave
  BY <1>3 DEF BeginSave, Truncated, Faithful, InMemory
<1>4. CASE SaveNext
  <2>1. /\ file' = file /\ pc' \in {"walk", "serving"} /\ undefined' = undefined
        /\ snap' = snap /\ mem' = mem /\ complete' = 0
    BY <1>4 DEF SaveNext, Listed
  <2>2. names' \ {at'} \subseteq names
    BY <1>4 DEF SaveNext
  <2>3. InMemory' \subseteq snap
    BY <1>4, <2>1 DEF SaveNext, InMemory
  <2>4. pc' = "walk" => ToSet(tmp') = {}
    BY <1>4 DEF SaveNext, ToSet
  <2>5. undefined = 0 => \A d \in names : Faithful(d)
    BY <1>4 DEF SaveNext
  <2> QED
    BY <2>1, <2>2, <2>3, <2>4, <2>5 DEF Faithful
<1>5. CASE EndSave
  BY <1>5 DEF EndSave, diskVars, Faithful
<1>6. CASE WalkObject
  <2>1. at \in Dbs /\ IterOK(Here, mem) /\ Here.state = "node"
    BY <1>6, HereIsOK DEF WalkObject, Shape
  <2>2. Here.obj \in Object /\ Here.obj.home \in Dbs
    BY <2>1 DEF IterOK, Object
  <2>3. Here.obj \in InMemory
    BY <2>1, <2>2 DEF IterOK, InMemory, ToSet
  <2>4. ToSet(tmp') = ToSet(tmp) \cup {Here.obj}
    BY <1>6, <2>2, AppendedTo DEF WalkObject, Shape, TypeOK
  <2>5. Here.obj \in snap
    BY <1>6, <2>3 DEF WalkObject
  <2> QED
    BY <1>6, <2>4, <2>5 DEF WalkObject, diskVars, histVars, Faithful, InMemory
<1>7. CASE WalkEnd
  BY <1>7 DEF WalkEnd, diskVars, histVars, Faithful, InMemory
<1>8. CASE WalkExpired
  <2>1. \A e \in Dbs : ToSet(mem'[e]) \subseteq ToSet(mem[e])
    BY <1>8, RemoveIsOK DEF WalkExpired, Shape
  <2>2. InMemory' \subseteq InMemory
    BY <2>1 DEF InMemory
  <2> QED
    BY <1>8, <2>2 DEF WalkExpired, diskVars, Faithful
<1>9. CASE WalkFreed
  BY <1>9 DEF WalkFreed, diskVars, InMemory
<1>10. CASE RemoveOld
  BY <1>1, <1>10 DEF RemoveOld, histVars, Faithful, InMemory
<1>11. CASE RenameTmp
  <2>1. file'[at] = tmp /\ \A d \in names \ {at} : file'[d] = file[d]
    BY <1>1, <1>11 DEF RenameTmp, Renamed, Shape
  <2> QED
    BY <1>11, <2>1 DEF RenameTmp, histVars, Faithful, InMemory
<1>12. CASE Crash \/ Start \/ Recover \/ Tick
  BY <1>12 DEF Crash, Start, Recover, Tick, diskVars, saveVars, histVars, Faithful,
               InMemory
<1>13. CASE UNCHANGED vars
  BY <1>13 DEF vars, diskVars, saveVars, histVars, Faithful, InMemory
<1> QED
  BY <1>2, <1>3, <1>4, <1>5, <1>6, <1>7, <1>8, <1>9, <1>10, <1>11, <1>12,
     <1>13 DEF Next

(* The inductive invariant holds in every reachable state. *)
THEOREM Invariance == Spec => []Inv
<1>1. Init => Inv
  <2>1. Init => Listed
    BY DEF Init, Listed, Saving, Writing
  <2>2. Init => Snapped
    BY DEF Init, Snapped, Saving, Writing
  <2> QED
    BY <2>1, <2>2, InitShape DEF Inv
<1>2. Inv /\ [Next]_vars => Inv'
  BY NextShape, NextListed, NextSnapped DEF Inv
<1> QED
  BY <1>1, <1>2, PTL DEF Spec

(* The state always has the declared types, and no database holds a key    *)
(* twice.                                                                  *)
THEOREM TypeCorrect == Spec => []TypeOK
<1>1. Inv => TypeOK
  BY DEF Inv, Shape
<1> QED
  BY <1>1, Invariance, PTL

(* Whatever crashes, failed saves and restarts come between, the list a    *)
(* completed save wrote names existing files only.                         *)
THEOREM ListedFilesAlwaysExist == Spec => []ListedFilesExist
<1>1. Inv => ListedFilesExist
  BY DEF Inv, Listed, ListedFilesExist
<1> QED
  BY <1>1, Invariance, PTL

(* A completed save brings back nothing that was gone before it began.     *)
THEOREM NothingIsResurrected == Spec => []NothingResurrected
<1>1. Inv => NothingResurrected
  BY DEF Inv, Snapped, Faithful, NothingResurrected
<1> QED
  BY <1>1, Invariance, PTL

(* The iterator points at a live object, at no object, at an emptied list  *)
(* that lpop erased, or at a hash with an expiry time that hget erased,    *)
(* through erasures of expired objects, changes of the database, failed    *)
(* saves, and recoveries that give hashes the expiry times of others.      *)
THEOREM CursorStaysLive == Spec => []CursorLive
<1> DEFINE ByCommand ==
             cursor.state = "freed" =>
               \/ Kind[cursor.obj.key] = "list"
               \/ Kind[cursor.obj.key] = "hash" /\ cursor.obj.end # NoEnd
<1>1. Init => ByCommand
  BY DEF Init, Unset
<1>2. Inv /\ ByCommand /\ [Next]_vars => ByCommand'
  <2> SUFFICES ASSUME Inv, ByCommand, [Next]_vars PROVE ByCommand'
    OBVIOUS
  <2>1. CASE WalkObject \/ WalkExpired
    <3>1. IterOK(Here, mem) /\ Here.state = "node"
      BY <2>1, HereIsOK DEF WalkObject, WalkExpired, Inv, Shape
    <3>2. Here.obj.home \in Dbs
      BY <3>1 DEF IterOK, Object
    <3>3. After(mem[Here.obj.home], Here.obj).state # "freed"
      BY <3>1, <3>2, AfterIsOK DEF IterOK, Inv, Shape
    <3> QED
      BY <2>1, <3>3 DEF WalkObject, WalkExpired, Advanced
  <2>2. CASE WalkEnd \/ WalkFreed
    BY <2>2 DEF WalkEnd, WalkFreed, Rewound, Begin, Node, End
  <2>3. CASE Crash
    BY <2>3 DEF Crash, Unset
  <2>4. ASSUME NEW d \in Dbs, NEW k \in Keys, Drop(d, k)
        PROVE  ByCommand'
    <3>1. PICK i \in DOMAIN mem[d] :
            /\ mem[d][i].key = k /\ cursor' = CursorErased(mem[d][i])
            /\ \/ Kind[k] = "list"
               \/ Kind[k] = "hash" /\ mem[d][i].end # NoEnd
      BY <2>4 DEF Drop, Erase, ExpiredForHget
    <3>2. CASE cursor' = cursor
      BY <3>2
    <3>3. CASE cursor' = Freed(mem[d][i])
      BY <3>1, <3>3 DEF Freed
    <3> QED
      BY <3>1, <3>2, <3>3 DEF CursorErased
  <2>5. CASE \/ \E d \in Dbs, k \in Keys : Put(d, k)
             \/ BeginSave \/ SaveNext \/ EndSave \/ RemoveOld \/ RenameTmp
             \/ Start \/ Recover \/ Tick \/ UNCHANGED vars
    BY <2>5 DEF Put, BeginSave, SaveNext, EndSave, RemoveOld, RenameTmp,
                Start, Recover, Tick, vars, saveVars
  <2> QED
    BY <2>1, <2>2, <2>3, <2>4, <2>5 DEF Next
<1>3. Inv /\ ByCommand => CursorLive
  <2> SUFFICES ASSUME Inv, ByCommand, cursor.state = "node"
               PROVE  cursor.obj \in InMemory
    BY DEF CursorLive
  <2>1. IterOK(cursor, mem)
    BY DEF Inv, Shape
  <2>2. cursor.obj.home \in Dbs
    BY <2>1 DEF IterOK, Object
  <2> QED
    BY <2>1, <2>2 DEF IterOK, InMemory, ToSet
<1> QED
  BY <1>1, <1>2, <1>3, Invariance, PTL DEF Spec

-----------------------------------------------------------------------------
(* Where the objects of a quiet memory are *)

(* The databases a save walks through. *)
Filled(m) == {d \in Dbs : m[d] # <<>>}

(* The database of F that is walked before the first one from a on: the    *)
(* last below a, or the last of all if there is none.                      *)
Precedes(F, e, a) ==
  /\ e \in F
  /\ \/ e < a /\ \A n \in F : n < a => n =< e
     \/ \A n \in F : n >= a /\ n =< e

(* All walks but the first one in a quiet memory begin where it is known.  *)
Known(F, count, a) == count >= 1 \/ \E n \in F : n < a

(* The iterator c has gone through a part of s, which was written to t. *)
Walked(c, t, s) ==
  \/ c = End /\ t = s
  \/ \E i \in DOMAIN s : c = Node(s[i]) /\ t = SubSeq(s, 1, i - 1)

(* The file of d was written by such a walk: count saves ended, and the    *)
(* running one is past the databases below a.                              *)
Settled(F, count, a, d) ==
  \/ count = 2
  \/ count = 1 /\ ((\E n \in F : n < d) \/ d < a)
  \/ count = 0 /\ (\E n \in F : n < d) /\ d < a

Past == IF Saving THEN at ELSE 0

(* In a quiet memory every walk but the first begins at the objects of the *)
(* database walked before, and writes all of them.                         *)
Ready ==
  pc = "serving" /\ quiet >= 1 =>
    \A e \in Dbs : Precedes(Filled(mem), e, 0) => cursor = Begin(mem[e])
Pointed ==
  pc = "next" /\ Known(Filled(mem), quiet, at) =>
    \A e \in Dbs : Precedes(Filled(mem), e, at) => cursor = Begin(mem[e])
Walking ==
  pc = "walk" /\ Known(Filled(mem), quiet, at) =>
    \A e \in Dbs : Precedes(Filled(mem), e, at) => Walked(cursor, tmp, mem[e])
Written ==
  pc \in {"remove", "rename"} =>
    /\ cursor = Begin(mem[at])
    /\ Known(Filled(mem), quiet, at) =>
         \A e \in Dbs : Precedes(Filled(mem), e, at) => tmp = mem[e]
Filed ==
  \A d \in Filled(mem), e \in Dbs :
    Precedes(Filled(mem), e, d) /\ Settled(Filled(mem), quiet, Past, d) =>
      file[d] = mem[e] \/ (pc = "rename" /\ d = at)

Rounds ==
  /\ pc = "down" => quiet = 0
  /\ pc = "serving" => quiet >= 0
  /\ quiet >= 0 =>
       /\ Ready /\ Pointed /\ Walking /\ Written /\ Filed
       /\ Writing => at \in Filled(mem)

(* The parts of a sequence before an element, and with it. *)
LEMMA PartsOf ==
  ASSUME NEW S, NEW s \in Seq(S)
  PROVE  /\ SubSeq(s, 1, 0) = <<>>
         /\ SubSeq(s, 1, Len(s)) = s
         /\ \A i \in DOMAIN s : Append(SubSeq(s, 1, i - 1), s[i]) = SubSeq(s, 1, i)
  OBVIOUS

(* The iterator moves on to the next object of its database. *)
LEMMA AfterNext ==
  ASSUME MemOK(mem), NEW d \in Dbs, NEW i \in DOMAIN mem[d]
  PROVE  After(mem[d], mem[d][i]) = IF i = Len(mem[d]) THEN End
                                    ELSE Node(mem[d][i + 1])
<1> DEFINE s == mem[d]
           o == mem[d][i]
<1>1. /\ s \in Seq(Object) /\ DOMAIN s = 1..Len(s) /\ Len(s) \in Nat
      /\ \A j, k \in 1..Len(s) : j # k => s[j] # s[k]
  BY ObjectsOfMem DEF MemOK
<1>2. CASE i = Len(s)
  BY <1>2 DEF After
<1>3. CASE i # Len(s)
  <2>1. i + 1 \in 2..Len(s) /\ s[(i + 1) - 1] = o /\ o # s[Len(s)]
    BY <1>1, <1>3
  <2> DEFINE j == CHOOSE k \in 2..Len(s) : s[k - 1] = o
  <2>2. j \in 2..Len(s) /\ s[j - 1] = o
    BY <2>1
  <2>3. After(s, o) = Node(s[j])
    BY <2>1 DEF After
  <2> HIDE DEF j
  <2>4. j = i + 1
    BY <1>1, <2>1, <2>2
  <2> QED  BY <1>3, <2>3, <2>4
<1> QED  BY <1>2, <1>3

(* A walk begins with the first object. *)
LEMMA WalkBegins ==
  ASSUME MemOK(mem), NEW e \in Filled(mem)
  PROVE  Walked(Begin(mem[e]), <<>>, mem[e])
<1>1. mem[e] \in Seq(Object) /\ mem[e] # <<>>
  BY DEF MemOK, Filled
<1>2. 1 \in DOMAIN mem[e] /\ SubSeq(mem[e], 1, 1 - 1) = <<>>
  BY <1>1, PartsOf
<1> QED  BY <1>1, <1>2 DEF Begin, Walked

(* It goes on with the next. *)
LEMMA WalkGoesOn ==
  ASSUME MemOK(mem), NEW e \in Dbs, Walked(cursor, tmp, mem[e]), WalkObject
  PROVE  Walked(cursor', tmp', mem[e])
<1> DEFINE s == mem[e]
<1>1. s \in Seq(Object) /\ DOMAIN s = 1..Len(s) /\ Len(s) \in Nat
  BY DEF MemOK
<1>2. Here = cursor /\ cursor.state = "node"
  BY DEF WalkObject, Here, Walked, Unset, End, Node, Begin
<1>3. PICK i \in DOMAIN s : cursor = Node(s[i]) /\ tmp = SubSeq(s, 1, i - 1)
  BY <1>2 DEF Walked, End
<1>4. cursor.obj = s[i] /\ s[i].home = e
  BY <1>3, ObjectsOfMem DEF Node
<1>5. tmp' = SubSeq(s, 1, i)
  <2>1. tmp' = Append(tmp, s[i])
    BY <1>2, <1>4 DEF WalkObject
  <2>2. Append(SubSeq(s, 1, i - 1), s[i]) = SubSeq(s, 1, i)
    BY <1>1, PartsOf
  <2> QED  BY <1>3, <2>1, <2>2
<1>6. cursor' = IF i = Len(s) THEN End ELSE Node(s[i + 1])
  BY <1>2, <1>4, AfterNext DEF WalkObject
<1>7. CASE i = Len(s)
  BY <1>1, <1>5, <1>6, <1>7, PartsOf DEF Walked
<1>8. CASE i # Len(s)
  <2>1. i + 1 \in DOMAIN s /\ (i + 1) - 1 = i
    BY <1>1, <1>8
  <2> QED  BY <1>5, <1>6, <1>8, <2>1 DEF Walked
<1> QED  BY <1>7, <1>8

(* It has ended when all objects were written. *)
LEMMA WalkIsOver ==
  ASSUME NEW s, Walked(cursor, tmp, s)
  PROVE  /\ Here.state # "freed"
         /\ Here.state = "end" => tmp = s
  BY DEF Walked, Here, Unset, End, Node

(* Every step keeps the rounds, or ends the quiet. *)
LEMMA NextRounds == Shape /\ Rounds /\ [Next]_vars => Rounds'
<1> SUFFICES ASSUME Shape, Rounds, [Next]_vars PROVE Rounds'
  OBVIOUS
<1> DEFINE F == Filled(mem)
<1>1. /\ MemOK(mem) /\ F \subseteq Dbs /\ Dbs \subseteq Nat /\ at \in Nat
      /\ Writing => at \in Dbs
      /\ file \in [Dbs -> Seq(Object) \cup {Absent}]
  BY SnapshotAssumption DEF Shape, TypeOK, Filled, Writing
<1>q. quiet \in -1..2
  BY DEF Shape, TypeOK
<1>n. \A n \in F : n \in Nat /\ n \in Dbs
  BY <1>1
<1>p. Past \in Nat
  BY <1>1 DEF Past
<1>w. ASSUME quiet >= 0
      PROVE  Ready /\ Pointed /\ Walking /\ Written /\ Filed /\ (Writing => at \in F)
  BY <1>w DEF Rounds
<1>2. ASSUME quiet' = 0, pc' \in {"serving", "down"}
      PROVE  Rounds'
  <2>1. Filled(mem') \subseteq Nat
    BY SnapshotAssumption DEF Filled
  <2>2. Past' = 0
    BY <1>2 DEF Past, Saving
  <2>3. \A d \in Filled(mem') : ~Settled(Filled(mem'), quiet', Past', d)
    BY <1>2, <2>1, <2>2 DEF Settled
  <2>4. Filed'
    BY <2>3 DEF Filed
  <2>5. Ready'
    BY <1>2 DEF Ready
  <2>6. Pointed' /\ Walking' /\ Written' /\ ~Writing'
    BY <1>2 DEF Pointed, Walking, Written, Writing
  <2> QED
    BY <1>2, <2>4, <2>5, <2>6 DEF Rounds
<1>3. ASSUME NEW d \in Dbs, NEW k \in Keys, Put(d, k) \/ Drop(d, k)
      PROVE  Rounds'
  BY <1>2, <1>3 DEF Put, Drop, saveVars
<1>4. CASE Crash
  BY <1>2, <1>4 DEF Crash
<1>5. CASE Start \/ Recover
  BY <1>2, <1>5 DEF Start, Recover, Rounds, saveVars, histVars
<1>6. CASE BeginSave
  <2>1. /\ pc = "serving" /\ pc' = "next" /\ at' = 0 /\ mem' = mem /\ cursor' = cursor
        /\ file' = file /\ quiet' = quiet
    BY <1>6 DEF BeginSave
  <2>2. Known(F, quiet, 0) => quiet >= 1
    BY <1>n DEF Known
  <2>3. Past' = Past /\ ~Writing'
    BY <2>1 DEF Past, Saving, Writing
  <2>4. quiet >= 0
    BY <2>1 DEF Rounds
  <2>5. Filed'
    BY <1>w, <2>1, <2>3, <2>4 DEF Filed
  <2>6. Pointed'
    BY <1>w, <2>1, <2>2, <2>4 DEF Ready, Pointed
  <2> QED
    BY <2>1, <2>3, <2>5, <2>6 DEF Rounds, Ready, Walking, Written
<1>7. CASE SaveNext
  <2>1. CASE pc' = "serving"
    BY <1>2, <1>7, <2>1 DEF SaveNext
  <2>2. CASE pc' # "serving"
    <3>1. /\ pc = "next" /\ pc' = "walk" /\ tmp' = <<>> /\ quiet' = quiet
          /\ at' \in F /\ at' >= at /\ \A n \in F : n >= at => at' =< n
          /\ mem' = mem /\ cursor' = cursor /\ file' = file
      BY <1>7, <2>2 DEF SaveNext, ToSave, Filled
    <3>2. at \in Nat /\ at' \in Nat
      BY <1>1, <3>1
    <3>3. \A n \in F : n < at' <=> n < at
      BY <1>n, <3>1, <3>2
    <3>4. Known(F, quiet, at') => Known(F, quiet, at)
      BY <3>3 DEF Known
    <3>5. \A e \in Dbs : Precedes(F, e, at') => Precedes(F, e, at)
      BY <1>n, <3>2, <3>3 DEF Precedes
    <3>6. Past' = at' /\ Past = at
      BY <3>1 DEF Past, Saving
    <3>7. \A d \in F : Settled(F, quiet, Past', d) => Settled(F, quiet, Past, d)
      BY <3>3, <3>6 DEF Settled
    <3>8. CASE quiet >= 0
      <4>1. ASSUME Known(F, quiet, at'), NEW e \in Dbs, Precedes(F, e, at')
            PROVE  Walked(cursor', tmp', mem[e])
        <5>1. cursor = Begin(mem[e]) /\ e \in F
          BY <1>w, <3>1, <3>4, <3>5, <3>8, <4>1 DEF Pointed, Precedes
        <5> QED  BY <3>1, <5>1, <1>1, WalkBegins
      <4>2. Walking'
        BY <3>1, <4>1 DEF Walking
      <4>3. Filed'
        BY <1>w, <3>1, <3>7, <3>8 DEF Filed
      <4> QED
        BY <3>1, <4>2, <4>3 DEF Rounds, Ready, Pointed, Written
    <3> QED
      BY <3>1, <3>8 DEF Rounds
  <2> QED  BY <2>1, <2>2
<1>8. CASE EndSave
  <2>1. /\ pc = "next" /\ pc' = "serving" /\ mem' = mem /\ cursor' = cursor
        /\ file' = file /\ at' = at
        /\ quiet' = (IF quiet < 2 THEN quiet + 1 ELSE quiet)
    BY <1>8 DEF EndSave, diskVars
  <2>2. \A n \in F : n < at
    <3>1. \A n \in Dbs : n >= at => mem[n] = <<>>
      BY <1>8 DEF EndSave, ToSave
    <3>2. \A n \in F : ~(n >= at)
      BY <3>1 DEF Filled
    <3>3. at \in Nat
      BY <1>1
    <3> QED  BY <1>n, <3>2, <3>3
  <2>3. quiet' >= 0 /\ (quiet' >= 1 => quiet >= 0)
    BY <1>q, <2>1
  <2>4. ASSUME NEW e \in Dbs, Precedes(F, e, 0)
        PROVE  Precedes(F, e, at) /\ Known(F, quiet, at)
    BY <1>n, <2>2, <2>4 DEF Precedes, Known
  <2>5. \A d \in F : Settled(F, quiet', 0, d) => quiet >= 0 /\ Settled(F, quiet, at, d)
    BY <1>q, <1>n, <2>1, <2>2 DEF Settled
  <2>6. Past' = 0 /\ Past = at /\ ~Writing'
    BY <2>1 DEF Past, Saving, Writing
  <2>7. Ready'
    BY <1>w, <2>1, <2>3, <2>4 DEF Ready, Pointed
  <2>8. Filed'
    BY <1>w, <2>1, <2>5, <2>6 DEF Filed
  <2> QED
    BY <2>1, <2>3, <2>6, <2>7, <2>8 DEF Rounds, Pointed, Walking, Written
<1>9. CASE WalkObject
  <2>1. /\ pc = "walk" /\ pc' = "walk" /\ mem' = mem /\ at' = at /\ file' = file
        /\ quiet' = quiet
    BY <1>9 DEF WalkObject, diskVars, histVars
  <2>2. CASE quiet >= 0
    <3>1. ASSUME Known(F, quiet, at), NEW e \in Dbs, Precedes(F, e, at)
          PROVE  Walked(cursor', tmp', mem[e])
      <4>1. Walked(cursor, tmp, mem[e])
        BY <1>w, <2>1, <2>2, <3>1 DEF Walking
      <4> QED  BY <4>1, <1>1, <1>9, WalkGoesOn
    <3>2. Walking'
      BY <2>1, <3>1 DEF Walking
    <3>3. Past' = Past /\ Writing' = Writing
      BY <2>1 DEF Past, Saving, Writing
    <3>4. Filed'
      BY <1>w, <2>1, <2>2, <3>3 DEF Filed
    <3> QED
      BY <1>w, <2>1, <2>2, <3>2, <3>3, <3>4 DEF Rounds, Ready, Pointed, Written
  <2> QED
    BY <2>1, <2>2 DEF Rounds
<1>10. CASE WalkEnd
  <2>1. /\ pc = "walk" /\ pc' = "remove" /\ mem' = mem /\ at' = at /\ file' = file
        /\ quiet' = quiet /\ tmp' = tmp /\ cursor' = Begin(mem[at])
        /\ Here.state = "end"
    BY <1>10 DEF WalkEnd, Rewound, diskVars, histVars
  <2>2. CASE quiet >= 0
    <3>1. ASSUME Known(F, quiet, at), NEW e \in Dbs, Precedes(F, e, at)
          PROVE  tmp = mem[e]
      <4>1. Walked(cursor, tmp, mem[e])
        BY <1>w, <2>1, <2>2, <3>1 DEF Walking
      <4> QED  BY <2>1, <4>1, WalkIsOver
    <3>2. Written'
      BY <2>1, <3>1 DEF Written
    <3>3. Past' = Past /\ Writing
      BY <2>1 DEF Past, Saving, Writing
    <3>4. Filed'
      BY <1>w, <2>1, <2>2, <3>3 DEF Filed
    <3> QED
      BY <1>w, <2>1, <2>2, <3>2, <3>3, <3>4 DEF Rounds, Ready, Pointed, Walking
  <2> QED
    BY <2>1, <2>2 DEF Rounds
<1>11. CASE WalkExpired
  BY <1>11 DEF WalkExpired, Rounds
<1>12. CASE WalkFreed
  <2>1. /\ pc = "walk" /\ pc' = "walk" /\ mem' = mem /\ at' = at /\ file' = file
        /\ quiet' = quiet /\ Here.state = "freed"
    BY <1>12 DEF WalkFreed, diskVars
  <2>2. CASE quiet >= 0
    <3>1. ASSUME Known(F, quiet, at), NEW e \in Dbs, Precedes(F, e, at)
          PROVE  FALSE
      <4>1. Walked(cursor, tmp, mem[e])
        BY <1>w, <2>1, <2>2, <3>1 DEF Walking
      <4> QED  BY <2>1, <4>1, WalkIsOver
    <3>2. Walking'
      BY <2>1, <3>1 DEF Walking
    <3>3. Past' = Past /\ Writing
      BY <2>1 DEF Past, Saving, Writing
    <3>4. Filed'
      BY <1>w, <2>1, <2>2, <3>3 DEF Filed
    <3> QED
      BY <1>w, <2>1, <2>2, <3>2, <3>3, <3>4 DEF Rounds, Ready, Pointed, Written
  <2> QED
    BY <2>1, <2>2 DEF Rounds
<1>13. CASE RemoveOld
  <2>1. /\ pc = "remove" /\ pc' = "rename" /\ mem' = mem /\ at' = at /\ tmp' = tmp
        /\ quiet' = quiet /\ cursor' = cursor
    BY <1>13 DEF RemoveOld, histVars
  <2>2. \A d \in F : d # at => file'[d] = file[d]
    BY <1>1, <1>13 DEF RemoveOld
  <2>3. CASE quiet >= 0
    <3>1. Written'
      BY <1>w, <2>1, <2>3 DEF Written
    <3>2. Past' = Past /\ Writing
      BY <2>1 DEF Past, Saving, Writing
    <3>3. Filed'
      BY <1>w, <2>1, <2>2, <2>3, <3>2 DEF Filed
    <3> QED
      BY <1>w, <2>1, <2>3, <3>1, <3>2, <3>3 DEF Rounds, Ready, Pointed, Walking
  <2> QED
    BY <2>1, <2>3 DEF Rounds
<1>14. CASE RenameTmp
  <2>1. /\ pc = "rename" /\ pc' = "next" /\ mem' = mem /\ at' = at + 1 /\ tmp' = tmp
        /\ quiet' = quiet /\ cursor' = cursor
    BY <1>14 DEF RenameTmp, histVars
  <2>2. at \in Dbs /\ Writing
    BY <1>1, <2>1 DEF Writing
  <2>3. file'[at] = tmp /\ \A d \in F : d # at => file'[d] = file[d]
    BY <1>1, <1>14, <2>2 DEF RenameTmp, Renamed
  <2>4. Past' = at + 1 /\ Past = at /\ ~Writing'
    BY <2>1 DEF Past, Saving, Writing
  <2>5. CASE quiet >= 0
    <3>1. at \in F /\ cursor = Begin(mem[at])
      BY <1>w, <2>1, <2>2, <2>5 DEF Written
    <3>2. \A e \in Dbs : Precedes(F, e, at + 1) => e = at
      BY <1>n, <3>1 DEF Precedes
    <3>3. Pointed'
      BY <2>1, <3>1, <3>2 DEF Pointed
    <3>4. ASSUME NEW d \in F, NEW e \in Dbs, Precedes(F, e, d),
                 Settled(F, quiet, Past', d)
          PROVE  file'[d] = mem[e]
      <4>1. CASE d = at
        <5>1. Known(F, quiet, at)
          BY <3>4, <4>1 DEF Settled, Known
        <5> QED  BY <1>w, <2>1, <2>3, <2>5, <3>4, <4>1, <5>1 DEF Written
      <4>2. CASE d # at
        <5>1. d \in Nat /\ at \in Nat /\ (d < at + 1 => d < at)
          BY <1>1, <1>n, <4>2
        <5>2. Settled(F, quiet, Past, d)
          BY <2>4, <3>4, <5>1 DEF Settled
        <5> QED  BY <1>w, <2>3, <2>5, <3>4, <4>2, <5>2 DEF Filed
      <4> QED  BY <4>1, <4>2
    <3>5. Filed'
      BY <2>1, <3>4 DEF Filed
    <3> QED
      BY <2>1, <2>4, <3>3, <3>5 DEF Rounds, Ready, Walking, Written
  <2> QED
    BY <2>1, <2>5 DEF Rounds
<1>15. CASE UNCHANGED vars \/ Tick
  BY <1>15 DEF vars, Tick, diskVars, saveVars, histVars, Rounds, Saving, Writing, Past,
               Ready, Pointed, Walking, Written, Filed
<1> QED
  BY <1>3, <1>4, <1>5, <1>6, <1>7, <1>8, <1>9, <1>10, <1>11, <1>12, <1>13,
     <1>14, <1>15 DEF Next

(* At first there is nothing to save. *)
LEMMA InitRounds == Init => Rounds
<1> SUFFICES ASSUME Init PROVE Rounds
  OBVIOUS
<1>1. pc = "serving" /\ quiet = 0 /\ Filled(mem) = {}
  BY DEF Init, Filled
<1> QED
  BY <1>1 DEF Rounds, Ready, Pointed, Walking, Written, Filed, Writing

(* A set of database numbers has a least member. *)
LEMMA FirstOf ==
  ASSUME NEW S \in SUBSET Nat, S # {}
  PROVE  \E d \in S : \A n \in S : n >= d
<1>1. PICK d \in S : \A n \in S : ~(<<n, d>> \in OpToRel(<, Nat))
  BY WFMin, NatLessThanWellFounded
<1>2. \A n \in S : ~(n < d)
  BY <1>1 DEF OpToRel
<1>3. \A n \in S : n \in Nat /\ d \in Nat
  OBVIOUS
<1> QED
  BY <1>2, <1>3

(* Some database is walked after e, maybe e itself. *)
LEMMA Followed ==
  ASSUME NEW F \in SUBSET Nat, NEW e \in F
  PROVE  \E d \in F : Precedes(F, e, d)
<1> DEFINE Above == {n \in F : n > e}
<1>1. CASE Above = {}
  <2>1. PICK d \in F : \A n \in F : n >= d
    BY FirstOf
  <2>2. \A n \in F : n =< e
    BY <1>1
  <2> QED  BY <2>1, <2>2 DEF Precedes
<1>2. CASE Above # {}
  <2>1. Above \in SUBSET Nat
    OBVIOUS
  <2>2. PICK d \in Above : \A n \in Above : n >= d
    BY <1>2, <2>1, FirstOf
  <2>3. d \in F /\ e < d
    BY <2>2
  <2>4. ASSUME NEW n \in F, n < d PROVE n =< e
    BY <2>2, <2>3, <2>4
  <2> QED  BY <2>3, <2>4 DEF Precedes
<1> QED  BY <1>1, <1>2

(* However the walks through the databases are shifted against each other,  *)
(* two saves of a memory that does not change put every object into some    *)
(* file, and all further saves leave it there or in the temporary file.     *)
THEOREM QuietMemoryIsOnDisk == Spec => []QuietMemoryOnDisk
<1>1. Shape /\ Rounds => QuietMemoryOnDisk
  <2> SUFFICES ASSUME Shape, Rounds, quiet = 2, NEW o \in InMemory
               PROVE  \/ \E d \in Dbs : file[d] # Absent /\ o \in ToSet(file[d])
                      \/ pc = "rename" /\ o \in ToSet(tmp)
    BY DEF QuietMemoryOnDisk
  <2> DEFINE F == Filled(mem)
  <2>1. PICK e \in Dbs : o \in ToSet(mem[e])
    BY DEF InMemory
  <2>2. mem[e] # Absent
    BY AbsentIsNoFile DEF Shape, MemOK
  <2>3. e \in F /\ F \in SUBSET Nat /\ F \subseteq Dbs
    <3>1. mem[e] # <<>>
      BY <2>1 DEF ToSet
    <3> QED  BY <3>1, SnapshotAssumption DEF Filled
  <2>4. PICK d \in F : Precedes(F, e, d)
    BY <2>3, Followed
  <2>5. Filed /\ Written
    BY DEF Rounds
  <2>6. Settled(F, quiet, Past, d)
    BY DEF Settled
  <2>7. CASE file[d] = mem[e]
    BY <2>1, <2>2, <2>3, <2>7
  <2>8. CASE pc = "rename" /\ d = at
    <3>1. Known(F, quiet, at)
      BY DEF Known
    <3>2. tmp = mem[e]
      BY <2>4, <2>5, <2>8, <3>1 DEF Written
    <3> QED  BY <2>1, <2>8, <3>2
  <2> QED
    BY <2>3, <2>4, <2>5, <2>6, <2>7, <2>8 DEF Filed
<1>2. Inv => Shape
  BY DEF Inv
<1> QED
  BY <1>1, <1>2, InitRounds, NextRounds, Invariance, PTL DEF Spec

-----------------------------------------------------------------------------

Text == Seq(Symbol)

(* s stands in t at i. *)
Sits(t, i, s) ==
  /\ i \in Nat \ {0} /\ i + Len(s) - 1 =< Len(t)
  /\ \A k \in 1..Len(s) : t[i + k - 1] = s[k]

(* A set of numbers has a least one. *)
LEMMA Least1 ==
  ASSUME NEW I, I \subseteq Nat, I # {}
  PROVE  Min(I) \in I /\ \A i \in I : Min(I) =< i
<1>1. \E m \in I : \A n \in I : ~(<<n, m>> \in OpToRel(<, Nat))
  BY WFMin, NatLessThanWellFounded
<1>2. PICK m \in I : \A n \in I : ~(n < m)
  BY <1>1 DEF OpToRel
<1>3. \A n \in I : m =< n
  BY <1>2
<1>4. \E x \in I : \A y \in I : x =< y
  BY <1>3
<1> QED  BY <1>4 DEF Min

LEMMA FindIn ==
  ASSUME NEW t \in Text, NEW p \in Text, p # <<>>
  PROVE  /\ Find(t, p) # 0 => /\ Sits(t, Find(t, p), p)
                              /\ \A i \in 1..(Find(t, p) - 1) : ~Sits(t, i, p)
         /\ Find(t, p) = 0 => \A i \in Nat : ~Sits(t, i, p)
         /\ Find(t, p) \in 0..Len(t)
<1> DEFINE I == {i \in 1..(Len(t) - Len(p) + 1) : Sits(t, i, p)}
<1>1. Len(t) \in Nat /\ Len(p) \in Nat \ {0} /\ DOMAIN t = 1..Len(t) /\ DOMAIN p = 1..Len(p)
  BY DEF Text
<1>2. \A i \in 1..(Len(t) - Len(p) + 1) : [j \in DOMAIN t |-> j][i] = i
  BY <1>1
<1> DEFINE J == {i \in 1..(Len(t) - Len(p) + 1) :
                  \A k \in DOMAIN p : t[[j \in DOMAIN t |-> j][i] + k - 1] = p[k]}
<1>6. Find(t, p) = IF J # {} THEN Min(J) ELSE 0
  BY DEF Find, SelectInSubSeq
<1>7. J = I
  <2>1. ASSUME NEW i \in 1..(Len(t) - Len(p) + 1) PROVE i \in J <=> i \in I
    <3>1. [j \in DOMAIN t |-> j][i] = i
      BY <1>2
    <3>2. i \in J <=> \A k \in DOMAIN p : t[i + k - 1] = p[k]
      BY <3>1
    <3>3. i \in I <=> \A k \in DOMAIN p : t[i + k - 1] = p[k]
      BY <1>1 DEF Sits
    <3> QED  BY <3>2, <3>3
  <2> QED  BY <2>1
<1>3. Find(t, p) = IF I # {} THEN Min(I) ELSE 0
  BY <1>6, <1>7
<1>4. \A i \in Nat : Sits(t, i, p) <=> i \in I
  BY <1>1 DEF Sits
<1>5. I # {} => Min(I) \in I /\ \A i \in I : Min(I) =< i
  <2> I \subseteq Nat  BY <1>1
  <2> HIDE DEF I
  <2> QED  BY Least1
<1> QED
  <2> \A i \in I : i \in 1..Len(t)  BY <1>1
  <2> HIDE DEF I
  <2> QED  BY <1>1, <1>3, <1>4, <1>5

LEMMA UntilIn ==
  ASSUME NEW t \in Text, NEW i \in Nat \ {0}, NEW c
  PROVE  /\ Until(t, i, c) # 0 => /\ Until(t, i, c) \in i..Len(t)
                                  /\ t[Until(t, i, c)] = c
                                  /\ \A j \in i..(Until(t, i, c) - 1) : t[j] # c
         /\ Until(t, i, c) = 0 => \A j \in i..Len(t) : t[j] # c
<1> DEFINE I == {j \in i..Len(t) : t[j] = c}
<1>1. Until(t, i, c) = IF I # {} THEN Min(I) ELSE 0
  BY DEF Until, SelectInSubSeq
<1>2. I # {} => Min(I) \in I /\ \A j \in I : Min(I) =< j
  <2> I \subseteq Nat  OBVIOUS
  <2> HIDE DEF I
  <2> QED  BY Least1
<1>3. \A j \in i..Len(t) : j \in I <=> t[j] = c
  OBVIOUS
<1>4. \A j \in I : j \in i..Len(t) /\ j # 0 /\ t[j] = c
  OBVIOUS
<1>5. Len(t) \in Nat
  BY DEF Text
<1> HIDE DEF I
<1>6. CASE I = {}
  BY <1>1, <1>3, <1>6
<1>7. CASE I # {}
  <2>1. \A j \in i..(Min(I) - 1) : j \in i..Len(t) /\ j \notin I
    BY <1>2, <1>4, <1>5, <1>7
  <2> QED  BY <1>1, <1>2, <1>3, <1>4, <1>7, <2>1
<1> QED
  BY <1>6, <1>7

LEMMA RestIs ==
  ASSUME NEW f \in Text, NEW q \in Nat \ {0}
  PROVE  /\ From(f, q) \in Text
         /\ Len(From(f, q)) = IF q =< Len(f) THEN Len(f) - q + 1 ELSE 0
         /\ \A k \in 1..Len(From(f, q)) : From(f, q)[k] = f[q + k - 1]
BY DEF From, Text

LEMMA SliceOfRest ==
  ASSUME NEW f \in Text, NEW q \in Nat \ {0}, NEW i \in Nat \ {0},
         NEW j \in Int, j =< Len(From(f, q))
  PROVE  SubSeq(From(f, q), i, j) = SubSeq(f, q + i - 1, q + j - 1)
<1>1. Len(f) \in Nat
  BY DEF Text
<1>2. CASE j < i
  BY <1>1, <1>2, SubSeqEmpty, RestIs
<1>3. CASE i =< j
  <2> DEFINE u == SubSeq(From(f, q), i, j)
             v == SubSeq(f, q + i - 1, q + j - 1)
  <2>1. u \in Text /\ Len(u) = j - i + 1
        /\ \A k \in 1..Len(u) : u[k] = From(f, q)[i + k - 1]
    BY <1>3, <1>1, RestIs DEF Text
  <2>2. v \in Text /\ Len(v) = j - i + 1
        /\ \A k \in 1..Len(v) : v[k] = f[q + i - 1 + k - 1]
    BY <1>3, <1>1, RestIs DEF Text
  <2>3. ASSUME NEW k \in 1..Len(u) PROVE u[k] = v[k]
    <3>1. i + k - 1 \in 1..Len(From(f, q))
      BY <2>1, <2>3
    <3>2. From(f, q)[i + k - 1] = f[q + (i + k - 1) - 1]
      BY <3>1, RestIs
    <3> QED  BY <2>1, <2>2, <2>3, <3>2
  <2> HIDE DEF u, v
  <2>4. u = v
    BY <2>1, <2>2, <2>3, SeqEqual DEF Text
  <2> QED  BY <2>4 DEF u, v
<1> QED  BY <1>2, <1>3

LEMMA RestOfRest ==
  ASSUME NEW f \in Text, NEW q \in Nat \ {0}, NEW i \in Nat \ {0}
  PROVE  From(From(f, q), i) = From(f, q + i - 1)
<1>1. Len(f) \in Nat /\ Len(From(f, q)) \in Nat
  BY RestIs DEF Text
<1>2. From(From(f, q), i) = SubSeq(f, q + i - 1, q + Len(From(f, q)) - 1)
  BY <1>1, SliceOfRest DEF From
<1>3. CASE q =< Len(f)
  BY <1>1, <1>2, <1>3, RestIs DEF From
<1>4. CASE q > Len(f)
  <2>1. Len(From(f, q)) = 0
    BY <1>1, <1>4, RestIs
  <2>2. SubSeq(f, q + i - 1, q + 0 - 1) = <<>>
    BY SubSeqEmpty
  <2>3. SubSeq(f, q + i - 1, Len(f)) = <<>>
    BY <1>1, <1>4, SubSeqEmpty
  <2> QED  BY <1>2, <2>1, <2>2, <2>3 DEF From
<1> QED  BY <1>1, <1>3, <1>4

LEMMA SitsRest ==
  ASSUME NEW f \in Text, NEW q \in Nat \ {0}, NEW i \in Nat \ {0},
         NEW p \in Text, p # <<>>
  PROVE  Sits(From(f, q), i, p) <=> Sits(f, q + i - 1, p)
<1> DEFINE r == From(f, q)
<1>1. Len(f) \in Nat /\ Len(r) \in Nat /\ Len(p) \in Nat \ {0}
  BY RestIs DEF Text
<1>2. \A k \in 1..Len(r) : r[k] = f[q + k - 1]
  BY RestIs
<1>3. i + Len(p) - 1 =< Len(r) <=> q + i - 1 + Len(p) - 1 =< Len(f)
  BY <1>1, RestIs
<1>4. ASSUME i + Len(p) - 1 =< Len(r), NEW k \in 1..Len(p)
      PROVE  r[i + k - 1] = f[q + i - 1 + k - 1]
  <2>1. i + k - 1 \in 1..Len(r)
    BY <1>1, <1>4
  <2>2. r[i + k - 1] = f[q + (i + k - 1) - 1]
    BY <1>2, <2>1
  <2> QED  BY <1>4, <1>1, <2>2
<1> HIDE DEF r
<1>5. Sits(r, i, p) <=> Sits(f, q + i - 1, p)
  BY <1>1, <1>3, <1>4 DEF Sits
<1> QED  BY <1>5 DEF r

LEMMA FindRest ==
  ASSUME NEW f \in Text, NEW q \in Nat \ {0}, NEW p \in Text, p # <<>>
  PROVE  LET m == Find(From(f, q), p) IN
         /\ m \in Nat
         /\ m # 0 => /\ Sits(f, q + m - 1, p)
                     /\ \A x \in q..(q + m - 2) : ~Sits(f, x, p)
         /\ m = 0 => \A x \in Nat : x >= q => ~Sits(f, x, p)
<1> DEFINE m == Find(From(f, q), p)
<1>1. m \in Nat
  BY FindIn, RestIs DEF Text
<1>2. ASSUME m # 0 PROVE Sits(f, q + m - 1, p)
  BY <1>1, <1>2, FindIn, SitsRest, RestIs
<1>3. ASSUME m # 0, NEW x \in q..(q + m - 2) PROVE ~Sits(f, x, p)
  <2>1. x - q + 1 \in 1..(m - 1)
    BY <1>1, <1>3
  <2>2. ~Sits(From(f, q), x - q + 1, p)
    BY <2>1, <1>3, FindIn, RestIs
  <2>3. q + (x - q + 1) - 1 = x
    BY <1>3
  <2>4. x - q + 1 \in Nat \ {0}
    BY <1>1, <1>3
  <2> QED  BY <2>2, <2>3, <2>4, SitsRest
<1>4. ASSUME m = 0, NEW x \in Nat, x >= q PROVE ~Sits(f, x, p)
  <2>1. x - q + 1 \in Nat \ {0}
    BY <1>4
  <2>2. ~Sits(From(f, q), x - q + 1, p)
    BY <2>1, <1>4, FindIn, RestIs
  <2>3. q + (x - q + 1) - 1 = x
    BY <1>4
  <2> QED  BY <2>1, <2>2, <2>3, SitsRest
<1> QED  BY <1>1, <1>2, <1>3, <1>4

(* What is found behind q is what stands there first. *)
LEMMA FoundHere ==
  ASSUME NEW f \in Text, NEW q \in Nat \ {0}, NEW p \in Text, p # <<>>,
         NEW a \in Nat, a >= q, Sits(f, a, p),
         \A x \in q..(a - 1) : ~Sits(f, x, p)
  PROVE  Find(From(f, q), p) = a - q + 1
<1> DEFINE m == Find(From(f, q), p)
<1>1. m \in Nat
      /\ (m # 0 => Sits(f, q + m - 1, p)
                   /\ \A x \in q..(q + m - 2) : ~Sits(f, x, p))
      /\ (m = 0 => \A x \in Nat : x >= q => ~Sits(f, x, p))
  BY FindRest
<1> HIDE DEF m
<1>2. m # 0
  BY <1>1
<1>3. q + m - 1 =< a
  BY <1>1, <1>2
<1>4. q + m - 1 >= a
  BY <1>1, <1>2
<1> QED  BY <1>1, <1>3, <1>4 DEF m

LEMMA UntilHere ==
  ASSUME NEW f \in Text, NEW q \in Nat \ {0}, NEW i \in Nat \ {0}, NEW c,
         NEW a \in Nat, q + i - 1 =< a, a =< Len(f), f[a] = c,
         \A x \in (q + i - 1)..(a - 1) : f[x] # c
  PROVE  Until(From(f, q), i, c) = a - q + 1
<1> DEFINE u == Until(From(f, q), i, c)
           r == From(f, q)
<1>1. r \in Text /\ Len(r) = Len(f) - q + 1 /\ Len(f) \in Nat
      /\ \A k \in 1..Len(r) : r[k] = f[q + k - 1]
  <2>1. Len(f) \in Nat  BY DEF Text
  <2> QED  BY <2>1, RestIs
<1>2. (u # 0 => u \in i..Len(r) /\ r[u] = c /\ \A j \in i..(u - 1) : r[j] # c)
      /\ (u = 0 => \A j \in i..Len(r) : r[j] # c)
  BY <1>1, UntilIn
<1> HIDE DEF u, r
<1>3. a - q + 1 \in i..Len(r) /\ r[a - q + 1] = c
  <2>1. a - q + 1 \in i..Len(r) /\ q + (a - q + 1) - 1 = a
    BY <1>1
  <2> QED  BY <1>1, <2>1
<1>4. u # 0 /\ u =< a - q + 1
  BY <1>2, <1>3, <1>1
<1>5. q + u - 1 \notin (q + i - 1)..(a - 1)
  <2>1. f[q + u - 1] = c
    <3>1. u \in 1..Len(r)
      BY <1>1, <1>2, <1>4
    <3> QED  BY <1>1, <1>2, <1>4, <3>1
  <2> QED  BY <2>1
<1>6. u \in i..Len(r)
  BY <1>2, <1>4
<1>7. u = a - q + 1
  BY <1>1, <1>4, <1>5, <1>6
<1> QED  BY <1>7 DEF u

LEMMA SliceIs ==
  ASSUME NEW f \in Text, NEW a \in Nat, NEW s \in Text, Sits(f, a, s)
  PROVE  SubSeq(f, a, a + Len(s) - 1) = s
<1>1. Len(f) \in Nat /\ Len(s) \in Nat /\ a \in Nat \ {0}
  BY DEF Text, Sits
<1>2. CASE Len(s) = 0
  BY <1>1, <1>2, SubSeqEmpty, EmptySeq DEF Text
<1>3. CASE Len(s) # 0
  <2> DEFINE u == SubSeq(f, a, a + Len(s) - 1)
  <2>1. u \in Text /\ Len(u) = Len(s)
        /\ \A k \in 1..Len(u) : u[k] = f[a + k - 1]
    BY <1>1, <1>3 DEF Sits, Text
  <2>2. \A k \in 1..Len(u) : u[k] = s[k]
    BY <2>1 DEF Sits
  <2> HIDE DEF u
  <2>3. u = s
    BY <2>1, <2>2, SeqEqual DEF Text
  <2> QED  BY <2>3 DEF u
<1> QED  BY <1>2, <1>3

LEMMA SitsConcat ==
  ASSUME NEW t \in Text, NEW s \in Text, NEW u \in Text, NEW i \in Nat \ {0}
  PROVE  /\ s \o u \in Text /\ Len(s \o u) = Len(s) + Len(u)
         /\ Len(s) \in Nat /\ Len(u) \in Nat
         /\ Sits(t, i, s \o u) => Sits(t, i, s) /\ Sits(t, i + Len(s), u)
         /\ Sits(t, i, s) /\ Sits(t, i + Len(s), u) => Sits(t, i, s \o u)
<1> DEFINE w == s \o u
<1>1. w \in Text /\ Len(w) = Len(s) + Len(u) /\ Len(s) \in Nat /\ Len(u) \in Nat
      /\ Len(t) \in Nat
  BY ConcatProperties DEF Text
<1>2. \A k \in 1..Len(s) + Len(u) : w[k] = IF k <= Len(s) THEN s[k] ELSE u[k - Len(s)]
  BY ConcatProperties DEF Text
<1> HIDE DEF w
<1>3. ASSUME Sits(t, i, w) PROVE Sits(t, i, s)
  BY <1>1, <1>2, <1>3 DEF Sits
<1>4. ASSUME Sits(t, i, w) PROVE Sits(t, i + Len(s), u)
  <2>1. ASSUME NEW k \in 1..Len(u) PROVE t[i + Len(s) + k - 1] = u[k]
    <3>1. Len(s) + k \in 1..Len(w) /\ ~(Len(s) + k <= Len(s)) /\ Len(s) + k - Len(s) = k
      BY <1>1
    <3>2. w[Len(s) + k] = u[k]
      BY <1>1, <1>2, <3>1
    <3>3. t[i + (Len(s) + k) - 1] = w[Len(s) + k]
      BY <1>4, <3>1 DEF Sits
    <3> QED  BY <1>1, <3>2, <3>3
  <2> QED  BY <1>1, <1>4, <2>1 DEF Sits
<1>5. ASSUME Sits(t, i, s), Sits(t, i + Len(s), u) PROVE Sits(t, i, w)
  <2>1. ASSUME NEW k \in 1..Len(w) PROVE t[i + k - 1] = w[k]
    <3>1. CASE k <= Len(s)
      BY <1>1, <1>2, <1>5, <3>1 DEF Sits
    <3>2. CASE ~(k <= Len(s))
      <4>1. k - Len(s) \in 1..Len(u) /\ i + Len(s) + (k - Len(s)) - 1 = i + k - 1
        BY <1>1, <3>2
      <4>2. t[i + Len(s) + (k - Len(s)) - 1] = u[k - Len(s)]
        BY <1>5, <4>1 DEF Sits
      <4> QED  BY <1>1, <1>2, <3>2, <4>1, <4>2
    <3> QED  BY <3>1, <3>2
  <2> QED  BY <1>1, <1>5, <2>1 DEF Sits
<1> QED  BY <1>1, <1>3, <1>4, <1>5 DEF w

LEMMA SitsFew ==
  ASSUME NEW t \in Text, NEW i \in Nat \ {0},
         NEW x \in Symbol, NEW y \in Symbol, NEW z \in Symbol
  PROVE  /\ Sits(t, i, <<x>>) <=> i =< Len(t) /\ t[i] = x
         /\ Sits(t, i, <<x, y>>) <=> i + 1 =< Len(t) /\ t[i] = x /\ t[i + 1] = y
         /\ Sits(t, i, <<x, y, z>>) <=>
              i + 2 =< Len(t) /\ t[i] = x /\ t[i + 1] = y /\ t[i + 2] = z
         /\ <<x>> \in Text /\ <<x, y>> \in Text /\ <<x, y, z>> \in Text
<1>1. Len(t) \in Nat
  BY DEF Text
<1>2. Sits(t, i, <<x>>) <=> i =< Len(t) /\ t[i] = x
  BY <1>1 DEF Sits
<1>3. Sits(t, i, <<x, y>>) <=> i + 1 =< Len(t) /\ t[i] = x /\ t[i + 1] = y
  <2>1. \A k \in 1..2 : k = 1 \/ k = 2
    OBVIOUS
  <2> QED  BY <1>1, <2>1 DEF Sits
<1>4. Sits(t, i, <<x, y, z>>) <=>
        i + 2 =< Len(t) /\ t[i] = x /\ t[i + 1] = y /\ t[i + 2] = z
  <2>1. \A k \in 1..3 : k = 1 \/ k = 2 \/ k = 3
    OBVIOUS
  <2> QED  BY <1>1, <2>1 DEF Sits
<1> QED  BY <1>2, <1>3, <1>4 DEF Text

(* What stands in a text stands in the longer text, and in what is cut out  *)
(* around it.                                                               *)
LEMMA SitsLonger ==
  ASSUME NEW t \in Text, NEW u \in Text, NEW i \in Nat, NEW s \in Text, Sits(t, i, s)
  PROVE  Sits(t \o u, i, s)
<1>1. t \o u \in Text /\ Len(t \o u) = Len(t) + Len(u) /\ Len(t) \in Nat /\ Len(u) \in Nat
      /\ Len(s) \in Nat
  BY ConcatProperties DEF Text
<1>2. \A k \in 1..Len(t) : (t \o u)[k] = t[k]
  BY ConcatProperties DEF Text
<1>3. ASSUME NEW k \in 1..Len(s) PROVE (t \o u)[i + k - 1] = s[k]
  <2>1. i + k - 1 \in 1..Len(t)
    BY <1>1 DEF Sits
  <2> QED  BY <1>2, <2>1 DEF Sits
<1>4. i \in Nat \ {0} /\ i + Len(s) - 1 =< Len(t \o u)
  BY <1>1 DEF Sits
<1> QED  BY <1>3, <1>4 DEF Sits

LEMMA SitsCut ==
  ASSUME NEW t \in Text, NEW i \in Nat, NEW s \in Text, Sits(t, i, s),
         NEW a \in Nat \ {0}, NEW b \in Nat, a =< i, i + Len(s) - 1 =< b, b =< Len(t)
  PROVE  Sits(SubSeq(t, a, b), i - a + 1, s)
<1>1. Len(t) \in Nat /\ Len(s) \in Nat /\ i \in Nat \ {0}
  BY DEF Text, Sits
<1> DEFINE u == SubSeq(t, a, b)
<1>2. CASE b < a
  <2>1. Len(s) = 0 /\ i = a /\ b = a - 1
    BY <1>1, <1>2
  <2>2. Len(u) = 0
    BY <1>2, SubSeqEmpty, EmptySeq
  <2> QED  BY <1>1, <2>1, <2>2 DEF Sits
<1>3. CASE a =< b
  <2>1. Len(u) = b - a + 1 /\ \A k \in 1..Len(u) : u[k] = t[a + k - 1]
    BY <1>1, <1>3 DEF Text
  <2> HIDE DEF u
  <2>2. ASSUME NEW k \in 1..Len(s) PROVE u[i - a + 1 + k - 1] = s[k]
    <3>1. i - a + 1 + k - 1 \in 1..Len(u) /\ a + (i - a + 1 + k - 1) - 1 = i + k - 1
      BY <1>1, <2>1
    <3>2. u[i - a + 1 + k - 1] = t[a + (i - a + 1 + k - 1) - 1]
      BY <2>1, <3>1
    <3> QED  BY <3>1, <3>2 DEF Sits
  <2>3. Sits(u, i - a + 1, s)
    BY <1>1, <2>1, <2>2 DEF Sits
  <2> QED  BY <2>3 DEF u
<1> QED  BY <1>2, <1>3

(* Induction up to n, and down from it. *)
LEMMA Climb ==
  ASSUME NEW S, NEW n \in Nat, 1 \in S, \A i \in 1..(n - 1) : i \in S => i + 1 \in S
  PROVE  1..n \subseteq S
<1> DEFINE I == {i \in 1..n : i \notin S}
<1>1. I \subseteq Nat
  OBVIOUS
<1>2. CASE I = {}
  BY <1>2
<1>3. CASE I # {}
  <2>1. Min(I) \in I /\ \A i \in I : Min(I) =< i
    <3> HIDE DEF I
    <3> QED  BY <1>1, <1>3, Least1
  <2>2. Min(I) \in 1..n /\ Min(I) \notin S /\ Min(I) # 1
    BY <2>1
  <2>3. Min(I) - 1 \in 1..(n - 1) /\ Min(I) - 1 \notin I
    BY <2>1, <2>2
  <2>4. Min(I) - 1 \in S /\ Min(I) - 1 + 1 = Min(I)
    BY <2>2, <2>3
  <2> QED  BY <2>2, <2>3, <2>4
<1> QED  BY <1>2, <1>3

LEMMA Descend ==
  ASSUME NEW S, NEW n \in Nat, n \in S, \A i \in 1..(n - 1) : i + 1 \in S => i \in S
  PROVE  1..n \subseteq S
<1> DEFINE T == {i \in 1..n : n - i + 1 \in S}
<1>1. n # 0 => 1 \in T
  OBVIOUS
<1>2. ASSUME NEW i \in 1..(n - 1), i \in T PROVE i + 1 \in T
  <2>1. n - i \in 1..(n - 1) /\ n - i + 1 \in S /\ n - (i + 1) + 1 = n - i
    BY <1>2
  <2> QED  BY <2>1
<1>3. n # 0 => 1..n \subseteq T
  <2> HIDE DEF T
  <2> QED  BY <1>1, <1>2, Climb
<1>4. ASSUME NEW j \in 1..n PROVE j \in S
  <2>1. n # 0 /\ n - j + 1 \in 1..n /\ n - (n - j + 1) + 1 = j
    BY <1>4
  <2>2. n - j + 1 \in T
    BY <1>3, <2>1
  <2> QED  BY <2>1, <2>2
<1> QED  BY <1>4

(* Every place between the first and the last of several is in one of the  *)
(* sections they bound.                                                    *)
LEMMA InSection ==
  ASSUME NEW n \in Nat, NEW start \in [1..(n + 1) -> Nat], NEW x \in Nat,
         start[1] =< x, x < start[n + 1]
  PROVE  \E i \in 1..n : start[i] =< x /\ x < start[i + 1]
<1> SUFFICES ASSUME \A i \in 1..n : start[i] =< x => start[i + 1] =< x
             PROVE  FALSE
  OBVIOUS
<1> DEFINE S == {i \in 1..(n + 1) : start[i] =< x}
<1>1. 1 \in S /\ \A i \in 1..(n + 1 - 1) : i \in S => i + 1 \in S
  OBVIOUS
<1>2. 1..(n + 1) \subseteq S
  <2> DEFINE N == n + 1
  <2>1. N \in Nat /\ 1 \in S /\ \A i \in 1..(N - 1) : i \in S => i + 1 \in S
    BY <1>1
  <2> HIDE DEF S, N
  <2>2. 1..N \subseteq S
    BY <2>1, Climb
  <2> QED  BY <2>2 DEF N
<1> QED  BY <1>2

(* h[i] is the first i texts of ss, up to m, one after the other. *)
Builds(h, ss, m) ==
  h = [i \in 1..m |-> IF i = 1 THEN ss[i] ELSE h[i - 1] \o ss[i]]

(* A text put together of others has each of them in its place. *)
LEMMA FlattenSits ==
  ASSUME NEW ss \in Seq(Text), NEW t \in Text, NEW a \in Nat \ {0}
  PROVE  /\ FlattenSeq(ss) \in Text
         /\ Sits(t, a, FlattenSeq(ss)) =>
              \E start \in [1..(Len(ss) + 1) -> Nat] :
                /\ start[1] = a /\ start[Len(ss) + 1] = a + Len(FlattenSeq(ss))
                /\ \A i \in 1..Len(ss) :
                     Sits(t, start[i], ss[i]) /\ start[i + 1] = start[i] + Len(ss[i])
<1> DEFINE n == Len(ss)
<1>1. n \in Nat /\ \A i \in 1..n : ss[i] \in Text /\ Len(ss[i]) \in Nat
  <2>1. \A i \in 1..n : ss[i] \in Text
    BY ElementOfSeq
  <2> QED  BY <2>1 DEF Text
<1>2. CASE n = 0
  <2>1. FlattenSeq(ss) = ss /\ ss = <<>>
    BY <1>2, EmptySeq DEF FlattenSeq
  <2>2. ss \in Text /\ Len(ss) = 0
    BY <1>2, <2>1, EmptySeq DEF Text
  <2> DEFINE start == [i \in 1..(Len(ss) + 1) |-> a]
  <2>3. start \in [1..(Len(ss) + 1) -> Nat] /\ start[1] = a /\ start[Len(ss) + 1] = a + Len(ss)
    BY <2>2
  <2>4. 1..Len(ss) = {}
    BY <2>2
  <2> HIDE DEF start
  <2> QED  BY <2>1, <2>2, <2>3, <2>4
<1>3. CASE n # 0
  <2>1. \E h : Builds(h, ss, n)
    <3> DEFINE S == {m \in 1..n : \E h : Builds(h, ss, m)}
    <3>1. 1 \in S
      <4>1. Builds([i \in 1..1 |-> ss[i]], ss, 1)
        BY DEF Builds
      <4> QED  BY <1>1, <1>3, <4>1
    <3>2. ASSUME NEW m \in 1..(n - 1), m \in S PROVE m + 1 \in S
      <4>1. PICK h : Builds(h, ss, m)
        BY <3>2
      <4> DEFINE g == [i \in 1..(m + 1) |->
                         IF i = m + 1 THEN h[m] \o ss[m + 1] ELSE h[i]]
      <4>2. \A i \in 1..(m + 1) :
              g[i] = IF i = 1 THEN ss[i] ELSE g[i - 1] \o ss[i]
        <5>1. \A i \in 1..m : h[i] = IF i = 1 THEN ss[i] ELSE h[i - 1] \o ss[i]
          BY <4>1 DEF Builds
        <5>2. \A i \in 1..m : g[i] = h[i]
          OBVIOUS
        <5>3. m + 1 # 1 /\ m \in 1..m /\ m + 1 \in 1..(m + 1) /\ m + 1 - 1 = m
          BY <1>1, <3>2
        <5>8. g[m + 1] = h[m] \o ss[m + 1]
          BY <5>3
        <5> HIDE DEF g
        <5>9. g[m] = h[m]
          BY <5>2, <5>3
        <5>4. g[m + 1] = g[m] \o ss[m + 1]
          BY <5>8, <5>9
        <5>5. \A i \in 1..m : i # 1 => i - 1 \in 1..m
          OBVIOUS
        <5>6. \A i \in 1..(m + 1) : i = m + 1 \/ i \in 1..m
          BY <1>1, <3>2
        <5>7. \A i \in 1..m : g[i] = IF i = 1 THEN ss[i] ELSE g[i - 1] \o ss[i]
          BY <5>1, <5>2, <5>5
        <5> SUFFICES ASSUME NEW i \in 1..(m + 1)
                     PROVE  g[i] = IF i = 1 THEN ss[i] ELSE g[i - 1] \o ss[i]
          OBVIOUS
        <5>10. CASE i = m + 1
          <6> DEFINE j == m + 1
          <6>1. j # 1 /\ j - 1 = m /\ g[j] = g[m] \o ss[j] /\ i = j
            BY <5>3, <5>4, <5>10
          <6> HIDE DEF j
          <6> QED  BY <6>1
        <5>11. CASE i \in 1..m
          BY <5>7, <5>11
        <5> QED  BY <5>6, <5>10, <5>11
      <4>3. g = [i \in 1..(m + 1) |-> g[i]]
        OBVIOUS
      <4>4. Builds(g, ss, m + 1)
        <5> HIDE DEF g
        <5> QED  BY <4>2, <4>3 DEF Builds
      <4> QED  BY <1>1, <3>2, <4>4
    <3>3. n \in S
      <4> HIDE DEF S
      <4>1. 1..n \subseteq S
        BY <1>1, <3>1, <3>2, Climb
      <4> QED  BY <1>1, <1>3, <4>1
    <3> QED  BY <3>3
  <2> DEFINE g == CHOOSE h : Builds(h, ss, n)
  <2>2. Builds(g, ss, n)
    BY <2>1
  <2> HIDE DEF g
  <2>3. FlattenSeq(ss) = g[n]
    BY <1>3 DEF FlattenSeq, Builds, g
  <2>4. g[1] = ss[1] /\ \A i \in 1..(n - 1) : g[i + 1] = g[i] \o ss[i + 1]
    <3> HIDE DEF g
    <3>1. \A i \in 1..n : g[i] = IF i = 1 THEN ss[i] ELSE g[i - 1] \o ss[i]
      BY <2>2 DEF Builds
    <3>2. 1 \in 1..n /\ \A i \in 1..(n - 1) :
            i + 1 \in 1..n /\ i + 1 # 1 /\ i + 1 - 1 = i
      BY <1>1, <1>3
    <3>3. g[1] = ss[1]
      BY <3>1, <3>2
    <3>4. ASSUME NEW i \in 1..(n - 1) PROVE g[i + 1] = g[i] \o ss[i + 1]
      <4>1. i + 1 \in 1..n /\ i + 1 # 1 /\ i + 1 - 1 = i
        BY <3>2
      <4> DEFINE j == i + 1
      <4>2. j \in 1..n /\ j # 1 /\ j - 1 = i
        BY <4>1
      <4> HIDE DEF j
      <4>3. g[j] = g[i] \o ss[j]
        BY <3>1, <4>2
      <4> QED  BY <4>3 DEF j
    <3> QED  BY <3>3, <3>4
  <2> HIDE DEF g
  <2>5. \A i \in 1..n : g[i] \in Text
    <3> DEFINE S == {i \in 1..n : g[i] \in Text}
    <3>1. 1 \in S
      BY <1>1, <1>3, <2>4
    <3>2. ASSUME NEW i \in 1..(n - 1), i \in S PROVE i + 1 \in S
      <4>3. i + 1 \in 1..n /\ g[i] \in Text
        BY <1>1, <3>2
      <4>4. ss[i + 1] \in Text
        BY <1>1, <4>3
      <4>1. g[i] \in Text /\ ss[i + 1] \in Text /\ g[i + 1] = g[i] \o ss[i + 1]
            /\ i + 1 \in 1..n
        BY <2>4, <4>3, <4>4
      <4> HIDE DEF S
      <4>2. g[i + 1] \in Text
        BY <4>1, SitsConcat
      <4> QED  BY <4>1, <4>2 DEF S
    <3>3. 1..n \subseteq S
      <4> HIDE DEF S
      <4> QED  BY <1>1, <3>1, <3>2, Climb
    <3> QED  BY <3>3
  <2>6. \A i \in 1..n : Len(g[i]) \in Nat
    BY <2>5 DEF Text
  <2>7. ASSUME Sits(t, a, g[n])
        PROVE  /\ \A i \in 1..n : Sits(t, a, g[i])
               /\ \A i \in 1..(n - 1) : Sits(t, a + Len(g[i]), ss[i + 1])
    <3> DEFINE S == {i \in 1..n : Sits(t, a, g[i])}
    <3>1. \A i \in 1..(n - 1) : i \in 1..n /\ i + 1 \in 1..n
      BY <1>1
    <3>2. ASSUME NEW i \in 1..(n - 1), Sits(t, a, g[i + 1])
          PROVE  Sits(t, a, g[i]) /\ Sits(t, a + Len(g[i]), ss[i + 1])
      <4>2. i \in 1..n /\ i + 1 \in 1..n
        BY <3>1
      <4>1. g[i] \in Text /\ ss[i + 1] \in Text /\ g[i + 1] = g[i] \o ss[i + 1]
        BY <1>1, <2>4, <2>5, <4>2
      <4>3. Sits(t, a, g[i] \o ss[i + 1])
        BY <3>2, <4>1
      <4> QED  BY <4>1, <4>3, SitsConcat
    <3>3. n \in S
      BY <1>1, <1>3, <2>7
    <3>4. 1..n \subseteq S
      <4>1. \A i \in 1..(n - 1) : i + 1 \in S => i \in S
        BY <3>1, <3>2
      <4> HIDE DEF S
      <4> QED  BY <1>1, <3>3, <4>1, Descend
    <3>5. \A i \in 1..n : Sits(t, a, g[i])
      BY <3>4
    <3>6. ASSUME NEW i \in 1..(n - 1) PROVE Sits(t, a + Len(g[i]), ss[i + 1])
      <4>1. i + 1 \in 1..n
        BY <3>1
      <4> QED  BY <3>2, <3>5, <4>1
    <3> QED  BY <3>5, <3>6
  <2>8. ASSUME Sits(t, a, g[n])
        PROVE  \E start \in [1..(n + 1) -> Nat] :
                 /\ start[1] = a /\ start[n + 1] = a + Len(g[n])
                 /\ \A i \in 1..n : Sits(t, start[i], ss[i]) /\ start[i + 1] = start[i] + Len(ss[i])
    <3> DEFINE start == [i \in 1..(n + 1) |-> IF i = 1 THEN a ELSE a + Len(g[i - 1])]
    <3>1. start \in [1..(n + 1) -> Nat]
      BY <1>1, <2>6
    <3>2. start[1] = a /\ \A i \in 1..n : start[i + 1] = a + Len(g[i])
      BY <1>1
    <3> HIDE DEF start
    <3>3. Sits(t, start[1], ss[1]) /\ start[1 + 1] = start[1] + Len(ss[1])
      <4>1. 1 \in 1..n
        BY <1>1, <1>3
      <4>2. Sits(t, a, g[1])
        BY <2>7, <2>8, <4>1
      <4>3. start[1 + 1] = a + Len(g[1])
        BY <3>2, <4>1
      <4> QED  BY <2>4, <3>2, <4>2, <4>3
    <3>4. ASSUME NEW i \in 1..(n - 1)
          PROVE  Sits(t, start[i + 1], ss[i + 1]) /\ start[i + 1 + 1] = start[i + 1] + Len(ss[i + 1])
      <4>1. i \in 1..n /\ i + 1 \in 1..n
        BY <1>1, <3>4
      <4>2. Len(g[i + 1]) = Len(g[i]) + Len(ss[i + 1])
        <5>1. g[i] \in Text /\ ss[i + 1] \in Text /\ g[i + 1] = g[i] \o ss[i + 1]
          BY <1>1, <2>4, <2>5, <3>4, <4>1
        <5> QED  BY <5>1, SitsConcat
      <4>3. start[i + 1] = a + Len(g[i]) /\ start[i + 1 + 1] = a + Len(g[i + 1])
        BY <3>2, <4>1
      <4>4. Sits(t, a + Len(g[i]), ss[i + 1])
        BY <2>7, <2>8, <3>4
      <4>5. Len(g[i]) \in Nat /\ Len(ss[i + 1]) \in Nat
        BY <1>1, <2>6, <4>1
      <4> DEFINE j == i + 1
      <4>6. /\ Len(g[j]) = Len(g[i]) + Len(ss[j]) /\ start[j] = a + Len(g[i])
            /\ start[j + 1] = a + Len(g[j]) /\ Sits(t, a + Len(g[i]), ss[j])
            /\ Len(ss[j]) \in Nat
        BY <4>2, <4>3, <4>4, <4>5
      <4> HIDE DEF j
      <4>7. Sits(t, start[j], ss[j]) /\ start[j + 1] = start[j] + Len(ss[j])
        <5>1. start[j + 1] = start[j] + Len(ss[j])
          <6>1. \A x, y \in Nat : a + (x + y) = (a + x) + y
            OBVIOUS
          <6> QED  BY <4>5, <4>6, <6>1, Zenon
        <5>2. Sits(t, start[j], ss[j])
          BY <4>6, Zenon
        <5> QED  BY <5>1, <5>2
      <4> QED  BY <4>7 DEF j
    <3>5. \A i \in 1..n : i = 1 \/ (i - 1 \in 1..(n - 1) /\ i - 1 + 1 = i)
      BY <1>1
    <3>6. ASSUME NEW i \in 1..n
          PROVE  Sits(t, start[i], ss[i]) /\ start[i + 1] = start[i] + Len(ss[i])
      <4>1. CASE i = 1
        BY <3>3, <4>1
      <4>2. CASE i - 1 \in 1..(n - 1) /\ i - 1 + 1 = i
        <5> DEFINE j == i - 1
        <5>1. j \in 1..(n - 1) /\ j + 1 = i
          BY <4>2
        <5> HIDE DEF j
        <5> QED  BY <3>4, <5>1
      <4> QED  BY <3>5, <4>1, <4>2
    <3>7. n \in 1..n
      BY <1>1, <1>3
    <3> QED  BY <3>1, <3>2, <3>6, <3>7
  <2>9. g[n] \in Text
    <3>1. n \in 1..n
      BY <1>1, <1>3
    <3> QED  BY <2>5, <3>1
  <2>10. Sits(t, a, FlattenSeq(ss)) =>
           \E start \in [1..(n + 1) -> Nat] :
             /\ start[1] = a /\ start[n + 1] = a + Len(FlattenSeq(ss))
             /\ \A i \in 1..n : Sits(t, start[i], ss[i]) /\ start[i + 1] = start[i] + Len(ss[i])
    BY <2>3, <2>8
  <2> QED  BY <2>3, <2>9, <2>10
<1> QED  BY <1>2, <1>3

-----------------------------------------------------------------------------
(* The symbols. *)
LEMMA SymbolIs ==
  /\ \A c \in Int : Ch(c) \in Symbol /\ Dec(c) \in Symbol /\ AsInt8(c) \in Symbol
  /\ {Nul, LF, CR, Dollar, Colon, E, RedisTag, IdTag, CtpTag, EcTag, YcTag, XcTag} \subseteq Symbol
  /\ Run \in Symbol /\ Rep \in Symbol /\ Lzf \in Symbol /\ Wild \in Symbol /\ Junk \in Symbol
BY DEF Symbol, Kinds, Ch, Dec, AsInt8, Nul, LF, CR, Dollar, Colon, E, RedisTag, IdTag,
       CtpTag, EcTag, YcTag, XcTag, Run, Rep, Lzf, Wild, Junk

LEMMA SymbolFields ==
  ASSUME NEW s \in Symbol
  PROVE  s[1] \in Kinds /\ s[2] \in Int
BY DEF Symbol

LEMMA MarksText ==
  /\ Eol \in Text /\ Closing \in Text /\ Expiry \in Text
  /\ Len(Eol) = 2 /\ Len(Closing) = 3 /\ Len(Expiry) = 2
  /\ Eol # <<>> /\ Closing # <<>> /\ Expiry # <<>>
BY SymbolIs DEF Eol, Closing, Expiry, Text

LEMMA AtoIType ==
  ASSUME NEW v \in Text
  PROVE  AtoI(v) \in Int
BY SymbolFields DEF AtoI, Text

LEMMA SizeType ==
  ASSUME NEW v \in Text
  PROVE  Size(v) \in Int
<1>1. Len(SelectSeq(v, LAMBDA s : s[1] = "run")) \in Nat /\ Len(v) \in Nat
  BY DEF Text
<1> QED  BY <1>1 DEF Size

LEMMA ObjectType ==
  ASSUME NEW o \in Objects
  PROVE  /\ o.type \in Int /\ o.end \in Int /\ o.key \in Text
         /\ o.vals \in Seq(Text) /\ Len(o.vals) \in Nat
         /\ DOMAIN o.vals = 1..Len(o.vals)
         /\ \A i \in 1..Len(o.vals) : o.vals[i] \in Text /\ o.vals[i] \in Seq(Letter)
         /\ o.key \in Seq(Letter)
<1>1. o \in [type : Int, key : Seq(Letter), end : Int, vals : Seq(Seq(Letter))]
  BY ObjectsAssumption
<1>2. Letter \subseteq Symbol
  BY DEF Letter
<1>3. Seq(Letter) \subseteq Text /\ Seq(Seq(Letter)) \subseteq Seq(Text)
  BY <1>2 DEF Text
<1>4. o.vals \in Seq(Seq(Letter)) /\ o.vals \in Seq(Text)
  BY <1>1, <1>3
<1>5. Len(o.vals) \in Nat /\ DOMAIN o.vals = 1..Len(o.vals)
  BY <1>4
<1>6. \A i \in 1..Len(o.vals) : o.vals[i] \in Seq(Letter)
  BY <1>4, ElementOfSeq
<1> QED  BY <1>1, <1>3, <1>4, <1>5, <1>6

LEMMA Short ==
  ASSUME NEW x \in Symbol, NEW y \in Symbol, NEW z \in Symbol
  PROVE  /\ <<x>> \in Text /\ <<x, y>> \in Text /\ <<x, y, z>> \in Text
         /\ Len(<<x>>) = 1 /\ Len(<<x, y>>) = 2 /\ Len(<<x, y, z>>) = 3
BY DEF Text

LEMMA Joined ==
  ASSUME NEW s \in Text, NEW u \in Text
  PROVE  s \o u \in Text
BY DEF Text

(* What save writes, case by case. *)
LEMMA TypesDiffer ==
  StringType # HashType /\ StringType # ListType /\ HashType # ListType
BY DEF StringType, HashType, ListType

Leader(o) == Expiry \o <<Dec(o.end)>> \o Eol
TypeLine(o) == <<CtpTag, Dec(o.type)>> \o Eol

LEMMA WrittenIs ==
  ASSUME NEW o, NEW w \in WrittenAs(o)
  PROVE  \/ /\ o.type = StringType
            /\ \E s \in processString(o.key, o.vals[1]) : w = Leader(o) \o TypeLine(o) \o s
         \/ /\ o.type = HashType
            /\ w = Leader(o) \o TypeLine(o) \o processHash(o.key, o.vals)
         \/ /\ o.type = ListType
            /\ w = Leader(o) \o TypeLine(o) \o processList(o.key, o.vals)
         \/ /\ o.type \notin {StringType, HashType, ListType}
            /\ w = Leader(o)
<1>1. CASE o.type = StringType
  BY <1>1, TypesDiffer, Zenon DEF WrittenAs, Leader, TypeLine
<1>2. CASE o.type = HashType
  BY <1>2, TypesDiffer, Zenon DEF WrittenAs, Leader, TypeLine
<1>3. CASE o.type = ListType
  BY <1>3, TypesDiffer, Zenon DEF WrittenAs, Leader, TypeLine
<1>4. CASE o.type \notin {StringType, HashType, ListType}
  BY <1>4, Zenon DEF WrittenAs, Leader, TypeLine
<1> QED  BY <1>1, <1>2, <1>3, <1>4

(* A string that save writes behind the type of its object. *)
LEMMA StringIs ==
  ASSUME NEW key, NEW v, NEW s \in processString(key, v)
  PROVE  LET type == getStringEncodingType(v) IN
         \/ /\ type = EncodingInt8
            /\ s = <<EcTag, Dec(EncodingInt)>> \o Eol \o key \o <<Colon, AsInt8(AtoI(v))>> \o Closing
         \/ /\ type = EncodingInt16
            /\ s = <<EcTag, Dec(EncodingInt)>> \o Eol \o key \o <<Colon, Dec(AtoI(v))>> \o Closing
         \/ /\ type = EncodingInt32
            /\ s = <<EcTag, Dec(EncodingInt8)>> \o Eol \o key \o <<Colon, Dec(AtoI(v))>> \o Closing
         \/ /\ type = EncodingRaw /\ Size(v) =< 20
            /\ s = <<EcTag, Dec(EncodingRaw)>> \o Eol \o <<YcTag, Dec(Size(v))>> \o Eol
                  \o key \o <<Colon>> \o v \o Closing
         \/ /\ type = EncodingRaw /\ ~(Size(v) =< 20)
            /\ \E c \in Compressions(v) :
                 s = <<EcTag, Dec(EncodingRaw)>> \o Eol \o <<YcTag, Dec(Size(v))>> \o Eol
                     \o <<XcTag, Dec(c[1])>> \o Eol
                     \o key \o <<Colon>> \o c[2] \o Closing
<1> DEFINE type == getStringEncodingType(v)
           A == <<EcTag, Dec(EncodingInt)>> \o Eol \o key \o <<Colon, AsInt8(AtoI(v))>> \o Closing
           B == <<EcTag, Dec(EncodingInt)>> \o Eol \o key \o <<Colon, Dec(AtoI(v))>> \o Closing
           C == <<EcTag, Dec(EncodingInt8)>> \o Eol \o key \o <<Colon, Dec(AtoI(v))>> \o Closing
           D == <<EcTag, Dec(EncodingRaw)>> \o Eol \o <<YcTag, Dec(Size(v))>> \o Eol
                  \o key \o <<Colon>> \o v \o Closing
           F(c) == <<EcTag, Dec(EncodingRaw)>> \o Eol \o <<YcTag, Dec(Size(v))>> \o Eol
                     \o <<XcTag, Dec(c[1])>> \o Eol
                     \o key \o <<Colon>> \o c[2] \o Closing
<1>1. /\ EncodingInt8 # EncodingInt16 /\ EncodingInt8 # EncodingInt32
      /\ EncodingInt8 # EncodingRaw /\ EncodingInt16 # EncodingInt32
      /\ EncodingInt16 # EncodingRaw /\ EncodingInt32 # EncodingRaw
  BY DEF EncodingInt8, EncodingInt16, EncodingInt32, EncodingRaw
<1>2. type \in {EncodingInt8, EncodingInt16, EncodingInt32, EncodingRaw}
  BY DEF getStringEncodingType
<1> HIDE DEF type
<1>3. CASE type = EncodingInt8
  <2>1. processString(key, v) = {A}
    BY <1>1, <1>3, Zenon DEF processString, type
  <2> QED  BY <1>3, <2>1, Zenon DEF type
<1>4. CASE type = EncodingInt16
  <2>1. processString(key, v) = {B}
    BY <1>1, <1>4, Zenon DEF processString, type
  <2> QED  BY <1>4, <2>1, Zenon DEF type
<1>5. CASE type = EncodingInt32
  <2>1. processString(key, v) = {C}
    BY <1>1, <1>5, Zenon DEF processString, type
  <2> QED  BY <1>5, <2>1, Zenon DEF type
<1>6. CASE type = EncodingRaw /\ Size(v) =< 20
  <2>1. processString(key, v) = {D}
    BY <1>1, <1>6, Zenon DEF processString, type
  <2> QED  BY <1>6, <2>1, Zenon DEF type
<1>7. CASE type = EncodingRaw /\ ~(Size(v) =< 20)
  <2>1. processString(key, v) = {F(c) : c \in Compressions(v)}
    BY <1>1, <1>7, Zenon DEF processString, type
  <2> QED  BY <1>7, <2>1, Zenon DEF type
<1> QED  BY <1>2, <1>3, <1>4, <1>5, <1>6, <1>7, Zenon

(* What a compressed text leaves. *)
Packed == {<<Lzf>>, <<Wild>>}

LEMMA CompressionIs ==
  ASSUME NEW v, NEW c \in Compressions(v)
  PROVE  \/ c[1] = Size(v) /\ c[2] = v
         \/ c[1] = Size(v) - 4 /\ c[2] \in Packed /\ Rep \in ToSet(v)
<1>1. CASE c = <<Size(v), v>>
  BY <1>1
<1>2. CASE c # <<Size(v), v>>
  <2>1. Rep \in ToSet(v) /\ c \in {Size(v) - 4} \X {<<Lzf>>, <<Wild>>}
    BY <1>2 DEF Compressions
  <2> QED  BY <2>1 DEF Packed
<1> QED  BY <1>1, <1>2

LEMMA PackedText ==
  ASSUME NEW u \in Packed
  PROVE  u \in Text /\ Len(u) = 1 /\ (u[1] = Lzf \/ u[1] = Wild)
<1>1. /\ <<Lzf>> \in Text /\ Len(<<Lzf>>) = 1 /\ <<Lzf>>[1] = Lzf
      /\ <<Wild>> \in Text /\ Len(<<Wild>>) = 1 /\ <<Wild>>[1] = Wild
  BY SymbolIs, Short
<1> QED  BY <1>1 DEF Packed

(* What stands for a string behind its type, and what stands for a value. *)
LEMMA StringText ==
  ASSUME NEW key \in Text, NEW v \in Text, NEW s \in processString(key, v)
  PROVE  s \in Text
<1>1. AtoI(v) \in Int /\ Size(v) \in Int
  BY AtoIType, SizeType
<1>3. EncodingInt \in Int /\ EncodingInt8 \in Int /\ EncodingRaw \in Int
  BY DEF EncodingInt, EncodingInt8, EncodingRaw
<1>2. \A e \in Int : <<EcTag, Dec(e)>> \o Eol \in Text
  BY SymbolIs, Short, Joined, MarksText
<1>4. \A t \in Text, y \in Symbol : t \o key \o <<Colon, y>> \o Closing \in Text
  BY SymbolIs, Short, Joined, MarksText
<1>5. \A t, y \in Text : t \o key \o <<Colon>> \o y \o Closing \in Text
  BY SymbolIs, Short, Joined, MarksText
<1>6. \A c \in Compressions(v) : c[1] \in Int /\ c[2] \in Text
  <2>1. Size(v) - 4 \in Int
    BY <1>1
  <2> QED  BY <1>1, <2>1, CompressionIs, PackedText
<1>7. \A t \in Text, e \in Int : /\ t \o <<YcTag, Dec(e)>> \o Eol \in Text
                               /\ t \o <<XcTag, Dec(e)>> \o Eol \in Text
  BY SymbolIs, Short, Joined, MarksText
<1>8. CASE s = <<EcTag, Dec(EncodingInt)>> \o Eol \o key \o <<Colon, AsInt8(AtoI(v))>> \o Closing
  BY <1>1, <1>2, <1>3, <1>4, <1>8, SymbolIs
<1>9. CASE s = <<EcTag, Dec(EncodingInt)>> \o Eol \o key \o <<Colon, Dec(AtoI(v))>> \o Closing
  BY <1>1, <1>2, <1>3, <1>4, <1>9, SymbolIs
<1>10. CASE s = <<EcTag, Dec(EncodingInt8)>> \o Eol \o key \o <<Colon, Dec(AtoI(v))>> \o Closing
  BY <1>1, <1>2, <1>3, <1>4, <1>10, SymbolIs
<1>11. CASE s = <<EcTag, Dec(EncodingRaw)>> \o Eol \o <<YcTag, Dec(Size(v))>> \o Eol
                  \o key \o <<Colon>> \o v \o Closing
  BY <1>1, <1>2, <1>3, <1>5, <1>7, <1>11
<1>12. ASSUME NEW c \in Compressions(v),
              s = <<EcTag, Dec(EncodingRaw)>> \o Eol \o <<YcTag, Dec(Size(v))>> \o Eol
                     \o <<XcTag, Dec(c[1])>> \o Eol
                     \o key \o <<Colon>> \o c[2] \o Closing
       PROVE  s \in Text
  BY <1>1, <1>2, <1>3, <1>5, <1>6, <1>7, <1>12
<1> QED  BY <1>8, <1>9, <1>10, <1>11, <1>12, StringIs, Zenon

(* The words of a hash or of a list, each with its end. *)
HashWords(vals) == [i \in DOMAIN vals |-> vals[i] \o IF i % 2 = 1 THEN <<Colon>> ELSE Eol]
ListWords(vals) == [i \in DOMAIN vals |-> vals[i] \o Eol]

LEMMA WordsText ==
  ASSUME NEW vals \in Seq(Text)
  PROVE  /\ HashWords(vals) \in Seq(Text) /\ Len(HashWords(vals)) = Len(vals)
         /\ ListWords(vals) \in Seq(Text) /\ Len(ListWords(vals)) = Len(vals)
<1>1. Len(vals) \in Nat /\ DOMAIN vals = 1..Len(vals)
      /\ \A i \in 1..Len(vals) : vals[i] \in Text
  BY ElementOfSeq
<1>2. <<Colon>> \in Text /\ Eol \in Text
  BY SymbolIs, Short, MarksText
<1>3. \A i \in 1..Len(vals) : /\ vals[i] \o <<Colon>> \in Text
                              /\ vals[i] \o Eol \in Text
  BY <1>1, <1>2, Joined
<1> HIDE DEF Text
<1>4. HashWords(vals) \in [1..Len(vals) -> Text]
  BY <1>1, <1>3 DEF HashWords
<1>5. ListWords(vals) \in [1..Len(vals) -> Text]
  BY <1>1, <1>3 DEF ListWords
<1> QED  BY <1>1, <1>4, <1>5

LEMMA WrittenText ==
  ASSUME NEW o \in Objects, NEW w \in WrittenAs(o)
  PROVE  w \in Text
<1> DEFINE head == Leader(o)
           tag == TypeLine(o)
<1>1. head \in Text /\ tag \in Text
  BY ObjectType, SymbolIs, Short, Joined, MarksText DEF Leader, TypeLine
<1> HIDE DEF head, tag
<1>2. CASE o.type = StringType
  <2>1. Len(o.vals) = 1
    BY <1>2, ObjectsAssumption
  <2>2. o.vals[1] \in Text /\ o.key \in Text
    BY <2>1, ObjectType
  <2>3. PICK s \in processString(o.key, o.vals[1]) : w = head \o tag \o s
    BY <1>2, WrittenIs, TypesDiffer, Zenon DEF head, tag
  <2> QED  BY <1>1, <2>2, <2>3, StringText, Joined
<1>3. CASE o.type = HashType
  <2>1. w = head \o tag \o (o.key \o Eol \o FlattenSeq(HashWords(o.vals)) \o Closing)
    BY <1>3, WrittenIs, TypesDiffer, Zenon DEF processHash, HashWords, head, tag
  <2>2. FlattenSeq(HashWords(o.vals)) \in Text
    <3>1. HashWords(o.vals) \in Seq(Text) /\ <<CR>> \in Text
      BY ObjectType, WordsText, SymbolIs, Short
    <3> QED  BY <3>1, FlattenSits
  <2> QED  BY <1>1, <2>1, <2>2, ObjectType, Joined, MarksText
<1>4. CASE o.type = ListType
  <2>1. w = head \o tag \o (o.key \o Eol \o FlattenSeq(ListWords(o.vals)) \o Closing)
    BY <1>4, WrittenIs, TypesDiffer, Zenon DEF processList, ListWords, head, tag
  <2>2. FlattenSeq(ListWords(o.vals)) \in Text
    <3>1. ListWords(o.vals) \in Seq(Text) /\ <<CR>> \in Text
      BY ObjectType, WordsText, SymbolIs, Short
    <3> QED  BY <3>1, FlattenSits
  <2> QED  BY <1>1, <2>1, <2>2, ObjectType, Joined, MarksText
<1>5. CASE o.type \notin {StringType, HashType, ListType}
  <2>1. w = head
    BY <1>5, WrittenIs DEF head
  <2> QED  BY <1>1, <2>1
<1> QED  BY <1>2, <1>3, <1>4, <1>5

-----------------------------------------------------------------------------
(* Types. *)
TypeInv ==
  /\ saved \in Seq(Objects) /\ Len(saved) =< MaxObjects
  /\ text \in Text
  /\ stage \in {"write", "time", "type", "object", "fields", "values",
                "done", "aborted", "astray", "killed", "overrun"}
  /\ got \in [type : Int, key : Text, end : Int, vals : Seq(Text)]
  /\ stage \in {"type", "object"} => got.vals = <<>>
  /\ stage = "fields" => got.type = HashType /\ Len(got.vals) % 2 = 0
  /\ stage = "values" => got.type = ListType
  /\ \A o \in db : IsObject(o) /\ o.type \in StringType..ListType
  /\ \A o, p \in db : SamePlace(o, p) => o = p

LEMMA SliceText ==
  ASSUME NEW t \in Text, NEW i \in Nat \ {0}, NEW j \in Int, j =< Len(t)
  PROVE  SubSeq(t, i, j) \in Text
<1>1. Len(t) \in Nat
  BY DEF Text
<1>2. CASE j < i
  BY <1>2, SubSeqEmpty DEF Text
<1>3. CASE i =< j
  BY <1>1, <1>3 DEF Text
<1> QED  BY <1>1, <1>2, <1>3

LEMMA FromText ==
  ASSUME NEW t \in Text, NEW i \in Nat \ {0}
  PROVE  From(t, i) \in Text
BY RestIs

LEMMA UntilType ==
  ASSUME NEW t \in Text, NEW i \in Nat \ {0}, NEW c
  PROVE  Until(t, i, c) \in 0..Len(t)
<1>1. Len(t) \in Nat
  BY DEF Text
<1> QED  BY <1>1, UntilIn

LEMMA LineText ==
  ASSUME NEW t \in Text, NEW i \in Nat \ {0}
  PROVE  Line(t, i) \in Text
<1>1. Until(t, i, CR) - 1 \in Int /\ Until(t, i, CR) - 1 =< Len(t)
  <2>1. Len(t) \in Nat
    BY DEF Text
  <2> QED  BY <2>1, UntilType
<1> QED  BY <1>1, SliceText DEF Line

LEMMA TagFind ==
  ASSUME NEW t \in Text, NEW s \in Symbol
  PROVE  Find(t, <<s>>) \in Nat /\ PastTag(t, s) \in Text
<1>1. <<s>> \in Text /\ <<s>> # <<>> /\ Len(t) \in Nat
  BY Short DEF Text
<1>2. Find(t, <<s>>) \in 0..Len(t)
  BY <1>1, FindIn
<1>3. Find(t, <<s>>) \in Nat /\ Find(t, <<s>>) + 1 \in Nat \ {0}
  BY <1>1, <1>2
<1> QED  BY <1>3, FromText DEF PastTag

(* The database takes an object of its kind in, if at all. *)
LEMMA AddKeepsTypes ==
  ASSUME TypeInv, NEW o, AddObject(o), IsObject(o), o.type \in StringType..ListType,
         text' \in Text
  PROVE  TypeInv'
<1>1. got' \in [type : Int, key : Text, end : Int, vals : Seq(Text)]
  BY DEF AddObject, NoObject, Text
<1>2. \A p \in db' : IsObject(p) /\ p.type \in StringType..ListType
  BY DEF AddObject, TypeInv
<1>3. \A p, q \in db' : SamePlace(p, q) => p = q
  <2>1. CASE \E p \in db : SamePlace(o, p)
    BY <2>1 DEF AddObject, TypeInv
  <2>2. CASE ~\E p \in db : SamePlace(o, p)
    BY <2>2 DEF AddObject, TypeInv, SamePlace
  <2> QED  BY <2>1, <2>2
<1>4. saved' = saved /\ stage' = "time"
  BY DEF AddObject
<1> QED  BY <1>1, <1>2, <1>3, <1>4 DEF TypeInv

LEMMA TypeInvInit ==
  ASSUME CodecInit
  PROVE  TypeInv
<1>1. <<RedisTag>> \o Eol \o <<IdTag, Dec(0)>> \o Eol \in Text
  <2>1. Dec(0) \in Symbol /\ IdTag \in Symbol /\ RedisTag \in Symbol
    BY SymbolIs
  <2>2. <<RedisTag>> \in Text /\ <<IdTag, Dec(0)>> \in Text /\ Eol \in Text
    BY <2>1, Short, MarksText
  <2> QED  BY <2>2, Joined
<1>2. NoObject \in [type : Int, key : Text, end : Int, vals : Seq(Text)]
  BY DEF NoObject, Text
<1>3. <<>> \in Seq(Objects) /\ Len(<<>>) = 0
  OBVIOUS
<1> QED  BY <1>1, <1>2, <1>3, LimitsAssumption DEF CodecInit, TypeInv

LEMMA TypeInvStep ==
  ASSUME TypeInv, [CodecNext]_codecVars, Load \/ ReadRaw => text' \in Text
  PROVE  TypeInv'
<1>0. /\ text \in Text /\ Len(text) \in Nat
      /\ got \in [type : Int, key : Text, end : Int, vals : Seq(Text)]
  BY DEF TypeInv, Text
<1>1. ASSUME NEW o \in Objects, WriteObject(o) PROVE TypeInv'
  <2>1. saved' \in Seq(Objects) /\ Len(saved') =< MaxObjects
    <3>1. Len(saved') = Len(saved) + 1 /\ Len(saved) \in Nat
      BY <1>1 DEF WriteObject, TypeInv
    <3> QED  BY <1>1, <3>1, LimitsAssumption DEF WriteObject, TypeInv
  <2>2. text' \in Text
    <3>1. PICK w \in WrittenAs(o) : text' = text \o w
      BY <1>1 DEF WriteObject
    <3> QED  BY <1>0, <3>1, WrittenText, Joined
  <2> QED  BY <1>1, <2>1, <2>2 DEF WriteObject, TypeInv
<1>2. CASE Load
  <2>1. stage' \in {"time", "overrun"} /\ text' \in Text
    BY <1>2 DEF Load
  <2>2. saved' = saved /\ got' = got /\ db' = db
    BY <1>2 DEF Load
  <2> QED  BY <2>1, <2>2 DEF TypeInv
<1>3. CASE ReadEnd
  BY <1>3 DEF ReadEnd, TypeInv
<1> DEFINE start == TimeAt
<1>4. start \in Nat \ {0} /\ From(text, start) \in Text /\ Time \in Int
  <2>1. Find(text, Expiry) \in Nat
    BY <1>0, FindIn, MarksText
  <2>2. start \in Nat \ {0}
    BY <2>1 DEF TimeAt
  <2> QED  BY <1>0, <2>2, FromText, LineText, AtoIType DEF Time
<1>5. CASE SkipExpired
  <2>1. Find(From(text, start), Closing) \in Nat
    BY <1>4, FindIn, MarksText DEF Text
  <2>2. text' \in Text
    <3>1. \/ text' = From(From(text, start), Find(From(text, start), Closing) + 3)
          \/ text' = text
      BY <1>5 DEF SkipExpired
    <3> QED  BY <1>0, <1>4, <2>1, <3>1, FromText
  <2>3. /\ saved' = saved /\ got' = got /\ db' = db /\ stage = "time"
        /\ stage' \in {"time", "astray"}
    BY <1>5 DEF SkipExpired, HasTime
  <2> QED  BY <2>2, <2>3 DEF TypeInv
<1>6. CASE ReadTime
  <2>1. text' \in Text
    BY <1>4, <1>6 DEF ReadTime
  <2>2. got' \in [type : Int, key : Text, end : Int, vals : Seq(Text)]
    <3>1. NoObject \in [type : Int, key : Text, end : Int, vals : Seq(Text)]
      BY DEF NoObject, Text
    <3>2. got' = [NoObject EXCEPT !.end = Time]
      BY <1>6 DEF ReadTime
    <3> QED  BY <1>4, <3>1, <3>2
  <2>3. got'.vals = <<>>
    BY <1>6 DEF ReadTime, NoObject
  <2> QED  BY <1>6, <2>1, <2>2, <2>3 DEF ReadTime, TypeInv
<1>7. CASE ReadType
  <2> DEFINE i == Find(text, <<CtpTag>>)
  <2>1. i \in Nat
    BY <1>0, TagFind, SymbolIs
  <2>2. CASE i = 0
    BY <1>7, <2>2 DEF ReadType, TypeInv
  <2>3. CASE i # 0
    <3>1. AtoI(Line(text, i + 1)) \in Int /\ From(text, i + 1) \in Text
      <4>1. i + 1 \in Nat \ {0}
        BY <2>1
      <4> HIDE DEF i
      <4>2. Line(text, i + 1) \in Text /\ From(text, i + 1) \in Text
        BY <1>0, <4>1, LineText, FromText
      <4> QED  BY <4>2, AtoIType
    <3>2. PICK n \in Int : got' = [got EXCEPT !.type = n]
      BY <1>7, <2>3, <3>1 DEF ReadType
    <3>3. got' \in [type : Int, key : Text, end : Int, vals : Seq(Text)]
      BY <1>0, <3>2
    <3>4. /\ text' \in Text /\ stage' = "object" /\ saved' = saved /\ db' = db
          /\ stage = "type"
      BY <1>7, <2>3, <3>1 DEF ReadType
    <3>5. got'.vals = <<>>
      BY <1>0, <3>2, <3>4 DEF TypeInv
    <3> QED  BY <3>3, <3>4, <3>5 DEF TypeInv
  <2> QED  BY <2>2, <2>3
<1>8. ASSUME NEW t \in Text, NEW keeps, NEW inflates, text' \in Text,
             AtString, ReadPlainString(t, keeps, inflates)
      PROVE  TypeInv'
  <2> DEFINE k == Find(t, Eol) + 2
             c == Until(t, k, Colon)
             r == Until(t, c + 1, CR)
             v == SubSeq(t, c + 1, r - 1)
             V == IF inflates THEN Inflated(v) ELSE {v}
  <2>1. k \in Nat \ {0} /\ Len(t) \in Nat
    BY <1>8, FindIn, MarksText, SMTT(30) DEF Text
  <2>2. c \in 0..Len(t)
    <3> HIDE DEF k
    <3> QED  BY <1>8, <2>1, UntilType
  <2>3. r \in 0..Len(t)
    <3> HIDE DEF k, c
    <3> QED  BY <1>8, <2>1, <2>2, UntilType
  <2>4. CASE r = 0 \/ Has(v, Wild)
    <3>1. stage' = "astray" /\ UNCHANGED <<saved, text, got, db>>
      BY <1>8, <2>4, Zenon DEF ReadPlainString
    <3> QED  BY <3>1 DEF TypeInv
  <2>5. CASE ~(r = 0 \/ Has(v, Wild))
    <3>1. v \in Text /\ SubSeq(t, k, c - 1) \in Text
      <4> HIDE DEF k, c, r
      <4>1. c + 1 \in Nat \ {0} /\ r - 1 \in Int /\ r - 1 =< Len(t) /\ c - 1 \in Int
            /\ c - 1 =< Len(t)
        BY <2>1, <2>2, <2>3
      <4> QED  BY <1>8, <2>1, <4>1, SliceText
    <3>2. V \subseteq Text
      <4> HIDE DEF v
      <4>1. <<Junk>> \in Text /\ <<Rep>> \in Text /\ <<Rep, Junk>> \in Text
        BY SymbolIs, Short
      <4> QED  BY <3>1, <4>1 DEF Inflated
    <3>3. PICK x \in V : AddObject([got EXCEPT !.key = SubSeq(t, k, c - 1), !.vals = <<x>>])
      BY <1>8, <2>5, Zenon DEF ReadPlainString
    <3> DEFINE o == [got EXCEPT !.key = SubSeq(t, k, c - 1), !.vals = <<x>>]
    <3>4. IsObject(o) /\ o.type \in StringType..ListType
      <4> HIDE DEF v, V, k, c
      <4>1. got.type = StringType /\ x \in Text
        BY <1>8, <3>2, <3>3 DEF AtString
      <4>2. <<x>> \in Seq(Text) /\ Len(<<x>>) = 1
        BY <4>1
      <4>3. o.type = StringType /\ o.key = SubSeq(t, k, c - 1) /\ o.vals = <<x>>
            /\ o \in [type : Int, key : Text, end : Int, vals : Seq(Text)]
        BY <1>0, <3>1, <4>1, <4>2
      <4> HIDE DEF o
      <4> QED  BY <4>2, <4>3, TypesDiffer DEF IsObject, Text, StringType, ListType
    <3> HIDE DEF o
    <3> QED  BY <1>8, <3>3, <3>4, AddKeepsTypes DEF o
  <2> QED  BY <2>4, <2>5
<1>9. PastTag(text, EcTag) \in Text /\ PastTag(text, YcTag) \in Text
      /\ PastTag(PastTag(text, YcTag), XcTag) \in Text
  BY <1>0, TagFind, SymbolIs
<1>10. CASE ReadInt
  <2>1. text' \in Text
    <3> DEFINE t == PastTag(text, EcTag)
               k == Find(t, Eol) + 2
               c == Until(t, k, Colon)
               r == Until(t, c + 1, CR)
    <3>1. t \in Text /\ Len(t) \in Nat
      BY <1>9 DEF Text
    <3> HIDE DEF t
    <3>2. k \in Nat \ {0}
      BY <3>1, FindIn, MarksText
    <3> HIDE DEF k
    <3>3. c \in Nat
      BY <3>1, <3>2, UntilType
    <3> HIDE DEF c
    <3>4. r \in Nat
      BY <3>1, <3>3, UntilType
    <3> HIDE DEF r
    <3>5. text' = text \/ (r # 0 /\ text' = From(t, r))
      <4> USE DEF t, k, c, r
      <4> QED  BY <1>10, Zenon DEF ReadInt, ReadPlainString
    <3> QED  BY <1>0, <3>1, <3>4, <3>5, FromText
  <2> QED  BY <1>8, <1>9, <1>10, <2>1 DEF ReadInt
<1>11. CASE ReadRaw
  <2>1. CASE AtoI(Line(PastTag(text, YcTag), 1)) > 20
    <3> DEFINE t == PastTag(PastTag(text, YcTag), XcTag)
               inf == AtoI(Line(t, 1)) # AtoI(Line(PastTag(text, YcTag), 1))
    <3>1. ReadPlainString(t, TRUE, inf) /\ AtString
      BY <1>11, <2>1 DEF ReadRaw
    <3> HIDE DEF inf
    <3> QED  BY <1>8, <1>9, <1>11, <3>1
  <2>2. CASE ~(AtoI(Line(PastTag(text, YcTag), 1)) > 20)
    <3>1. ReadPlainString(PastTag(text, YcTag), TRUE, FALSE) /\ AtString
      BY <1>11, <2>2 DEF ReadRaw
    <3> QED  BY <1>8, <1>9, <1>11, <3>1
  <2> QED  BY <2>1, <2>2
<1>12. CASE ReadOther
  <2> DEFINE o == [got EXCEPT !.vals = <<<<>>>>]
  <2>1. AddObject(o) /\ text' \in Text /\ got.type = StringType
    BY <1>9, <1>12 DEF ReadOther, AtString
  <2>2. <<<<>>>> \in Seq(Text) /\ Len(<<<<>>>>) = 1
    BY DEF Text
  <2>3. o \in [type : Int, key : Text, end : Int, vals : Seq(Text)]
        /\ o.type = StringType /\ Len(o.vals) = 1
    BY <1>0, <2>1, <2>2
  <2> HIDE DEF o
  <2>4. IsObject(o) /\ o.type \in StringType..ListType
    BY <2>3, TypesDiffer DEF IsObject, Text, StringType, ListType
  <2> QED  BY <2>1, <2>4, AddKeepsTypes
<1>13. CASE ReadKey
  <2> DEFINE k == Find(text, Eol) + 2
             r == Until(text, k, CR)
  <2>1. k \in Nat \ {0}
    <3>1. Find(text, Eol) \in 0..Len(text)
      BY <1>0, FindIn, MarksText
    <3> QED  BY <1>0, <3>1
  <2>2. r \in 0..Len(text)
    <3> HIDE DEF k
    <3> QED  BY <1>0, <2>1, UntilType
  <2>3. SubSeq(text, k, r - 1) \in Text /\ From(text, r + 2) \in Text
    <3> HIDE DEF k, r
    <3>1. r - 1 \in Int /\ r - 1 =< Len(text) /\ r + 2 \in Nat \ {0}
      BY <1>0, <2>2
    <3> QED  BY <1>0, <2>1, <3>1, SliceText, FromText
  <2>4. PICK e \in Int : got' = [got EXCEPT !.key = SubSeq(text, k, r - 1), !.end = e]
    <3>1. got.end \in Int /\ Never \in Int
      BY <1>0 DEF Never
    <3> QED  BY <1>13, <3>1 DEF ReadKey
  <2>5. got' \in [type : Int, key : Text, end : Int, vals : Seq(Text)]
        /\ got'.vals = got.vals /\ got'.type = got.type
    BY <1>0, <2>3, <2>4
  <2>6. text' = From(text, r + 2)
    BY <1>13 DEF ReadKey
  <2>7. got.vals = <<>> /\ Len(<<>>) = 0 /\ 0 % 2 = 0
    BY <1>13 DEF ReadKey, TypeInv
  <2>8. stage' = (IF got.type = HashType THEN "fields" ELSE "values")
        /\ saved' = saved /\ db' = db /\ got.type \in {HashType, ListType}
    BY <1>13 DEF ReadKey
  <2>9. stage' \in {"fields", "values"} /\ (stage' = "fields" => got'.type = HashType)
        /\ (stage' = "values" => got'.type = ListType)
    BY <2>5, <2>8
  <2>10. text' \in Text
    BY <2>3, <2>6
  <2> HIDE DEF k, r
  <2> QED  BY <2>5, <2>7, <2>8, <2>9, <2>10 DEF TypeInv
<1>14. CASE ReadField
  <2> DEFINE c == Until(text, 1, Colon)
             t == From(text, c + 1)
             r == Find(t, Eol)
             f == SubSeq(text, 1, c - 1)
             v == SubSeq(t, 1, r - 1)
  <2>1. c \in 0..Len(text)
    BY <1>0, UntilType
  <2>2. t \in Text /\ Len(t) \in Nat /\ f \in Text
    <3> HIDE DEF c
    <3>1. c + 1 \in Nat \ {0} /\ c - 1 \in Int /\ c - 1 =< Len(text)
      BY <1>0, <2>1
    <3>2. t \in Text /\ f \in Text
      BY <1>0, <3>1, FromText, SliceText
    <3> HIDE DEF t
    <3> QED  BY <3>2 DEF Text
  <2>3. r \in 0..Len(t)
    <3> HIDE DEF t
    <3> QED  BY <2>2, FindIn, MarksText
  <2>4. v \in Text /\ From(t, IF r = 0 THEN 1 ELSE r + 2) \in Text
    <3> HIDE DEF t, r
    <3>1. r - 1 \in Int /\ r - 1 =< Len(t) /\ r + 2 \in Nat \ {0}
      BY <2>2, <2>3
    <3> QED  BY <2>2, <3>1, SliceText, FromText
  <2>5. /\ stage = "fields" /\ got.type = HashType /\ Len(got.vals) % 2 = 0
        /\ IsObject(got) /\ got.type \in StringType..ListType
    BY <1>0, <1>14, TypesDiffer
       DEF ReadField, TypeInv, IsObject, Text, StringType, HashType, ListType
  <2>6. text' \in Text
    <3>1. text' = text \/ text' = From(t, IF r = 0 THEN 1 ELSE r + 2)
      BY <1>14, Zenon DEF ReadField
    <3> QED  BY <1>0, <2>4, <3>1
  <2>7. AddObject(got)
        \/ (got' = [got EXCEPT !.vals = WithField(@, f, v)] /\ saved' = saved
            /\ stage' = stage /\ db' = db)
    BY <1>14, Zenon DEF ReadField
  <2>8. CASE AddObject(got)
    BY <2>5, <2>6, <2>8, AddKeepsTypes
  <2>9. CASE got' = [got EXCEPT !.vals = WithField(@, f, v)] /\ saved' = saved
             /\ stage' = stage /\ db' = db
    <3> DEFINE vals == got.vals
    <3>1. vals \in Seq(Text) /\ Len(vals) \in Nat /\ DOMAIN vals = 1..Len(vals)
          /\ \A i \in 1..Len(vals) : vals[i] \in Text
      <4>1. vals \in Seq(Text)
        BY <1>0
      <4> QED  BY <4>1, ElementOfSeq
    <3>2. WithField(vals, f, v) \in Seq(Text) /\ Len(WithField(vals, f, v)) % 2 = 0
      <4> HIDE DEF vals, f, v
      <4>1. CASE \E i \in DOMAIN vals : i % 2 = 1 /\ vals[i] = f
        <5> DEFINE u == [i \in DOMAIN vals |->
                           IF i % 2 = 0 /\ vals[i - 1] = f THEN v ELSE vals[i]]
        <5>1. u \in [1..Len(vals) -> Text]
          <6> HIDE DEF Text
          <6> QED  BY <2>2, <2>4, <3>1
        <5>2. u \in Seq(Text) /\ Len(u) = Len(vals)
          <6> HIDE DEF u
          <6> QED  BY <3>1, <5>1
        <5>3. WithField(vals, f, v) = u
          BY <4>1 DEF WithField
        <5>4. Len(vals) % 2 = 0
          BY <2>5 DEF vals
        <5> HIDE DEF u
        <5> QED  BY <5>2, <5>3, <5>4
      <4>2. CASE ~\E i \in DOMAIN vals : i % 2 = 1 /\ vals[i] = f
        <5>1. WithField(vals, f, v) = vals \o <<f, v>>
          BY <4>2 DEF WithField
        <5>2. <<f, v>> \in Seq(Text) /\ Len(<<f, v>>) = 2
          BY <2>2, <2>4
        <5>3. Len(vals) % 2 = 0
          BY <2>5 DEF vals
        <5>4. vals \o <<f, v>> \in Seq(Text) /\ Len(vals \o <<f, v>>) = Len(vals) + 2
          BY <3>1, <5>2
        <5> QED  BY <3>1, <5>1, <5>3, <5>4
      <4> QED  BY <4>1, <4>2
    <3>3. got' = [got EXCEPT !.vals = WithField(vals, f, v)]
      BY <2>9
    <3> HIDE DEF vals, f, v
    <3>4. got' \in [type : Int, key : Text, end : Int, vals : Seq(Text)]
          /\ got'.vals = WithField(vals, f, v) /\ got'.type = got.type
      BY <1>0, <3>2, <3>3
    <3> QED  BY <2>5, <2>6, <2>9, <3>2, <3>4 DEF TypeInv
  <2> QED  BY <2>7, <2>8, <2>9
<1>15. CASE ReadValue
  <2> DEFINE r == SelectInSeq(text, LAMBDA s : s \in {CR, LF, Dollar})
             v == SubSeq(text, 1, r - 1)
  <2>1. r \in 0..Len(text)
    <3> DEFINE I == {i \in 1..Len(text) : text[i] \in {CR, LF, Dollar}}
    <3>1. r = IF I # {} THEN Min(I) ELSE 0
      BY DEF SelectInSeq, SelectInSubSeq
    <3>2. I \subseteq Nat
      OBVIOUS
    <3>3. I # {} => Min(I) \in I
      <4> HIDE DEF I
      <4> QED  BY <3>2, Least1
    <3> QED  BY <1>0, <3>1, <3>3
  <2>2. v \in Text /\ From(text, r + 2) \in Text
    <3> HIDE DEF r
    <3>1. r - 1 \in Int /\ r - 1 =< Len(text) /\ r + 2 \in Nat \ {0} /\ 1 \in Nat \ {0}
      BY <1>0, <2>1
    <3> QED  BY <1>0, <3>1, SliceText, FromText
  <2>3. /\ stage = "values" /\ got.type = ListType
        /\ IsObject(got) /\ got.type \in StringType..ListType
    BY <1>0, <1>15, TypesDiffer
       DEF ReadValue, TypeInv, IsObject, Text, StringType, HashType, ListType
  <2>4. text' \in Text
    <3>1. text' = text \/ text' = From(text, r + 2)
      BY <1>15 DEF ReadValue
    <3> QED  BY <1>0, <2>2, <3>1
  <2>5. AddObject(got)
        \/ (got' = [got EXCEPT !.vals = Append(@, v)] /\ saved' = saved
            /\ stage' = stage /\ db' = db)
    BY <1>15 DEF ReadValue
  <2>6. CASE AddObject(got)
    BY <2>3, <2>4, <2>6, AddKeepsTypes
  <2>7. CASE got' = [got EXCEPT !.vals = Append(@, v)] /\ saved' = saved
             /\ stage' = stage /\ db' = db
    <3> HIDE DEF v
    <3>1. Append(got.vals, v) \in Seq(Text)
      BY <1>0, <2>2
    <3>2. got' \in [type : Int, key : Text, end : Int, vals : Seq(Text)]
          /\ got'.type = got.type
      BY <1>0, <2>7, <3>1
    <3> QED  BY <2>3, <2>4, <2>7, <3>2 DEF TypeInv
  <2> QED  BY <2>5, <2>6, <2>7
<1>16. CASE OutOfMemory
  BY <1>16 DEF OutOfMemory, TypeInv
<1>17. CASE UNCHANGED codecVars
  BY <1>17 DEF codecVars, TypeInv
<1> QED
  BY <1>1, <1>2, <1>3, <1>5, <1>6, <1>7, <1>10, <1>11, <1>12, <1>13, <1>14, <1>15, <1>16, <1>17
     DEF CodecNext, Read

LEMMA TypeInvTypes ==
  ASSUME TypeInv
  PROVE  CodecTypeOK
BY DEF TypeInv, CodecTypeOK, ToSet, Text

-----------------------------------------------------------------------------
(* Where the pieces of an object stand in the file. *)
Tags == {RedisTag, IdTag, CtpTag, EcTag, YcTag, XcTag}

LEMMA MarksDiffer ==
  /\ \A n \in Int : Dec(n) \notin {CR, LF, Dollar, Colon, E, Nul} \cup Tags
                    /\ AsInt8(n) \notin Tags /\ (AsInt8(n) = Nul <=> n % 256 = 0)
                    /\ (AsInt8(n) = CR <=> n % 256 = 13)
                    /\ AsInt8(n) = Ch(n % 256)
  /\ {CR, LF, Dollar, Colon, E, Nul} \cap Tags = {}
  /\ CR # LF /\ CR # Dollar /\ CR # Colon /\ CR # E /\ CR # Nul
  /\ LF # Dollar /\ LF # Colon /\ LF # E /\ LF # Nul
  /\ Dollar # Colon /\ Dollar # E /\ Dollar # Nul
  /\ Colon # E /\ Colon # Nul /\ E # Nul
  /\ CtpTag # EcTag /\ CtpTag # YcTag /\ CtpTag # XcTag /\ EcTag # YcTag /\ EcTag # XcTag
  /\ YcTag # XcTag /\ IdTag # CtpTag /\ IdTag # RedisTag
  /\ {Lzf, Wild} \cap ({CR, LF, Dollar, Colon, E, Nul} \cup Tags) = {} /\ Lzf # Wild
  /\ \A n \in Int : Dec(n) # Wild /\ AsInt8(n) # Wild
  /\ \A s \in Letter : s \in Symbol /\ s \notin {CR, Nul, Wild} \cup Tags
BY DEF Dec, AsInt8, Ch, CR, LF, Dollar, Colon, E, Nul, Tags, RedisTag, IdTag, CtpTag, EcTag,
       YcTag, XcTag, Lzf, Wild, Letter

Typed(o) == o.type \in {StringType, HashType, ListType}

LineAt(f, a, tag, n) ==
  a + 3 =< Len(f) /\ f[a] = tag /\ f[a + 1] = Dec(n) /\ f[a + 2] = CR /\ f[a + 3] = LF

HeadAt(f, a, o) ==
  /\ a + 4 =< Len(f)
  /\ f[a] = E /\ f[a + 1] = Colon /\ f[a + 2] = Dec(o.end) /\ f[a + 3] = CR /\ f[a + 4] = LF

ClosingAt(f, a) == a + 2 =< Len(f) /\ f[a] = CR /\ f[a + 1] = Dollar /\ f[a + 2] = LF

(* How a string is encoded: what the line behind its type says, where its  *)
(* key begins, and what stands for its value.                              *)
StringAs(f, a, o, enc, k, u) ==
  LET v == o.vals[1] IN
  \/ enc = EncodingInt /\ k = a + 13 /\ IsSmall(o) /\ u = <<AsInt8(AtoI(v))>>
  \/ enc = EncodingInt /\ k = a + 13 /\ IsMiddle(o) /\ u = <<Dec(AtoI(v))>>
  \/ enc = EncodingInt8 /\ k = a + 13 /\ IsWide(o) /\ u = <<Dec(AtoI(v))>>
  \/ /\ enc = EncodingRaw /\ k = a + 17 /\ IsPlain(o) /\ u = v
     /\ Size(v) =< 20 /\ LineAt(f, a + 13, YcTag, Size(v))
  \/ /\ enc = EncodingRaw /\ k = a + 21 /\ IsPlain(o)
     /\ Size(v) > 20 /\ LineAt(f, a + 13, YcTag, Size(v))
     /\ \E c \in Int : /\ LineAt(f, a + 17, XcTag, c)
                       /\ (c = Size(v) /\ u = v) \/ (u \in Packed /\ Rep \in ToSet(v))

StringAt(f, a, b, o, enc, k, u) ==
  /\ LineAt(f, a + 9, EcTag, enc)
  /\ Sits(f, k, o.key) /\ k + Len(o.key) =< Len(f) /\ f[k + Len(o.key)] = Colon
  /\ Sits(f, k + Len(o.key) + 1, u)
  /\ b = k + Len(o.key) + Len(u) + 4 /\ ClosingAt(f, b - 3)
  /\ StringAs(f, a, o, enc, k, u)

WordsAt(f, a, b, o, pos) ==
  LET n == Len(o.vals)
      e == a + 9 + Len(o.key)
  IN /\ Sits(f, a + 9, o.key) /\ e + 1 =< Len(f) /\ f[e] = CR /\ f[e + 1] = LF
     /\ pos[1] = e + 2 /\ pos[n + 1] = b - 3 /\ ClosingAt(f, b - 3)
     /\ \A i \in 1..n :
          LET z == pos[i] + Len(o.vals[i]) IN
          /\ Sits(f, pos[i], o.vals[i])
          /\ IF o.type = HashType /\ i % 2 = 1
               THEN pos[i + 1] = z + 1 /\ f[z] = Colon /\ z =< Len(f)
               ELSE pos[i + 1] = z + 2 /\ f[z] = CR /\ f[z + 1] = LF /\ z + 1 =< Len(f)

(* The object o stands in f from a on and before b. *)
ObjectAt(f, a, b, o) ==
  /\ HeadAt(f, a, o)
  /\ IF Typed(o)
       THEN /\ LineAt(f, a + 5, CtpTag, o.type)
            /\ IF o.type = StringType
                 THEN \E enc \in Int, k \in Nat, u \in Text : StringAt(f, a, b, o, enc, k, u)
                 ELSE \E pos \in [1..(Len(o.vals) + 1) -> Nat] : WordsAt(f, a, b, o, pos)
       ELSE b = a + 5

LEMMA OneText ==
  ASSUME NEW x \in Symbol
  PROVE  <<x>> \in Text /\ Len(<<x>>) = 1
BY DEF Text

LEMMA TwoText ==
  ASSUME NEW x \in Symbol, NEW y \in Symbol
  PROVE  <<x, y>> \in Text /\ Len(<<x, y>>) = 2
BY DEF Text

LEMMA OneSits ==
  ASSUME NEW t \in Text, NEW i \in Nat \ {0}, NEW x \in Symbol
  PROVE  Sits(t, i, <<x>>) <=> i =< Len(t) /\ t[i] = x
BY SitsFew

LEMMA TwoSits ==
  ASSUME NEW t \in Text, NEW i \in Nat \ {0}, NEW x \in Symbol, NEW y \in Symbol
  PROVE  Sits(t, i, <<x, y>>) <=> i + 1 =< Len(t) /\ t[i] = x /\ t[i + 1] = y
BY SitsFew

LEMMA JoinedLen ==
  ASSUME NEW s \in Text, NEW u \in Text
  PROVE  s \o u \in Text /\ Len(s \o u) = Len(s) + Len(u)
BY DEF Text

LEMMA SitsJoined ==
  ASSUME NEW t \in Text, NEW i \in Nat \ {0}, NEW s \in Text, NEW u \in Text,
         Sits(t, i, s \o u)
  PROVE  Sits(t, i, s) /\ Sits(t, i + Len(s), u)
BY SitsConcat

LEMMA LineSits ==
  ASSUME NEW f \in Text, NEW a \in Nat \ {0}, NEW tag \in Symbol, NEW n \in Int
  PROVE  /\ Sits(f, a, <<tag, Dec(n)>> \o Eol) => LineAt(f, a, tag, n)
         /\ <<tag, Dec(n)>> \o Eol \in Text /\ Len(<<tag, Dec(n)>> \o Eol) = 4
<1>1. Dec(n) \in Symbol /\ CR \in Symbol /\ LF \in Symbol
  BY SymbolIs
<1>2. <<tag, Dec(n)>> \in Text /\ Len(<<tag, Dec(n)>>) = 2 /\ Eol \in Text /\ Len(Eol) = 2
  BY <1>1, OneText, TwoText, MarksText
<1>3. ASSUME Sits(f, a, <<tag, Dec(n)>> \o Eol) PROVE LineAt(f, a, tag, n)
  <2>1. Sits(f, a, <<tag, Dec(n)>>) /\ Sits(f, a + 2, Eol)
    BY <1>2, <1>3, SitsJoined
  <2>2. a + 1 =< Len(f) /\ f[a] = tag /\ f[a + 1] = Dec(n)
    BY <1>1, <2>1, TwoSits
  <2>3. a + 2 + 1 =< Len(f) /\ f[a + 2] = CR /\ f[a + 2 + 1] = LF
    <3>1. a + 2 \in Nat \ {0} /\ Sits(f, a + 2, <<CR, LF>>)
      BY <2>1 DEF Eol
    <3> QED  BY <1>1, <3>1, TwoSits
  <2>4. a + 2 + 1 = a + 3
    OBVIOUS
  <2> QED  BY <2>2, <2>3, <2>4 DEF LineAt
<1>4. <<tag, Dec(n)>> \o Eol \in Text /\ Len(<<tag, Dec(n)>> \o Eol) = 4
  <2> DEFINE s == <<tag, Dec(n)>>
  <2> HIDE DEF s
  <2>1. s \o Eol \in Text /\ Len(s \o Eol) = Len(s) + Len(Eol)
    BY <1>2, JoinedLen DEF s
  <2> QED  BY <1>2, <2>1 DEF s
<1> QED  BY <1>3, <1>4

LEMMA HeadSits ==
  ASSUME NEW f \in Text, NEW a \in Nat \ {0}, NEW o \in Objects
  PROVE  /\ Sits(f, a, Leader(o)) => HeadAt(f, a, o)
         /\ Leader(o) \in Text /\ Len(Leader(o)) = 5
<1>1. Dec(o.end) \in Symbol /\ CR \in Symbol /\ LF \in Symbol /\ E \in Symbol /\ Colon \in Symbol
  BY SymbolIs, ObjectType
<1>2. Expiry \in Text /\ Len(Expiry) = 2 /\ <<Dec(o.end)>> \in Text /\ Len(<<Dec(o.end)>>) = 1
      /\ Eol \in Text /\ Len(Eol) = 2
  BY <1>1, OneText, TwoText, MarksText
<1> DEFINE s == Expiry \o <<Dec(o.end)>>
<1>3. s \in Text /\ Len(s) = 3
  <2> DEFINE d == <<Dec(o.end)>>
  <2> HIDE DEF d
  <2>1. Expiry \o d \in Text /\ Len(Expiry \o d) = Len(Expiry) + Len(d)
    BY <1>2, JoinedLen DEF d
  <2> QED  BY <1>2, <2>1 DEF d
<1>4. s \o Eol \in Text /\ Len(s \o Eol) = 5
  <2> HIDE DEF s
  <2>1. s \o Eol \in Text /\ Len(s \o Eol) = Len(s) + Len(Eol)
    BY <1>2, <1>3, JoinedLen
  <2> QED  BY <1>2, <1>3, <2>1
<1>5. ASSUME Sits(f, a, s \o Eol) PROVE HeadAt(f, a, o)
  <2>1. Sits(f, a, s) /\ Sits(f, a + 3, Eol)
    <3> HIDE DEF s
    <3> QED  BY <1>2, <1>3, <1>5, SitsJoined, JoinedLen
  <2>2. Sits(f, a, Expiry) /\ Sits(f, a + 2, <<Dec(o.end)>>)
    BY <1>2, <2>1, SitsJoined
  <2>3. f[a] = E /\ f[a + 1] = Colon
    BY <1>1, <2>2, TwoSits DEF Expiry
  <2>4. a + 2 \in Nat \ {0} /\ a + 3 \in Nat \ {0} /\ a + 3 + 1 = a + 4
    OBVIOUS
  <2>5. f[a + 2] = Dec(o.end)
    BY <1>1, <2>2, <2>4, OneSits
  <2>6. a + 3 + 1 =< Len(f) /\ f[a + 3] = CR /\ f[a + 3 + 1] = LF
    BY <1>1, <2>1, <2>4, TwoSits DEF Eol
  <2> QED  BY <2>3, <2>4, <2>5, <2>6 DEF HeadAt
<1> QED  BY <1>4, <1>5 DEF Leader

LEMMA ClosingSits ==
  ASSUME NEW f \in Text, NEW a \in Nat \ {0}
  PROVE  Sits(f, a, Closing) <=> ClosingAt(f, a)
BY SitsFew, SymbolIs DEF ClosingAt, Closing

(* Behind the lines t of its encoding stand a string's key and value. *)
LEMMA BodySits ==
  ASSUME NEW f \in Text, NEW a \in Nat \ {0}, NEW t \in Text, NEW key \in Text, NEW u \in Text,
         \/ Sits(f, a, t \o key \o <<Colon>> \o u \o Closing)
         \/ \E x \in Symbol : u = <<x>> /\ Sits(f, a, t \o key \o <<Colon, x>> \o Closing)
  PROVE  LET k == a + Len(t) IN
         /\ Sits(f, a, t) /\ Sits(f, k, key)
         /\ k + Len(key) =< Len(f) /\ f[k + Len(key)] = Colon
         /\ Sits(f, k + Len(key) + 1, u) /\ ClosingAt(f, k + Len(key) + 1 + Len(u))
<1> DEFINE k == a + Len(t)
           m == k + Len(key)
<1>1. Len(t) \in Nat /\ Len(key) \in Nat /\ Len(u) \in Nat
      /\ k \in Nat \ {0} /\ m \in Nat \ {0} /\ m + 1 \in Nat \ {0}
      /\ m + 1 + Len(u) \in Nat \ {0}
  BY DEF Text
<1>2. t \o key \in Text /\ Len(t \o key) = Len(t) + Len(key)
      /\ (Sits(f, a, t \o key) => Sits(f, a, t) /\ Sits(f, k, key))
  BY JoinedLen, SitsJoined
<1>3. Colon \in Symbol /\ Closing \in Text /\ <<Colon>> \in Text /\ Len(<<Colon>>) = 1
  BY SymbolIs, MarksText, OneText, TwoText
<1>4. a + (Len(t) + Len(key)) = m
  BY <1>1
<1> HIDE DEF k, m
<1>5. CASE Sits(f, a, t \o key \o <<Colon>> \o u \o Closing)
  <2> DEFINE s == t \o key
  <2>1. s \in Text /\ Len(s) = Len(t) + Len(key) /\ a + Len(s) = m
    BY <1>2, <1>4
  <2> HIDE DEF s
  <2>2. s \o <<Colon>> \in Text /\ Len(s \o <<Colon>>) = Len(s) + 1
    BY <1>3, <2>1, JoinedLen
  <2>3. s \o <<Colon>> \o u \in Text /\ Len(s \o <<Colon>> \o u) = Len(s) + 1 + Len(u)
    BY <2>2, JoinedLen
  <2>4. Sits(f, a, s \o <<Colon>> \o u) /\ Sits(f, a + (Len(s) + 1 + Len(u)), Closing)
    BY <1>3, <1>5, <2>3, SitsJoined DEF s
  <2>5. Sits(f, a, s \o <<Colon>>) /\ Sits(f, a + (Len(s) + 1), u)
    BY <2>2, <2>4, SitsJoined
  <2>6. Sits(f, a, s) /\ Sits(f, a + Len(s), <<Colon>>)
    BY <1>3, <2>1, <2>5, SitsJoined
  <2>7. a + (Len(s) + 1 + Len(u)) = m + 1 + Len(u) /\ a + (Len(s) + 1) = m + 1
    BY <1>1, <2>1
  <2>8. m =< Len(f) /\ f[m] = Colon
    BY <1>1, <1>3, <2>1, <2>6, OneSits
  <2>9. Sits(f, m + 1, u) /\ ClosingAt(f, m + 1 + Len(u))
    BY <1>1, <2>4, <2>5, <2>7, ClosingSits
  <2> QED  BY <1>2, <2>6, <2>8, <2>9 DEF s, k, m
<1>6. ASSUME NEW x \in Symbol, u = <<x>>, Sits(f, a, t \o key \o <<Colon, x>> \o Closing)
      PROVE  /\ Sits(f, a, t) /\ Sits(f, k, key) /\ m =< Len(f) /\ f[m] = Colon
             /\ Sits(f, m + 1, u) /\ ClosingAt(f, m + 1 + Len(u))
  <2> DEFINE s == t \o key
  <2>1. s \in Text /\ Len(s) = Len(t) + Len(key) /\ a + Len(s) = m
    BY <1>2, <1>4
  <2> HIDE DEF s
  <2>2. <<Colon, x>> \in Text /\ Len(<<Colon, x>>) = 2 /\ Len(u) = 1
    BY <1>3, <1>6, OneText, TwoText
  <2>3. s \o <<Colon, x>> \in Text /\ Len(s \o <<Colon, x>>) = Len(s) + 2
    BY <2>1, <2>2, JoinedLen
  <2>4. Sits(f, a, s \o <<Colon, x>>) /\ Sits(f, a + (Len(s) + 2), Closing)
    BY <1>3, <1>6, <2>3, SitsJoined DEF s
  <2>5. Sits(f, a, s) /\ Sits(f, m, <<Colon, x>>)
    BY <2>1, <2>2, <2>4, SitsJoined
  <2>6. a + (Len(s) + 2) = m + 1 + Len(u)
    BY <1>1, <2>1, <2>2
  <2>7. m + 1 =< Len(f) /\ f[m] = Colon /\ f[m + 1] = x
    BY <1>1, <1>3, <1>6, <2>5, TwoSits
  <2>9. m =< Len(f)
    <3>1. Len(f) \in Nat
      BY DEF Text
    <3> QED  BY <1>1, <2>7, <3>1
  <2>8. Sits(f, m + 1, u)
    BY <1>1, <1>1, <1>6, <2>7, <2>9, OneSits
  <2> QED  BY <1>1, <1>2, <2>4, <2>5, <2>6, <2>7, <2>8, <2>9, ClosingSits DEF s
<1> QED  BY <1>5, <1>6 DEF k, m

LEMMA BodyLen ==
  ASSUME NEW t \in Text, NEW key \in Text, NEW u \in Text
  PROVE  /\ t \o key \o <<Colon>> \o u \o Closing \in Text
         /\ Len(t \o key \o <<Colon>> \o u \o Closing) = Len(t) + Len(key) + Len(u) + 4
<1>1. Closing \in Text /\ Len(Closing) = 3 /\ <<Colon>> \in Text /\ Len(<<Colon>>) = 1
  BY MarksText, SymbolIs, OneText
<1>2. Len(t) \in Nat /\ Len(key) \in Nat /\ Len(u) \in Nat
  BY DEF Text
<1> DEFINE s == t \o key
           c == s \o <<Colon>>
           d == c \o u
<1>3. s \in Text /\ Len(s) = Len(t) + Len(key)
  BY JoinedLen
<1>4. c \in Text /\ Len(c) = Len(s) + Len(<<Colon>>)
  <2> HIDE DEF s
  <2> QED  BY <1>1, <1>3, JoinedLen
<1>5. d \in Text /\ Len(d) = Len(c) + Len(u)
  <2> HIDE DEF c
  <2> QED  BY <1>4, JoinedLen
<1>6. d \o Closing \in Text /\ Len(d \o Closing) = Len(d) + Len(Closing)
  <2> HIDE DEF d
  <2> QED  BY <1>1, <1>5, JoinedLen
<1>7. Len(d \o Closing) = Len(t) + Len(key) + Len(u) + 4
  <2> HIDE DEF s, c, d
  <2> QED  BY <1>1, <1>2, <1>3, <1>4, <1>5, <1>6
<1> QED  BY <1>6, <1>7

LEMMA NumberLen ==
  ASSUME NEW t \in Text, NEW key \in Text, NEW x \in Symbol
  PROVE  Len(t \o key \o <<Colon, x>> \o Closing) = Len(t) + Len(key) + 5
<1>1. Closing \in Text /\ Len(Closing) = 3
      /\ <<Colon, x>> \in Text /\ Len(<<Colon, x>>) = 2
  BY MarksText, SymbolIs, TwoText
<1>2. Len(t) \in Nat /\ Len(key) \in Nat
  BY DEF Text
<1> DEFINE s == t \o key
           e == s \o <<Colon, x>>
<1>3. s \in Text /\ Len(s) = Len(t) + Len(key)
  BY JoinedLen
<1>4. e \in Text /\ Len(e) = Len(s) + Len(<<Colon, x>>)
  <2> HIDE DEF s
  <2> QED  BY <1>1, <1>3, JoinedLen
<1>5. Len(e \o Closing) = Len(e) + Len(Closing)
  <2> HIDE DEF e
  <2> QED  BY <1>1, <1>4, JoinedLen
<1> HIDE DEF s, e
<1>6. Len(e \o Closing) = Len(t) + Len(key) + 5
  BY <1>1, <1>2, <1>3, <1>4, <1>5
<1> QED  BY <1>6 DEF e, s

LEMMA NumberAtLeast ==
  ASSUME NEW v \in Seq(Letter), IsNumber(v)
  PROVE  Least =< AtoI(v) /\ AtoI(v) \in Int
<1>1. v[1] \in Letter /\ Len(v) = 1
  BY DEF IsNumber
<1>2. v[1] \in Symbol /\ v[1][2] >= Least /\ v # <<>> /\ v[1][1] \in {"dec", "frac"}
  BY <1>1 DEF Letter, IsNumber
<1>3. v[1][2] \in Int /\ Least \in Int
  BY <1>2, SymbolFields DEF Least
<1> QED  BY <1>2, <1>3 DEF AtoI

LEMMA Encodings ==
  ASSUME NEW o \in Objects, o.type = StringType
  PROVE  LET v == o.vals[1]
             type == getStringEncodingType(v)
         IN /\ type = EncodingInt8 => IsSmall(o)
            /\ type = EncodingInt16 => IsMiddle(o)
            /\ type = EncodingInt32 => IsWide(o)
            /\ type = EncodingRaw => IsPlain(o)
            /\ v \in Text /\ v \in Seq(Letter) /\ AtoI(v) \in Int /\ Size(v) \in Int
<1> DEFINE v == o.vals[1]
           type == getStringEncodingType(v)
<1>1. Len(o.vals) = 1
  BY ObjectsAssumption
<1>2. v \in Text /\ v \in Seq(Letter) /\ AtoI(v) \in Int /\ Size(v) \in Int
  BY <1>1, ObjectType, AtoIType, SizeType
<1>3. IsNumber(v) => Least =< AtoI(v)
  BY <1>2, NumberAtLeast
<1> DEFINE n == AtoI(v)
<1>4. /\ type = EncodingInt8 => IsNumber(v) /\ n < 127
      /\ type = EncodingInt16 => IsNumber(v) /\ n >= 127 /\ n < 32767
      /\ type = EncodingInt32 => IsNumber(v) /\ n >= 32767 /\ n < 2147483647
      /\ type = EncodingRaw => ~(IsNumber(v) /\ n < 2147483647)
  <2>1. n \in Int
    BY <1>2
  <2> HIDE DEF n, v
  <2> QED  BY <2>1 DEF getStringEncodingType, n, EncodingInt8, EncodingInt16, EncodingInt32,
                       EncodingRaw, Int8Max, Int16Max, Int32Max
<1>5. n \in Int /\ Least \in Int /\ Least =< 127
  BY <1>2 DEF Least
<1> HIDE DEF v
<1>6. type = EncodingInt8 => IsSmall(o)
  BY <1>3, <1>4 DEF IsSmall, IsIntIn, v
<1>7. type = EncodingInt16 => IsMiddle(o)
  BY <1>4, <1>5 DEF IsMiddle, IsIntIn, v
<1>8. type = EncodingInt32 => IsWide(o)
  BY <1>4, <1>5 DEF IsWide, IsIntIn, v
<1>9. type = EncodingRaw => IsPlain(o)
  BY <1>4 DEF IsPlain, IsIntIn, v
<1> QED  BY <1>2, <1>6, <1>7, <1>8, <1>9 DEF v

LEMMA LinesOn ==
  ASSUME NEW f \in Text, NEW a \in Nat \ {0}, NEW t \in Text, NEW tag \in Symbol, NEW n \in Int
  PROVE  /\ t \o <<tag, Dec(n)>> \o Eol \in Text
         /\ Len(t \o <<tag, Dec(n)>> \o Eol) = Len(t) + 4
         /\ Sits(f, a, t \o <<tag, Dec(n)>> \o Eol) =>
              Sits(f, a, t) /\ LineAt(f, a + Len(t), tag, n)
<1> DEFINE l == <<tag, Dec(n)>>
           s == t \o l
<1>1. l \in Text /\ Len(l) = 2 /\ Eol \in Text /\ Len(Eol) = 2 /\ Len(t) \in Nat
      /\ Dec(n) \in Symbol /\ CR \in Symbol /\ LF \in Symbol
  BY SymbolIs, OneText, TwoText, MarksText DEF Text
<1>2. s \in Text /\ Len(s) = Len(t) + Len(l)
  <2> HIDE DEF l
  <2> QED  BY <1>1, JoinedLen
<1>3. s \o Eol \in Text /\ Len(s \o Eol) = Len(s) + Len(Eol)
  <2> HIDE DEF s
  <2> QED  BY <1>1, <1>2, JoinedLen
<1>4. ASSUME Sits(f, a, s \o Eol)
      PROVE  Sits(f, a, t) /\ LineAt(f, a + Len(t), tag, n)
  <2>1. Sits(f, a, s) /\ Sits(f, a + Len(s), Eol)
    <3> HIDE DEF s
    <3> QED  BY <1>1, <1>2, <1>4, SitsJoined
  <2>2. Sits(f, a, t) /\ Sits(f, a + Len(t), l)
    <3> HIDE DEF l
    <3> QED  BY <1>1, <2>1, SitsJoined
  <2> DEFINE b == a + Len(t)
  <2>3. b \in Nat \ {0} /\ b + 2 \in Nat \ {0} /\ a + Len(s) = b + 2
    <3> HIDE DEF s, l
    <3> QED  BY <1>1, <1>2
  <2> HIDE DEF b, s
  <2>4. b + 1 =< Len(f) /\ f[b] = tag /\ f[b + 1] = Dec(n)
    BY <1>1, <2>2, <2>3, TwoSits DEF b
  <2>5. b + 2 + 1 =< Len(f) /\ f[b + 2] = CR /\ f[b + 2 + 1] = LF
    BY <1>1, <2>1, <2>3, TwoSits DEF Eol
  <2>6. b + 2 + 1 = b + 3
    BY <2>3
  <2> QED  BY <2>2, <2>4, <2>5, <2>6 DEF LineAt, b
<1>5. Len(s \o Eol) = Len(t) + 4
  <2> HIDE DEF s, l
  <2> QED  BY <1>1, <1>2, <1>3
<1> QED  BY <1>3, <1>4, <1>5

(* A string stands where its type's line ends. *)
LEMMA WroteString ==
  ASSUME NEW f \in Text, NEW a \in Nat \ {0}, NEW o \in Objects, o.type = StringType,
         NEW s \in processString(o.key, o.vals[1]), Sits(f, a + 9, s)
  PROVE  /\ \E enc \in Int, k \in Nat, u \in Text : StringAt(f, a, a + 9 + Len(s), o, enc, k, u)
         /\ s \in Text
<1> DEFINE v == o.vals[1]
           key == o.key
           n == AtoI(v)
           type == getStringEncodingType(v)
<1>1. v \in Text /\ v \in Seq(Letter) /\ n \in Int /\ Size(v) \in Int /\ key \in Text
  BY Encodings, ObjectType
<1>2. EncodingInt \in Int /\ EncodingInt8 \in Int /\ EncodingRaw \in Int /\ a + 9 \in Nat \ {0}
      /\ Len(key) \in Nat /\ Len(v) \in Nat
  BY <1>1 DEF EncodingInt, EncodingInt8, EncodingRaw, Text
<1>3. AsInt8(n) \in Symbol /\ Dec(n) \in Symbol /\ EcTag \in Symbol /\ YcTag \in Symbol
      /\ XcTag \in Symbol
  BY <1>1, SymbolIs
<1>4. s \in Text
  BY <1>1, StringText
<1>5. \A e \in Int : LET t == <<EcTag, Dec(e)>> \o Eol IN
        /\ t \in Text /\ Len(t) = 4 /\ (Sits(f, a + 9, t) => LineAt(f, a + 9, EcTag, e))
  BY <1>2, <1>3, LineSits
<1>0. \/ /\ type = EncodingInt8
         /\ s = <<EcTag, Dec(EncodingInt)>> \o Eol \o key \o <<Colon, AsInt8(n)>> \o Closing
      \/ /\ type = EncodingInt16
         /\ s = <<EcTag, Dec(EncodingInt)>> \o Eol \o key \o <<Colon, Dec(n)>> \o Closing
      \/ /\ type = EncodingInt32
         /\ s = <<EcTag, Dec(EncodingInt8)>> \o Eol \o key \o <<Colon, Dec(n)>> \o Closing
      \/ /\ type = EncodingRaw /\ Size(v) =< 20
         /\ s = <<EcTag, Dec(EncodingRaw)>> \o Eol \o <<YcTag, Dec(Size(v))>> \o Eol
                  \o key \o <<Colon>> \o v \o Closing
      \/ /\ type = EncodingRaw /\ ~(Size(v) =< 20)
         /\ \E c \in Compressions(v) :
              s = <<EcTag, Dec(EncodingRaw)>> \o Eol \o <<YcTag, Dec(Size(v))>> \o Eol
                    \o <<XcTag, Dec(c[1])>> \o Eol \o key \o <<Colon>> \o c[2] \o Closing
  BY StringIs, ZenonT(40)
<1> HIDE DEF v, n, key, type
<1>6. ASSUME NEW e \in Int, NEW x \in Symbol,
             s = <<EcTag, Dec(e)>> \o Eol \o key \o <<Colon, x>> \o Closing
      PROVE  /\ LineAt(f, a + 9, EcTag, e) /\ Sits(f, a + 13, key)
             /\ a + 13 + Len(key) =< Len(f) /\ f[a + 13 + Len(key)] = Colon
             /\ Sits(f, a + 13 + Len(key) + 1, <<x>>)
             /\ ClosingAt(f, a + 9 + Len(s) - 3)
             /\ a + 9 + Len(s) = a + 13 + Len(key) + Len(<<x>>) + 4
             /\ <<x>> \in Text
  <2> DEFINE t == <<EcTag, Dec(e)>> \o Eol
             u == <<x>>
  <2>1. t \in Text /\ Len(t) = 4 /\ (Sits(f, a + 9, t) => LineAt(f, a + 9, EcTag, e))
    BY <1>5
  <2>2. u \in Text /\ Len(u) = 1
    BY Short
  <2>3. Sits(f, a + 9, t \o key \o <<Colon, x>> \o Closing) /\ u = <<x>>
    BY <1>6
  <2> HIDE DEF t, u
  <2>4. /\ Sits(f, a + 9, t) /\ Sits(f, a + 9 + Len(t), key)
        /\ a + 9 + Len(t) + Len(key) =< Len(f) /\ f[a + 9 + Len(t) + Len(key)] = Colon
        /\ Sits(f, a + 9 + Len(t) + Len(key) + 1, u)
        /\ ClosingAt(f, a + 9 + Len(t) + Len(key) + 1 + Len(u))
    BY <1>1, <1>2, <2>1, <2>2, <2>3, BodySits, ZenonT(40)
  <2>5. Len(s) = Len(t) + Len(key) + 5
    <3>1. s = t \o key \o <<Colon, x>> \o Closing
      BY <1>6 DEF t
    <3> QED  BY <1>1, <2>1, <3>1, NumberLen
  <2>6. a + 9 + Len(t) = a + 13 /\ a + 9 + Len(s) = a + 13 + Len(key) + Len(u) + 4
        /\ a + 9 + Len(t) + Len(key) + 1 + Len(u) = a + 9 + Len(s) - 3
    BY <1>2, <2>1, <2>2, <2>5
  <2> QED  BY <2>1, <2>2, <2>4, <2>6 DEF u
<1>7. ASSUME type = EncodingInt8,
             s = <<EcTag, Dec(EncodingInt)>> \o Eol \o key \o <<Colon, AsInt8(n)>> \o Closing
      PROVE  \E enc \in Int, k \in Nat, u \in Text : StringAt(f, a, a + 9 + Len(s), o, enc, k, u)
  <2>2. IsSmall(o)
    BY <1>7, Encodings DEF v, type
  <2> DEFINE x == AsInt8(n)
  <2>5. a + 13 \in Nat /\ x \in Symbol /\ <<x>> \in Text
    BY <1>3, OneText
  <2>6. s = <<EcTag, Dec(EncodingInt)>> \o Eol \o key \o <<Colon, x>> \o Closing
    BY <1>7
  <2> HIDE DEF x
  <2>7. /\ LineAt(f, a + 9, EcTag, EncodingInt) /\ Sits(f, a + 13, key)
        /\ a + 13 + Len(key) =< Len(f) /\ f[a + 13 + Len(key)] = Colon
        /\ Sits(f, a + 13 + Len(key) + 1, <<x>>)
        /\ ClosingAt(f, a + 9 + Len(s) - 3)
        /\ a + 9 + Len(s) = a + 13 + Len(key) + Len(<<x>>) + 4
    BY <1>2, <1>6, <2>5, <2>6
  <2> DEFINE k == a + 13
             u == <<x>>
  <2>8. /\ LineAt(f, a + 9, EcTag, EncodingInt) /\ Sits(f, k, key)
        /\ k + Len(key) =< Len(f) /\ f[k + Len(key)] = Colon
        /\ Sits(f, k + Len(key) + 1, u)
        /\ ClosingAt(f, a + 9 + Len(s) - 3)
        /\ a + 9 + Len(s) = k + Len(key) + Len(u) + 4
    BY <2>7
  <2>3. StringAs(f, a, o, EncodingInt, k, u)
    BY <2>2 DEF StringAs, x, n, v
  <2>9. k \in Nat /\ u \in Text
    BY <2>5
  <2> HIDE DEF k, u
  <2>4. StringAt(f, a, a + 9 + Len(s), o, EncodingInt, k, u)
    BY <2>3, <2>8 DEF StringAt, key
  <2> QED  BY <1>2, <2>4, <2>9
<1>8. ASSUME type = EncodingInt16,
             s = <<EcTag, Dec(EncodingInt)>> \o Eol \o key \o <<Colon, Dec(n)>> \o Closing
      PROVE  \E enc \in Int, k \in Nat, u \in Text : StringAt(f, a, a + 9 + Len(s), o, enc, k, u)
  <2>2. IsMiddle(o)
    BY <1>8, Encodings DEF v, type
  <2> DEFINE x == Dec(n)
  <2>5. a + 13 \in Nat /\ x \in Symbol /\ <<x>> \in Text
    BY <1>3, OneText
  <2>6. s = <<EcTag, Dec(EncodingInt)>> \o Eol \o key \o <<Colon, x>> \o Closing
    BY <1>8
  <2> HIDE DEF x
  <2>7. /\ LineAt(f, a + 9, EcTag, EncodingInt) /\ Sits(f, a + 13, key)
        /\ a + 13 + Len(key) =< Len(f) /\ f[a + 13 + Len(key)] = Colon
        /\ Sits(f, a + 13 + Len(key) + 1, <<x>>)
        /\ ClosingAt(f, a + 9 + Len(s) - 3)
        /\ a + 9 + Len(s) = a + 13 + Len(key) + Len(<<x>>) + 4
    BY <1>2, <1>6, <2>5, <2>6
  <2> DEFINE k == a + 13
             u == <<x>>
  <2>8. /\ LineAt(f, a + 9, EcTag, EncodingInt) /\ Sits(f, k, key)
        /\ k + Len(key) =< Len(f) /\ f[k + Len(key)] = Colon
        /\ Sits(f, k + Len(key) + 1, u)
        /\ ClosingAt(f, a + 9 + Len(s) - 3)
        /\ a + 9 + Len(s) = k + Len(key) + Len(u) + 4
    BY <2>7
  <2>3. StringAs(f, a, o, EncodingInt, k, u)
    BY <2>2 DEF StringAs, x, n, v
  <2>9. k \in Nat /\ u \in Text
    BY <2>5
  <2> HIDE DEF k, u
  <2>4. StringAt(f, a, a + 9 + Len(s), o, EncodingInt, k, u)
    BY <2>3, <2>8 DEF StringAt, key
  <2> QED  BY <1>2, <2>4, <2>9
<1>9. ASSUME type = EncodingInt32,
             s = <<EcTag, Dec(EncodingInt8)>> \o Eol \o key \o <<Colon, Dec(n)>> \o Closing
      PROVE  \E enc \in Int, k \in Nat, u \in Text : StringAt(f, a, a + 9 + Len(s), o, enc, k, u)
  <2>2. IsWide(o)
    BY <1>9, Encodings DEF v, type
  <2> DEFINE x == Dec(n)
  <2>5. a + 13 \in Nat /\ x \in Symbol /\ <<x>> \in Text
    BY <1>3, OneText
  <2>6. s = <<EcTag, Dec(EncodingInt8)>> \o Eol \o key \o <<Colon, x>> \o Closing
    BY <1>9
  <2> HIDE DEF x
  <2>7. /\ LineAt(f, a + 9, EcTag, EncodingInt8) /\ Sits(f, a + 13, key)
        /\ a + 13 + Len(key) =< Len(f) /\ f[a + 13 + Len(key)] = Colon
        /\ Sits(f, a + 13 + Len(key) + 1, <<x>>)
        /\ ClosingAt(f, a + 9 + Len(s) - 3)
        /\ a + 9 + Len(s) = a + 13 + Len(key) + Len(<<x>>) + 4
    BY <1>2, <1>6, <2>5, <2>6
  <2> DEFINE k == a + 13
             u == <<x>>
  <2>8. /\ LineAt(f, a + 9, EcTag, EncodingInt8) /\ Sits(f, k, key)
        /\ k + Len(key) =< Len(f) /\ f[k + Len(key)] = Colon
        /\ Sits(f, k + Len(key) + 1, u)
        /\ ClosingAt(f, a + 9 + Len(s) - 3)
        /\ a + 9 + Len(s) = k + Len(key) + Len(u) + 4
    BY <2>7
  <2>3. StringAs(f, a, o, EncodingInt8, k, u)
    BY <2>2 DEF StringAs, x, n, v
  <2>9. k \in Nat /\ u \in Text
    BY <2>5
  <2> HIDE DEF k, u
  <2>4. StringAt(f, a, a + 9 + Len(s), o, EncodingInt8, k, u)
    BY <2>3, <2>8 DEF StringAt, key
  <2> QED  BY <1>2, <2>4, <2>9
<1>10. ASSUME NEW t \in Text, NEW u \in Text, NEW k \in Nat, k = a + 9 + Len(t),
              s = t \o key \o <<Colon>> \o u \o Closing
       PROVE  /\ Sits(f, a + 9, t) /\ Sits(f, k, key)
              /\ k + Len(key) =< Len(f) /\ f[k + Len(key)] = Colon
              /\ Sits(f, k + Len(key) + 1, u)
              /\ ClosingAt(f, a + 9 + Len(s) - 3)
              /\ a + 9 + Len(s) = k + Len(key) + Len(u) + 4
  <2>1. Sits(f, a + 9, t \o key \o <<Colon>> \o u \o Closing)
    BY <1>10
  <2>2. /\ Sits(f, a + 9, t) /\ Sits(f, k, key)
        /\ k + Len(key) =< Len(f) /\ f[k + Len(key)] = Colon
        /\ Sits(f, k + Len(key) + 1, u)
        /\ ClosingAt(f, k + Len(key) + 1 + Len(u))
    BY <1>1, <1>2, <1>10, <2>1, BodySits
  <2>3. Len(s) = Len(t) + Len(key) + Len(u) + 4 /\ Len(u) \in Nat /\ Len(t) \in Nat
    <3>1. Len(u) \in Nat /\ Len(t) \in Nat
      BY DEF Text
    <3> QED  BY <1>1, <1>10, <3>1, BodyLen
  <2>4. a + 9 + Len(s) = k + Len(key) + Len(u) + 4
        /\ k + Len(key) + 1 + Len(u) = a + 9 + Len(s) - 3
    <3>1. k = a + 9 + Len(t)
      BY <1>10
    <3> QED  BY <1>2, <2>3, <3>1
  <2> QED  BY <2>2, <2>4
<1> DEFINE ec == <<EcTag, Dec(EncodingRaw)>> \o Eol
           yc == ec \o <<YcTag, Dec(Size(v))>> \o Eol
<1>11. ec \in Text /\ Len(ec) = 4
       /\ (Sits(f, a + 9, ec) => LineAt(f, a + 9, EcTag, EncodingRaw))
  BY <1>2, <1>5
<1>12. yc \in Text /\ Len(yc) = 8
       /\ (Sits(f, a + 9, yc) => LineAt(f, a + 9, EcTag, EncodingRaw)
                                /\ LineAt(f, a + 13, YcTag, Size(v)))
  <2>1. yc \in Text /\ Len(yc) = Len(ec) + 4
        /\ (Sits(f, a + 9, yc) => Sits(f, a + 9, ec) /\ LineAt(f, a + 9 + Len(ec), YcTag, Size(v)))
    <3> HIDE DEF ec
    <3> QED  BY <1>1, <1>2, <1>3, <1>11, LinesOn
  <2>2. a + 9 + Len(ec) = a + 13 /\ Len(ec) + 4 = 8
    BY <1>11
  <2> QED  BY <1>11, <2>1, <2>2
<1> HIDE DEF ec, yc
<1>13. ASSUME type = EncodingRaw, Size(v) =< 20, s = yc \o key \o <<Colon>> \o v \o Closing
       PROVE  \E enc \in Int, k \in Nat, u \in Text : StringAt(f, a, a + 9 + Len(s), o, enc, k, u)
  <2> DEFINE k == a + 17
  <2>1. k \in Nat /\ k = a + 9 + Len(yc)
    BY <1>12
  <2>2. IsPlain(o)
    BY <1>13, Encodings DEF v, type
  <2> HIDE DEF k
  <2>3. /\ Sits(f, a + 9, yc) /\ Sits(f, k, key)
        /\ k + Len(key) =< Len(f) /\ f[k + Len(key)] = Colon
        /\ Sits(f, k + Len(key) + 1, v)
        /\ ClosingAt(f, a + 9 + Len(s) - 3)
        /\ a + 9 + Len(s) = k + Len(key) + Len(v) + 4
    BY <1>1, <1>10, <1>12, <1>13, <2>1
  <2>4. LineAt(f, a + 9, EcTag, EncodingRaw) /\ LineAt(f, a + 13, YcTag, Size(v))
    BY <1>12, <2>3
  <2>6. StringAs(f, a, o, EncodingRaw, k, v)
    BY <1>13, <2>2, <2>4 DEF StringAs, v, k
  <2>7. StringAt(f, a, a + 9 + Len(s), o, EncodingRaw, k, v)
    BY <2>3, <2>4, <2>6 DEF StringAt, key
  <2> QED  BY <1>1, <1>2, <2>1, <2>7
<1>14. ASSUME type = EncodingRaw, ~(Size(v) =< 20), NEW c \in Compressions(v),
              s = yc \o <<XcTag, Dec(c[1])>> \o Eol \o key \o <<Colon>> \o c[2] \o Closing
       PROVE  \E enc \in Int, k \in Nat, u \in Text : StringAt(f, a, a + 9 + Len(s), o, enc, k, u)
  <2>2. IsPlain(o)
    BY <1>14, Encodings DEF v, type
  <2>3. /\ c[1] \in Int /\ c[2] \in Text
        /\ (c[1] = Size(v) /\ c[2] = v) \/ (c[2] \in Packed /\ Rep \in ToSet(v))
    <3>1. Size(v) - 4 \in Int
      BY <1>1
    <3> QED  BY <1>1, <3>1, CompressionIs, PackedText
  <2> DEFINE u == c[2]
             m == c[1]
             xc == yc \o <<XcTag, Dec(m)>> \o Eol
             k == a + 21
  <2>5. s = xc \o key \o <<Colon>> \o u \o Closing /\ u \in Text
    BY <1>14, <2>3
  <2>6. m \in Int /\ ((m = Size(v) /\ u = v) \/ (u \in Packed /\ Rep \in ToSet(v)))
    BY <2>3
  <2> HIDE DEF u, m
  <2>4. xc \in Text /\ Len(xc) = 12
        /\ (Sits(f, a + 9, xc) => Sits(f, a + 9, yc) /\ LineAt(f, a + 17, XcTag, m))
    <3>1. xc \in Text /\ Len(xc) = Len(yc) + 4
          /\ (Sits(f, a + 9, xc) => Sits(f, a + 9, yc) /\ LineAt(f, a + 9 + Len(yc), XcTag, m))
      BY <1>2, <1>3, <1>12, <2>6, LinesOn
    <3>2. a + 9 + Len(yc) = a + 17 /\ Len(yc) + 4 = 12
      BY <1>12
    <3> QED  BY <3>1, <3>2
  <2> HIDE DEF xc
  <2>9. k \in Nat /\ k = a + 9 + Len(xc) /\ Size(v) > 20
    BY <1>1, <1>14, <2>4
  <2> HIDE DEF k
  <2>7. /\ Sits(f, a + 9, xc) /\ Sits(f, k, key)
        /\ k + Len(key) =< Len(f) /\ f[k + Len(key)] = Colon
        /\ Sits(f, k + Len(key) + 1, u)
        /\ ClosingAt(f, a + 9 + Len(s) - 3)
        /\ a + 9 + Len(s) = k + Len(key) + Len(u) + 4
    BY <1>10, <2>4, <2>5, <2>9
  <2>8. LineAt(f, a + 9, EcTag, EncodingRaw) /\ LineAt(f, a + 13, YcTag, Size(v))
        /\ LineAt(f, a + 17, XcTag, m)
    BY <1>12, <2>4, <2>7
  <2>10. StringAs(f, a, o, EncodingRaw, k, u)
    BY <2>2, <2>6, <2>8, <2>9 DEF StringAs, v, k
  <2>11. StringAt(f, a, a + 9 + Len(s), o, EncodingRaw, k, u)
    BY <2>7, <2>8, <2>10 DEF StringAt, key
  <2> QED  BY <1>2, <2>5, <2>9, <2>11
<1> QED
  <2> USE DEF yc, ec
  <2> QED  BY <1>0, <1>4, <1>7, <1>8, <1>9, <1>13, <1>14, Zenon

(* A hash or a list stands where its type's line ends. *)
LEMMA WroteWords ==
  ASSUME NEW f \in Text, NEW a \in Nat \ {0}, NEW o \in Objects, NEW ss, NEW s
  PROVE  /\ o.type \in {HashType, ListType}
         /\ ss = IF o.type = HashType THEN HashWords(o.vals) ELSE ListWords(o.vals)
         /\ s = o.key \o Eol \o FlattenSeq(ss) \o Closing
         /\ Sits(f, a + 9, s)
         => \E pos \in [1..(Len(o.vals) + 1) -> Nat] : WordsAt(f, a, a + 9 + Len(s), o, pos)
<1>0. SUFFICES ASSUME o.type \in {HashType, ListType},
                      ss = IF o.type = HashType THEN HashWords(o.vals) ELSE ListWords(o.vals),
                      s = o.key \o Eol \o FlattenSeq(ss) \o Closing,
                      Sits(f, a + 9, s)
               PROVE  \E pos \in [1..(Len(o.vals) + 1) -> Nat] : WordsAt(f, a, a + 9 + Len(s), o, pos)
  OBVIOUS
<1> DEFINE n == Len(o.vals)
           key == o.key
           flat == FlattenSeq(ss)
           e == a + 9 + Len(key)
<1>1. key \in Text /\ o.vals \in Seq(Text) /\ n \in Nat /\ DOMAIN o.vals = 1..n
      /\ \A i \in 1..n : o.vals[i] \in Text /\ Len(o.vals[i]) \in Nat
  BY ObjectType DEF Text
<1>2. ss \in Seq(Text) /\ Len(ss) = n
      /\ \A i \in 1..n : ss[i] = o.vals[i] \o (IF o.type = HashType /\ i % 2 = 1 THEN <<Colon>> ELSE Eol)
  BY <1>0, <1>1, WordsText, TypesDiffer DEF HashWords, ListWords
<1>3. flat \in Text
  BY <1>2, FlattenSits
<1>4. /\ Eol \in Text /\ Closing \in Text /\ Len(Eol) = 2 /\ Len(Closing) = 3
      /\ Colon \in Symbol /\ CR \in Symbol /\ LF \in Symbol
      /\ <<Colon>> \in Text /\ Len(<<Colon>>) = 1
  BY MarksText, SymbolIs, OneText
<1> HIDE DEF flat, key
<1>5. Len(key) \in Nat /\ Len(flat) \in Nat /\ e \in Nat \ {0} /\ a + 9 \in Nat \ {0}
  <2>1. key \in Text
    BY <1>1
  <2>2. Len(key) \in Nat /\ Len(flat) \in Nat
    BY <1>3, <2>1 DEF Text
  <2> QED  BY <2>2
<1> DEFINE s1 == key \o Eol
           s2 == s1 \o flat
<1>6. s1 \in Text /\ Len(s1) = Len(key) + Len(Eol)
  BY <1>1, <1>4, JoinedLen
<1>7. s2 \in Text /\ Len(s2) = Len(s1) + Len(flat)
  <2> HIDE DEF s1
  <2> QED  BY <1>3, <1>6, JoinedLen
<1>8. s2 \o Closing \in Text /\ Len(s2 \o Closing) = Len(s2) + Len(Closing)
  <2> HIDE DEF s2
  <2> QED  BY <1>4, <1>7, JoinedLen
<1>9. s = s2 \o Closing
  BY <1>0 DEF flat, key
<1>10. Sits(f, a + 9, s2) /\ Sits(f, a + 9 + Len(s2), Closing)
  <2> HIDE DEF s2
  <2> QED  BY <1>0, <1>4, <1>5, <1>7, <1>9, SitsJoined, ZenonT(40)
<1>11. Sits(f, a + 9, s1) /\ Sits(f, a + 9 + Len(s1), flat)
  <2> HIDE DEF s1
  <2> QED  BY <1>3, <1>5, <1>6, <1>10, SitsJoined
<1>12. Sits(f, a + 9, key) /\ Sits(f, e, Eol)
  BY <1>1, <1>4, <1>5, <1>11, SitsJoined
<1> DEFINE b == a + 9 + Len(s)
<1> HIDE DEF s1, s2
<1>13. /\ a + 9 + Len(s1) = e + 2
       /\ a + 9 + Len(s2) = b - 3
       /\ e + 2 + Len(flat) = b - 3
       /\ e + 2 \in Nat \ {0} /\ b - 3 \in Nat \ {0}
  <2>1. Len(s) = Len(s2) + 3
    BY <1>4, <1>8, <1>9
  <2>2. Len(s2) = Len(s1) + Len(flat) /\ Len(s1) = Len(key) + 2
    BY <1>4, <1>6, <1>7
  <2> QED  BY <1>5, <2>1, <2>2
<1> HIDE DEF b, e, n
<1>14. e + 1 =< Len(f) /\ f[e] = CR /\ f[e + 1] = LF
  BY <1>4, <1>5, <1>12, TwoSits DEF Eol
<1>15. ClosingAt(f, b - 3)
  BY <1>10, <1>13, ClosingSits
<1>16. Sits(f, e + 2, flat) /\ e + 2 \in Nat \ {0}
  BY <1>11, <1>13
<1>17. PICK pos \in [1..(n + 1) -> Nat] :
         /\ pos[1] = e + 2 /\ pos[n + 1] = e + 2 + Len(flat)
         /\ \A i \in 1..n : Sits(f, pos[i], ss[i]) /\ pos[i + 1] = pos[i] + Len(ss[i])
  <2>1. ss \in Seq(Text) /\ n = Len(ss)
    BY <1>2
  <2>2. \E pos \in [1..(Len(ss) + 1) -> Nat] :
          /\ pos[1] = e + 2 /\ pos[Len(ss) + 1] = e + 2 + Len(flat)
          /\ \A i \in 1..Len(ss) : Sits(f, pos[i], ss[i]) /\ pos[i + 1] = pos[i] + Len(ss[i])
    BY <1>16, <2>1, FlattenSits DEF flat
  <2> QED  BY <2>1, <2>2, Zenon
<1>18. ASSUME NEW i \in 1..n
       PROVE  LET z == pos[i] + Len(o.vals[i]) IN
              /\ Sits(f, pos[i], o.vals[i])
              /\ IF o.type = HashType /\ i % 2 = 1
                   THEN pos[i + 1] = z + 1 /\ f[z] = Colon /\ z =< Len(f)
                   ELSE pos[i + 1] = z + 2 /\ f[z] = CR /\ f[z + 1] = LF /\ z + 1 =< Len(f)
  <2> DEFINE v == o.vals[i]
             p == pos[i]
             z == p + Len(v)
             x == IF o.type = HashType /\ i % 2 = 1 THEN <<Colon>> ELSE Eol
  <2>1. v \in Text /\ Len(v) \in Nat
    BY <1>1
  <2>2. Sits(f, p, ss[i]) /\ ss[i] = v \o x /\ pos[i + 1] = p + Len(ss[i])
    BY <1>2, <1>17
  <2>3. p \in Nat \ {0} /\ z \in Nat \ {0}
    BY <2>1, <2>2 DEF Sits
  <2>4. x \in Text
    BY <1>4
  <2> DEFINE g == ss[i]
             r == pos[i + 1]
  <2>8. Sits(f, p, g) /\ g = v \o x /\ r = p + Len(g)
    BY <2>2
  <2> HIDE DEF v, p, x, g, r
  <2>5. Sits(f, p, v) /\ Sits(f, z, x) /\ Len(g) = Len(v) + Len(x)
    <3>1. Sits(f, p, v \o x)
      BY <2>8
    <3>2. Len(v \o x) = Len(v) + Len(x)
      BY <2>1, <2>4, JoinedLen
    <3> QED  BY <2>1, <2>3, <2>4, <2>8, <3>1, <3>2, SitsJoined
  <2>9. r = z + Len(x)
    <3>1. Len(x) \in Nat
      BY <2>4 DEF Text
    <3>2. r = p + Len(g)
      BY <2>8
    <3>3. Len(g) = Len(v) + Len(x)
      BY <2>5
    <3> QED  BY <2>1, <2>3, <3>1, <3>2, <3>3
  <2> HIDE DEF z
  <2>6. CASE o.type = HashType /\ i % 2 = 1
    <3>1. x = <<Colon>>
      BY <2>6 DEF x
    <3>2. f[z] = Colon /\ z =< Len(f)
      BY <1>4, <2>3, <2>5, <3>1, OneSits
    <3>3. r = z + 1
      BY <1>4, <2>9, <3>1
    <3> QED  BY <2>5, <2>6, <3>2, <3>3 DEF z, p, v, r
  <2>7. CASE ~(o.type = HashType /\ i % 2 = 1)
    <3>1. x = Eol
      BY <2>7 DEF x
    <3>2. f[z] = CR /\ f[z + 1] = LF /\ z + 1 =< Len(f)
      BY <1>4, <2>3, <2>5, <3>1, TwoSits DEF Eol
    <3>3. r = z + 2
      BY <1>4, <2>9, <3>1
    <3> QED  BY <2>5, <2>7, <3>2, <3>3 DEF z, p, v, r
  <2> QED  BY <2>6, <2>7
<1>19. pos[1] = e + 2 /\ pos[n + 1] = b - 3
  BY <1>13, <1>17
<1>20. WordsAt(f, a, b, o, pos)
  BY <1>12, <1>14, <1>15, <1>18, <1>19, Zenon DEF WordsAt, e, n, key
<1> QED  BY <1>20 DEF b, n

(* An object stands where it has been written. *)
LEMMA Wrote ==
  ASSUME NEW f \in Text, NEW a \in Nat \ {0}, NEW o \in Objects, NEW w \in WrittenAs(o),
         Sits(f, a, w)
  PROVE  ObjectAt(f, a, a + Len(w), o) /\ Len(w) \in Nat
<1> DEFINE h == Leader(o)
           t == TypeLine(o)
<1>1. w \in Text /\ Len(w) \in Nat
  BY WrittenText DEF Text
<1>2. h \in Text /\ Len(h) = 5 /\ (Sits(f, a, h) => HeadAt(f, a, o))
  BY HeadSits
<1>3. t \in Text /\ Len(t) = 4 /\ (Sits(f, a + 5, t) => LineAt(f, a + 5, CtpTag, o.type))
  BY LineSits, ObjectType, SymbolIs DEF TypeLine
<1> HIDE DEF h, t
<1>4. h \o t \in Text /\ Len(h \o t) = Len(h) + Len(t)
  BY <1>2, <1>3, JoinedLen
<1>5. ASSUME NEW s \in Text, w = h \o t \o s
      PROVE  /\ HeadAt(f, a, o) /\ LineAt(f, a + 5, CtpTag, o.type) /\ Sits(f, a + 9, s)
             /\ a + Len(w) = a + 9 + Len(s)
  <2> DEFINE g == h \o t
  <2>1. g \in Text /\ Len(g) = 9
    BY <1>2, <1>3, <1>4
  <2>2. Sits(f, a, g) => Sits(f, a, h) /\ Sits(f, a + 5, t)
    BY <1>2, <1>3, SitsJoined
  <2> HIDE DEF g
  <2>3. Sits(f, a, g \o s)
    BY <1>5 DEF g
  <2>4. Sits(f, a, g) /\ Sits(f, a + 9, s)
    BY <2>1, <2>3, SitsJoined
  <2>5. Len(w) = Len(g) + Len(s)
    BY <1>5, <2>1, JoinedLen DEF g
  <2>6. a + Len(w) = a + 9 + Len(s)
    <3>1. Len(s) \in Nat
      BY DEF Text
    <3> QED  BY <2>1, <2>5, <3>1
  <2> QED  BY <1>2, <1>3, <2>2, <2>4, <2>6
<1>6. CASE o.type = StringType
  <2>1. PICK s \in processString(o.key, o.vals[1]) : w = h \o t \o s
    BY <1>6, WrittenIs, TypesDiffer DEF h, t
  <2>2. s \in Text
    <3>1. o.vals[1] \in Text /\ o.key \in Text
      BY <1>6, Encodings, ObjectType
    <3> QED  BY <3>1, StringText
  <2>3. /\ HeadAt(f, a, o) /\ LineAt(f, a + 5, CtpTag, o.type) /\ Sits(f, a + 9, s)
        /\ a + Len(w) = a + 9 + Len(s)
    BY <1>5, <2>1, <2>2
  <2>4. \E enc \in Int, k \in Nat, u \in Text : StringAt(f, a, a + 9 + Len(s), o, enc, k, u)
    BY <1>6, <2>3, WroteString
  <2> QED  BY <1>1, <1>6, <2>3, <2>4 DEF ObjectAt, Typed
<1>7. CASE o.type \in {HashType, ListType}
  <2> DEFINE ss == IF o.type = HashType THEN HashWords(o.vals) ELSE ListWords(o.vals)
             s == o.key \o Eol \o FlattenSeq(ss) \o Closing
  <2>1. w = h \o t \o s
    BY <1>7, WrittenIs, TypesDiffer
       DEF h, t, processHash, processList, HashWords, ListWords
  <2>2. s \in Text
    <3>1. ss \in Seq(Text)
      BY ObjectType, WordsText
    <3>2. FlattenSeq(ss) \in Text
      <4> HIDE DEF ss
      <4> QED  BY <3>1, FlattenSits
    <3> DEFINE fl == FlattenSeq(ss)
    <3> HIDE DEF fl
    <3>3. o.key \o Eol \o fl \o Closing \in Text
      BY <3>2, ObjectType, MarksText, JoinedLen DEF fl
    <3> QED  BY <3>3 DEF fl
  <2> HIDE DEF s, ss
  <2>3. /\ HeadAt(f, a, o) /\ LineAt(f, a + 5, CtpTag, o.type) /\ Sits(f, a + 9, s)
        /\ a + Len(w) = a + 9 + Len(s)
    BY <1>5, <2>1, <2>2
  <2>4. \E pos \in [1..(Len(o.vals) + 1) -> Nat] : WordsAt(f, a, a + 9 + Len(s), o, pos)
    BY <1>7, <2>3, WroteWords DEF s, ss
  <2> QED  BY <1>1, <1>7, <2>3, <2>4, TypesDiffer DEF ObjectAt, Typed
<1>8. CASE o.type \notin {StringType, HashType, ListType}
  <2>1. w = h
    BY <1>8, WrittenIs DEF h
  <2>2. HeadAt(f, a, o) /\ a + Len(w) = a + 5
    BY <1>2, <2>1
  <2> QED  BY <1>1, <1>8, <2>2 DEF ObjectAt, Typed
<1> QED  BY <1>6, <1>7, <1>8

(* What no place inside of an object has, save the few that are named. *)
Clean(f, x) == f[x] # CtpTag /\ f[x] # Nul /\ f[x] # Wild /\ ~ClosingAt(f, x)

LEMMA CleanIf ==
  ASSUME NEW f, NEW x, \/ f[x] # CtpTag /\ f[x] # Nul /\ f[x] # Wild /\ f[x] # CR
                       \/ f[x] = CR /\ f[x + 1] # Dollar
  PROVE  Clean(f, x)
BY MarksDiffer DEF Clean, ClosingAt, Tags

LEMMA LineClean ==
  ASSUME NEW f, NEW a \in Nat, NEW tag \in {EcTag, YcTag, XcTag}, NEW n \in Int,
         LineAt(f, a, tag, n), NEW x \in a..(a + 3)
  PROVE  Clean(f, x)
<1>1. x = a \/ x = a + 1 \/ x = a + 2 \/ x = a + 3
  OBVIOUS
<1>2. CASE x = a
  <2>1. f[x] = tag
    BY <1>2 DEF LineAt
  <2>2. tag # CtpTag /\ tag # Nul /\ tag # CR
    BY MarksDiffer DEF Tags
  <2>3. tag # Wild
    BY MarksDiffer DEF Tags
  <2> QED  BY <2>1, <2>2, <2>3, CleanIf
<1>3. CASE x = a + 1
  <2>1. f[x] = Dec(n)
    BY <1>3 DEF LineAt
  <2> QED  BY <2>1, CleanIf, MarksDiffer DEF Tags
<1>4. CASE x = a + 2
  <2>1. f[x] = CR /\ f[x + 1] = LF
    BY <1>4 DEF LineAt
  <2> QED  BY <2>1, CleanIf, MarksDiffer
<1>5. CASE x = a + 3
  <2>1. f[x] = LF
    BY <1>5 DEF LineAt
  <2>2. LF # CtpTag /\ LF # Nul /\ LF # CR /\ LF # Wild
    BY MarksDiffer DEF Tags
  <2> QED  BY <2>1, <2>2, CleanIf
<1> QED  BY <1>1, <1>2, <1>3, <1>4, <1>5

LEMMA WordClean ==
  ASSUME NEW f, NEW a \in Nat, NEW v \in Seq(Letter), Sits(f, a, v),
         NEW x \in a..(a + Len(v) - 1)
  PROVE  f[x] \in Letter /\ Clean(f, x)
<1>1. x - a + 1 \in 1..Len(v) /\ a + (x - a + 1) - 1 = x
  OBVIOUS
<1>2. f[x] = v[x - a + 1]
  BY <1>1 DEF Sits
<1>3. f[x] \in Letter
  BY <1>1, <1>2
<1> QED  BY <1>3, CleanIf, MarksDiffer DEF Tags

(* What a string's value is written as. *)
LEMMA ValueSits ==
  ASSUME NEW f \in Text, NEW a \in Nat \ {0}, NEW o \in Objects, o.type = StringType,
         NEW enc \in Int, NEW k \in Nat, NEW u \in Text, StringAs(f, a, o, enc, k, u),
         NEW z \in Nat, Sits(f, z, u), NEW x \in z..(z + Len(u) - 1)
  PROVE  \/ f[x] \notin {CR, Nul} \cup Tags /\ (f[x] = Wild => Compressible(o))
         \/ /\ IsSmall(o) /\ x = z /\ Len(u) = 1 /\ enc = EncodingInt
            /\ \/ f[x] = Nul /\ AtoI(o.vals[1]) % 256 = 0
               \/ f[x] = CR /\ AtoI(o.vals[1]) % 256 = 13
<1> DEFINE v == o.vals[1]
           n == AtoI(v)
           i == x - z + 1
<1>1. v \in Text /\ v \in Seq(Letter) /\ n \in Int
  BY Encodings
<1>2. Len(u) \in Nat
  BY DEF Text
<1>3. i \in 1..Len(u) /\ f[x] = u[i]
  <2>1. i \in 1..Len(u) /\ z + i - 1 = x
    BY <1>2
  <2> QED  BY <2>1 DEF Sits
<1> HIDE DEF i, v, n
<1>4. CASE IsSmall(o) /\ u = <<AsInt8(n)>> /\ enc = EncodingInt
  <2>1. Len(u) = 1 /\ i = 1 /\ f[x] = AsInt8(n)
    BY <1>3, <1>4
  <2>2. x = z
    BY <2>1 DEF i
  <2>3. \/ AsInt8(n) \notin {CR, Nul, Wild} \cup Tags
        \/ AsInt8(n) = Nul /\ n % 256 = 0
        \/ AsInt8(n) = CR /\ n % 256 = 13
    BY <1>1, MarksDiffer
  <2> QED  BY <1>4, <2>1, <2>2, <2>3 DEF n, v
<1>5. CASE u = <<Dec(n)>>
  <2>1. f[x] = Dec(n)
    BY <1>3, <1>5
  <2> QED  BY <1>1, <2>1, MarksDiffer
<1>6. CASE u = v
  <2>1. f[x] \in Letter
    BY <1>1, <1>3, <1>6
  <2> QED  BY <2>1, MarksDiffer
<1>7. CASE u \in Packed /\ IsPlain(o) /\ Rep \in ToSet(v)
  <2>1. f[x] = Lzf \/ f[x] = Wild
    <3>1. Len(u) = 1 /\ (u[1] = Lzf \/ u[1] = Wild)
      BY <1>7, PackedText
    <3> QED  BY <1>3, <3>1
  <2>2. Compressible(o)
    BY <1>7 DEF Compressible, Has, v
  <2> QED  BY <2>1, <2>2, MarksDiffer
<1> QED  BY <1>4, <1>5, <1>6, <1>7 DEF StringAs, v, n

(* The places of an object's text from its encoding or key on. *)
BodyClean(f, a, b, o) ==
  /\ b \in Nat /\ a + 12 =< b
  /\ \A x \in (a + 9)..(b - 1) :
       /\ f[x] # CtpTag
       /\ ClosingAt(f, x) => x = b - 3
       /\ f[x] = Nul => IsSmall(o) /\ AtoI(o.vals[1]) % 256 = 0 /\ x = b - 4
       /\ f[x] = Wild => Compressible(o)

LEMMA EndsClean ==
  ASSUME NEW f, NEW b \in Nat, ClosingAt(f, b - 3), NEW x \in (b - 3)..(b - 1)
  PROVE  /\ f[x] # CtpTag /\ f[x] # Nul /\ f[x] # Wild /\ (ClosingAt(f, x) => x = b - 3)
         /\ f[b - 1] = LF /\ f[b - 2] = Dollar /\ f[b - 3] = CR
<1>1. x = b - 3 \/ x = b - 2 \/ x = b - 1
  OBVIOUS
<1>2. (b - 3) + 1 = b - 2 /\ (b - 3) + 2 = b - 1
  OBVIOUS
<1>3. f[b - 3] = CR /\ f[b - 2] = Dollar /\ f[b - 1] = LF
  BY <1>2 DEF ClosingAt
<1>4. f[x] \in {CR, Dollar, LF}
  BY <1>1, <1>3
<1>5. f[x] # CtpTag /\ f[x] # Nul /\ f[x] # Wild
  BY <1>4, MarksDiffer DEF Tags
<1>6. ClosingAt(f, x) => f[x] = CR
  BY DEF ClosingAt
<1> QED  BY <1>1, <1>3, <1>5, <1>6, MarksDiffer

LEMMA StringSection ==
  ASSUME NEW f \in Text, NEW a \in Nat \ {0}, NEW o \in Objects, NEW b, o.type = StringType,
         NEW enc \in Int, NEW k \in Nat, NEW u \in Text, StringAt(f, a, b, o, enc, k, u)
  PROVE  BodyClean(f, a, b, o) /\ ClosingAt(f, b - 3)
<1> DEFINE key == o.key
           m == k + Len(key)
           v == o.vals[1]
           n == AtoI(v)
<1>1. key \in Text /\ key \in Seq(Letter) /\ n \in Int /\ Size(v) \in Int
  BY ObjectType, Encodings
<1>2. Len(u) \in Nat
  BY DEF Text
<1> HIDE DEF key, v, n
<1>3. Len(key) \in Nat /\ m \in Nat
  BY <1>1 DEF Text
<1>4. /\ LineAt(f, a + 9, EcTag, enc) /\ Sits(f, k, key) /\ f[m] = Colon
      /\ Sits(f, m + 1, u) /\ b = m + Len(u) + 4 /\ ClosingAt(f, b - 3)
      /\ StringAs(f, a, o, enc, k, u)
  BY DEF StringAt, key
<1>5. k \in {a + 13, a + 17, a + 21}
  BY <1>4 DEF StringAs
<1>6. ASSUME NEW x \in (a + 13)..(k - 1) PROVE Clean(f, x)
  <2>1. \/ k = a + 13
        \/ k = a + 17 /\ LineAt(f, a + 13, YcTag, Size(v))
        \/ /\ k = a + 21 /\ LineAt(f, a + 13, YcTag, Size(v))
           /\ \E c \in Int : LineAt(f, a + 17, XcTag, c)
    BY <1>4 DEF StringAs, v
  <2>4. a + 13 \in Nat /\ a + 17 \in Nat
    OBVIOUS
  <2>2. LineAt(f, a + 13, YcTag, Size(v)) => (x \in (a + 13)..(a + 13 + 3) => Clean(f, x))
    BY <1>1, <2>4, LineClean
  <2>3. \A c \in Int : LineAt(f, a + 17, XcTag, c) => (x \in (a + 17)..(a + 17 + 3) => Clean(f, x))
    BY <2>4, LineClean
  <2> QED  BY <2>1, <2>2, <2>3
<1> HIDE DEF m
<1>7. /\ b \in Nat /\ a + 17 =< b /\ k =< m /\ m + 1 + Len(u) = b - 3
  BY <1>2, <1>3, <1>4, <1>5 DEF m
<1>8. ASSUME NEW x \in (a + 9)..(b - 1)
      PROVE  /\ f[x] # CtpTag
             /\ ClosingAt(f, x) => x = b - 3
             /\ f[x] = Nul => IsSmall(o) /\ n % 256 = 0 /\ x = b - 4
             /\ f[x] = Wild => Compressible(o)
  <2>1. \/ x \in (a + 9)..(a + 9 + 3) \/ x \in (a + 13)..(k - 1) \/ x \in k..(m - 1) \/ x = m
        \/ x \in (m + 1)..(m + 1 + Len(u) - 1) \/ x \in (b - 3)..(b - 1)
    BY <1>2, <1>3, <1>5, <1>7
  <2>2. CASE Clean(f, x)
    BY <2>2 DEF Clean
  <2>3. CASE x \in (a + 9)..(a + 9 + 3)
    <3>1. a + 9 \in Nat /\ LineAt(f, a + 9, EcTag, enc)
      BY <1>4
    <3> QED  BY <2>2, <2>3, <3>1, LineClean
  <2>4. CASE x \in (a + 13)..(k - 1)
    BY <1>6, <2>2, <2>4
  <2>5. CASE x \in k..(m - 1)
    <3>1. x \in k..(k + Len(key) - 1)
      BY <1>3, <2>5 DEF m
    <3> QED  BY <1>1, <1>4, <2>2, <3>1, WordClean
  <2>6. CASE x = m
    <3>1. Clean(f, x)
      BY <1>4, <2>6, CleanIf, MarksDiffer DEF Tags
    <3> QED  BY <2>2, <3>1
  <2>7. CASE x \in (m + 1)..(m + 1 + Len(u) - 1)
    <3>1. \/ f[x] \notin {CR, Nul} \cup Tags /\ (f[x] = Wild => Compressible(o))
          \/ /\ IsSmall(o) /\ x = m + 1 /\ Len(u) = 1
             /\ \/ f[x] = Nul /\ n % 256 = 0
                \/ f[x] = CR /\ n % 256 = 13
      <4>1. m + 1 \in Nat
        BY <1>3
      <4> QED  BY <1>4, <2>7, <4>1, ValueSits, SMTT(30) DEF n, v
    <3>2. CASE f[x] \notin {CR, Nul} \cup Tags /\ (f[x] = Wild => Compressible(o))
      <4>1. f[x] # CtpTag /\ f[x] # Nul /\ ~ClosingAt(f, x)
        BY <3>2 DEF Tags, ClosingAt
      <4> QED  BY <3>2, <4>1
    <3>3. CASE /\ IsSmall(o) /\ x = m + 1 /\ Len(u) = 1
               /\ \/ f[x] = Nul /\ n % 256 = 0
                  \/ f[x] = CR /\ n % 256 = 13
      <4>1. x = b - 4 /\ x + 1 = b - 3
        BY <1>3, <1>7, <3>3
      <4>2. f[x + 1] = CR
        BY <1>4, <4>1 DEF ClosingAt
      <4>3. f[x] # CtpTag /\ f[x] # Wild /\ ~ClosingAt(f, x)
        BY <3>3, <4>2, MarksDiffer DEF Tags, ClosingAt
      <4>4. f[x] = Nul => n % 256 = 0
        BY <3>3, MarksDiffer
      <4> QED  BY <3>3, <4>1, <4>3, <4>4
    <3> QED  BY <3>1, <3>2, <3>3
  <2>8. CASE x \in (b - 3)..(b - 1)
    BY <1>4, <1>7, <2>8, EndsClean
  <2> QED  BY <2>1, <2>3, <2>4, <2>5, <2>6, <2>7, <2>8
<1> QED  BY <1>4, <1>7, <1>8 DEF BodyClean, n, v

(* The words follow each other. *)
WordsLie(a, b, o, pos) ==
  /\ \A i \in 1..Len(o.vals) : pos[i] + Len(o.vals[i]) < pos[i + 1]
  /\ \A i \in 1..(Len(o.vals) + 1) : a + 11 =< pos[i] /\ pos[i] =< b - 3

LEMMA WordsSection ==
  ASSUME NEW f \in Text, NEW a \in Nat \ {0}, NEW o \in Objects, NEW b \in Nat,
         o.type \in {HashType, ListType},
         NEW pos \in [1..(Len(o.vals) + 1) -> Nat], WordsAt(f, a, b, o, pos)
  PROVE  BodyClean(f, a, b, o) /\ ClosingAt(f, b - 3) /\ WordsLie(a, b, o, pos)
<1> DEFINE key == o.key
           n == Len(o.vals)
           e == a + 9 + Len(key)
           v(i) == o.vals[i]
           z(i) == pos[i] + Len(v(i))
<1>1. key \in Text /\ key \in Seq(Letter) /\ n \in Nat
      /\ \A i \in 1..n : v(i) \in Seq(Letter) /\ Len(v(i)) \in Nat
  <2>1. /\ key \in Text /\ key \in Seq(Letter) /\ n \in Nat
        /\ \A i \in 1..n : v(i) \in Seq(Letter)
    BY ObjectType
  <2>2. \A t \in Seq(Letter) : Len(t) \in Nat
    OBVIOUS
  <2> HIDE DEF key, v, n
  <2> QED  BY <2>1, <2>2
<1>2. /\ Sits(f, a + 9, key) /\ f[e] = CR /\ f[e + 1] = LF
      /\ pos[1] = e + 2 /\ pos[n + 1] = b - 3 /\ ClosingAt(f, b - 3)
      /\ \A i \in 1..n :
          /\ Sits(f, pos[i], v(i))
          /\ IF o.type = HashType /\ i % 2 = 1
               THEN pos[i + 1] = z(i) + 1 /\ f[z(i)] = Colon
               ELSE pos[i + 1] = z(i) + 2 /\ f[z(i)] = CR /\ f[z(i) + 1] = LF
  BY DEF WordsAt
<1>0. \A i \in 1..(n + 1) : pos[i] \in Nat
  OBVIOUS
<1> HIDE DEF key, v, z
<1>3. Len(key) \in Nat /\ e \in Nat
  BY <1>1 DEF Text
<1> HIDE DEF e, n
<1>4. ASSUME NEW i \in 1..n
      PROVE  /\ pos[i] \in Nat /\ pos[i + 1] \in Nat /\ z(i) < pos[i + 1] /\ pos[i] =< z(i)
             /\ z(i) \in Nat /\ z(i) - pos[i] = Len(v(i))
             /\ pos[i + 1] = z(i) + 1 \/ pos[i + 1] = z(i) + 2
  <2>1. pos[i] \in Nat /\ pos[i + 1] \in Nat
    <3>1. i \in 1..(n + 1) /\ i + 1 \in 1..(n + 1)
      BY <1>1
    <3> QED  BY <1>0, <3>1
  <2>2. Len(v(i)) \in Nat
    BY <1>1
  <2>3. pos[i + 1] = z(i) + 1 \/ pos[i + 1] = z(i) + 2
    BY <1>2
  <2> QED  BY <2>1, <2>2, <2>3 DEF z
<1>5. \A i \in 1..(n + 1) : e + 2 =< pos[i]
  <2> DEFINE S == {i \in 1..(n + 1) : e + 2 =< pos[i]}
  <2>1. 1 \in S
    BY <1>1, <1>2, <1>3
  <2>2. \A i \in 1..((n + 1) - 1) : i \in S => i + 1 \in S
    BY <1>1, <1>3, <1>4
  <2> DEFINE l == n + 1
  <2>4. l \in Nat /\ (1 \in S \/ l \in S)
    BY <1>1, <2>1
  <2> HIDE DEF S, l
  <2>3. 1..l \subseteq S
    BY <2>1, <2>2, <2>4, Climb DEF l
  <2> QED  BY <2>3 DEF S, l
<1>6. \A i \in 1..(n + 1) : pos[i] =< b - 3
  <2> DEFINE S == {i \in 1..(n + 1) : pos[i] =< b - 3}
  <2>1. n + 1 \in S
    BY <1>1, <1>2
  <2>2. \A i \in 1..((n + 1) - 1) : i + 1 \in S => i \in S
    BY <1>1, <1>4
  <2> DEFINE l == n + 1
  <2>4. l \in Nat /\ (1 \in S \/ l \in S)
    BY <1>1, <2>1
  <2> HIDE DEF S, l
  <2>3. 1..l \subseteq S
    BY <2>1, <2>2, <2>4, Descend DEF l
  <2> QED  BY <2>3 DEF S, l
<1>7. a + 9 =< e /\ e + 2 =< b - 3
  <2>1. e + 2 =< b - 3
    BY <1>1, <1>2, <1>5
  <2> QED  BY <1>3, <2>1 DEF e
<1>8. ASSUME NEW x \in (a + 9)..(b - 1)
      PROVE  f[x] # CtpTag /\ (ClosingAt(f, x) => x = b - 3) /\ f[x] # Nul /\ f[x] # Wild
  <2>1. \/ x \in (a + 9)..(e - 1) \/ x = e \/ x = e + 1 \/ x \in (e + 2)..(b - 4)
        \/ x \in (b - 3)..(b - 1)
    BY <1>3, <1>7
  <2>2. CASE Clean(f, x)
    BY <2>2 DEF Clean
  <2>3. CASE x \in (a + 9)..(e - 1)
    <3>1. x \in (a + 9)..(a + 9 + Len(key) - 1)
      BY <1>3, <2>3 DEF e
    <3> QED  BY <1>1, <1>2, <2>2, <3>1, WordClean
  <2>4. CASE x = e
    <3>1. Clean(f, x)
      BY <1>2, <2>4, CleanIf, MarksDiffer
    <3> QED  BY <2>2, <3>1
  <2>5. CASE x = e + 1
    <3>1. Clean(f, x)
      BY <1>2, <2>5, CleanIf, MarksDiffer DEF Tags
    <3> QED  BY <2>2, <3>1
  <2>6. CASE x \in (e + 2)..(b - 4)
    <3>1. PICK i \in 1..n : pos[i] =< x /\ x < pos[i + 1]
      <4>1. x \in Nat /\ pos[1] =< x /\ x < pos[n + 1]
        BY <1>2, <1>3, <2>6
      <4> QED  BY <1>1, <4>1, InSection DEF n
    <3>2. \/ x \in pos[i]..(pos[i] + Len(v(i)) - 1)
          \/ x = z(i)
          \/ x = z(i) + 1 /\ pos[i + 1] = z(i) + 2
      <4> DEFINE p == pos[i]
                 r == pos[i + 1]
                 y == z(i)
                 l == Len(v(i))
      <4>1. p \in Nat /\ r \in Nat /\ y \in Nat /\ l \in Nat /\ y - p = l /\ (r = y + 1 \/ r = y + 2)
            /\ p =< x /\ x < r
        BY <1>1, <1>4, <3>1
      <4> HIDE DEF p, r, y, l
      <4>2. x \in p..(p + l - 1) \/ x = y \/ (x = y + 1 /\ r = y + 2)
        BY <4>1
      <4> QED  BY <4>2 DEF p, r, y, l
    <3>3. CASE x \in pos[i]..(pos[i] + Len(v(i)) - 1)
      <4>1. Sits(f, pos[i], v(i)) /\ v(i) \in Seq(Letter) /\ pos[i] \in Nat
        BY <1>1, <1>2, <1>4
      <4> QED  BY <2>2, <3>3, <4>1, WordClean
    <3>4. CASE x = z(i)
      <4>1. f[x] = Colon \/ (f[x] = CR /\ f[x + 1] = LF)
        BY <1>2, <3>4
      <4>2. Clean(f, x)
        BY <4>1, CleanIf, MarksDiffer, ZenonT(40) DEF Tags
      <4> QED  BY <2>2, <4>2
    <3>5. CASE x = z(i) + 1 /\ pos[i + 1] = z(i) + 2
      <4>1. f[x] = LF
        BY <1>2, <1>4, <3>5
      <4>2. Clean(f, x)
        BY <4>1, CleanIf, MarksDiffer DEF Tags
      <4> QED  BY <2>2, <4>2
    <3> QED  BY <3>2, <3>3, <3>4, <3>5
  <2>7. CASE x \in (b - 3)..(b - 1)
    BY <1>2, <2>7, EndsClean
  <2> QED  BY <2>1, <2>3, <2>4, <2>5, <2>6, <2>7
<1>9. BodyClean(f, a, b, o)
  <2>1. a + 12 =< b
    BY <1>3, <1>7
  <2> QED  BY <1>8, <2>1 DEF BodyClean
<1>10. \A i \in 1..n : z(i) < pos[i + 1]
  BY <1>4
<1>11. \A i \in 1..(n + 1) : a + 11 =< pos[i] /\ pos[i] =< b - 3
  BY <1>0, <1>3, <1>5, <1>6, <1>7
<1>12. WordsLie(a, b, o, pos)
  BY <1>10, <1>11 DEF WordsLie, n, v, z
<1> QED  BY <1>2, <1>9, <1>12

(* What the parser may take for a mark, within one object. *)
LEMMA HeadClean ==
  ASSUME NEW f \in Text, NEW a \in Nat \ {0}, NEW o \in Objects, HeadAt(f, a, o),
         NEW x \in a..(a + 4)
  PROVE  Clean(f, x)
<1>1. f[a] = E /\ f[a + 1] = Colon /\ f[a + 2] = Dec(o.end) /\ f[a + 3] = CR /\ f[a + 4] = LF
  BY DEF HeadAt
<1>2. o.end \in Int
  BY ObjectType
<1>3. x = a + 3 \/ f[x] \in {E, Colon, LF, Dec(o.end)}
  BY <1>1
<1>4. CASE x = a + 3
  <2>1. f[x] = CR /\ f[x + 1] = LF
    BY <1>1, <1>4
  <2> QED  BY <2>1, CleanIf, MarksDiffer
<1>5. CASE f[x] \in {E, Colon, LF, Dec(o.end)}
  <2> DEFINE y == f[x]
             d == Dec(o.end)
  <2>1. y \in {E, Colon, LF, d} /\ d # CtpTag /\ d # Nul /\ d # Wild /\ d # CR
    BY <1>2, <1>5, MarksDiffer DEF Tags
  <2> HIDE DEF y, d
  <2>2. y # CtpTag /\ y # Nul /\ y # Wild /\ y # CR
    BY <2>1, MarksDiffer, ZenonT(40) DEF Tags
  <2> QED  BY <2>2, CleanIf DEF y
<1> QED  BY <1>3, <1>4, <1>5

LEMMA TypeLineClean ==
  ASSUME NEW f \in Text, NEW a \in Nat \ {0}, NEW n \in Int, LineAt(f, a, CtpTag, n),
         NEW x \in a..(a + 3)
  PROVE  (x # a => f[x] # CtpTag) /\ f[x] # Nul /\ f[x] # Wild /\ ~ClosingAt(f, x)
<1>1. f[a] = CtpTag /\ f[a + 1] = Dec(n) /\ f[a + 2] = CR /\ f[a + 3] = LF
  BY DEF LineAt
<1>2. CASE x = a
  BY <1>1, <1>2, MarksDiffer DEF Tags, ClosingAt
<1>3. CASE x = a + 2
  <2>1. f[x] = CR /\ f[x + 1] = LF
    BY <1>1, <1>3
  <2>2. Clean(f, x)
    BY <2>1, CleanIf, MarksDiffer
  <2> QED  BY <2>2 DEF Clean
<1>4. CASE x = a + 1 \/ x = a + 3
  <2>1. f[x] \in {LF, Dec(n)}
    BY <1>1, <1>4
  <2>2. f[x] # CtpTag /\ f[x] # Nul /\ f[x] # Wild /\ f[x] # CR
    BY <2>1, MarksDiffer, ZenonT(40) DEF Tags
  <2>3. Clean(f, x)
    BY <2>2, CleanIf
  <2> QED  BY <2>3 DEF Clean
<1> QED  BY <1>2, <1>3, <1>4

LEMMA Section ==
  ASSUME NEW f \in Text, NEW a \in Nat \ {0}, NEW b \in Nat, NEW o \in Objects,
         ObjectAt(f, a, b, o)
  PROVE  /\ a + 5 =< b /\ f[b - 1] = LF /\ HeadAt(f, a, o)
         /\ Typed(o) => a + 12 =< b /\ ClosingAt(f, b - 3) /\ LineAt(f, a + 5, CtpTag, o.type)
         /\ \A x \in a..(b - 1) :
              /\ f[x] = CtpTag => Typed(o) /\ x = a + 5
              /\ ClosingAt(f, x) => Typed(o) /\ x = b - 3
              /\ f[x] = Nul => IsSmall(o) /\ AtoI(o.vals[1]) % 256 = 0 /\ x = b - 4
              /\ f[x] = Wild => Compressible(o)
<1>1. HeadAt(f, a, o) /\ o.type \in Int
  BY ObjectType DEF ObjectAt
<1>2. CASE ~Typed(o)
  <2>1. b = a + 5
    BY <1>2 DEF ObjectAt
  <2>2. f[b - 1] = LF
    <3>1. b - 1 = a + 4
      BY <2>1
    <3> QED  BY <1>1, <3>1 DEF HeadAt
  <2>3. \A x \in a..(b - 1) : Clean(f, x)
    BY <1>1, <2>1, HeadClean
  <2> QED  BY <1>1, <1>2, <2>1, <2>2, <2>3 DEF Clean
<1>3. CASE Typed(o)
  <2>1. LineAt(f, a + 5, CtpTag, o.type)
    BY <1>3 DEF ObjectAt
  <2>2. BodyClean(f, a, b, o) /\ ClosingAt(f, b - 3)
    <3>1. CASE o.type = StringType
      BY <1>3, <3>1, StringSection DEF ObjectAt
    <3>2. CASE o.type \in {HashType, ListType}
      <4>1. PICK pos \in [1..(Len(o.vals) + 1) -> Nat] : WordsAt(f, a, b, o, pos)
        BY <1>3, <3>2, TypesDiffer DEF ObjectAt
      <4> QED  BY <3>2, <4>1, WordsSection
    <3> QED  BY <1>3, <3>1, <3>2 DEF Typed
  <2>3. a + 12 =< b
    BY <2>2 DEF BodyClean
  <2>4. ASSUME NEW x \in a..(b - 1)
        PROVE  /\ f[x] = CtpTag => x = a + 5
               /\ ClosingAt(f, x) => x = b - 3
               /\ f[x] = Nul => IsSmall(o) /\ AtoI(o.vals[1]) % 256 = 0 /\ x = b - 4
               /\ f[x] = Wild => Compressible(o)
    <3>1. CASE x \in a..(a + 4)
      BY <1>1, <3>1, HeadClean DEF Clean
    <3>2. CASE x \in (a + 5)..(a + 5 + 3)
      BY <1>1, <2>1, <3>2, TypeLineClean
    <3>3. CASE x \in (a + 9)..(b - 1)
      BY <2>2, <3>3 DEF BodyClean
    <3> QED  BY <3>1, <3>2, <3>3
  <2>5. f[b - 1] = LF
    BY <2>2, <2>3, EndsClean
  <2> QED  BY <1>1, <1>3, <2>1, <2>2, <2>3, <2>4, <2>5
<1> QED  BY <1>2, <1>3

(* The object o with which the file ends for the parser: a zero stands in  *)
(* it for the value.                                                       *)
CutAt(f, a, o) ==
  /\ HeadAt(f, a, o) /\ LineAt(f, a + 5, CtpTag, o.type) /\ LineAt(f, a + 9, EcTag, EncodingInt)
  /\ Sits(f, a + 13, o.key) /\ Len(f) = a + 13 + Len(o.key) /\ f[Len(f)] = Colon
  /\ IsSmall(o) /\ AtoI(o.vals[1]) % 256 = 0

LEMMA CutSection ==
  ASSUME NEW f \in Text, NEW a \in Nat \ {0}, NEW o \in Objects, CutAt(f, a, o)
  PROVE  /\ Typed(o) /\ a + 12 =< Len(f) + 1
         /\ \A x \in a..Len(f) : /\ f[x] = CtpTag => x = a + 5
                                 /\ ~ClosingAt(f, x) /\ f[x] # Wild
<1> DEFINE key == o.key
<1>1. key \in Text /\ key \in Seq(Letter) /\ o.type \in Int /\ EncodingInt \in Int
  BY ObjectType DEF EncodingInt
<1>2. /\ HeadAt(f, a, o) /\ LineAt(f, a + 5, CtpTag, o.type) /\ LineAt(f, a + 9, EcTag, EncodingInt)
      /\ Sits(f, a + 13, key) /\ Len(f) = a + 13 + Len(key) /\ f[Len(f)] = Colon
  BY DEF CutAt
<1> HIDE DEF key
<1>3. Len(key) \in Nat
  BY <1>1 DEF Text
<1>4. Typed(o)
  BY DEF CutAt, IsSmall, IsIntIn, Typed
<1>5. ASSUME NEW x \in a..Len(f)
      PROVE  (f[x] = CtpTag => x = a + 5) /\ ~ClosingAt(f, x) /\ f[x] # Wild
  <2>1. CASE x \in a..(a + 4)
    BY <1>2, <2>1, HeadClean DEF Clean
  <2>2. CASE x \in (a + 5)..(a + 5 + 3)
    BY <1>1, <1>2, <2>2, TypeLineClean
  <2>3. CASE x \in (a + 9)..(a + 9 + 3)
    <3>1. a + 9 \in Nat
      OBVIOUS
    <3> QED  BY <1>1, <1>2, <2>3, <3>1, LineClean DEF Clean
  <2>4. CASE x \in (a + 13)..(a + 13 + Len(key) - 1)
    <3>1. a + 13 \in Nat
      OBVIOUS
    <3> QED  BY <1>1, <1>2, <2>4, <3>1, WordClean DEF Clean
  <2>5. CASE x = Len(f)
    <3>1. Clean(f, x)
      BY <1>2, <2>5, CleanIf, MarksDiffer DEF Tags
    <3> QED  BY <3>1 DEF Clean
  <2> QED  BY <1>2, <1>3, <2>1, <2>2, <2>3, <2>4, <2>5
<1> QED  BY <1>2, <1>3, <1>4, <1>5

HeadOf(f) ==
  /\ 7 =< Len(f) /\ f[1] = RedisTag /\ f[2] = CR /\ f[3] = LF
  /\ f[4] = IdTag /\ f[5] = Dec(0) /\ f[6] = CR /\ f[7] = LF

(* The file f as the parser sees it: a head, n objects, the j-th of them   *)
(* at start[j], and an end of line; or, cut, nothing behind the colon of the  *)
(* last of them.                                                           *)
Laid(ss, f, start, n, cut) ==
  /\ f \in Text /\ cut \in BOOLEAN /\ n \in 0..Len(ss) /\ start \in [1..(n + 1) -> Nat]
  /\ HeadOf(f) /\ start[1] = 8
  /\ \A j \in 1..n : ~(cut /\ j = n) => ObjectAt(f, start[j], start[j + 1], ss[j])
  /\ IF cut THEN n # 0 /\ start[n + 1] = Len(f) + 1 /\ CutAt(f, start[n], ss[n])
            ELSE /\ n = Len(ss) /\ start[n + 1] + 1 = Len(f)
                 /\ f[start[n + 1]] = CR /\ f[start[n + 1] + 1] = LF

(* The places of the marks in it. *)
Marks(ss, f, start, n, cut) ==
  /\ \A j \in 1..n : /\ HeadAt(f, start[j], ss[j])
                     /\ Typed(ss[j]) => LineAt(f, start[j] + 5, CtpTag, ss[j].type)
                     /\ cut /\ j = n => Typed(ss[j])
                     /\ ~(cut /\ j = n) =>
                          /\ f[start[j + 1] - 1] = LF
                          /\ Typed(ss[j]) => ClosingAt(f, start[j + 1] - 3)
  /\ \A j \in 1..n : start[j] + 5 =< start[j + 1] /\ (Typed(ss[j]) => start[j] + 12 =< start[j + 1])
  /\ \A i, j \in 1..(n + 1) : i < j => start[i] + 5 =< start[j]
  /\ \A x \in 1..Len(f) :
       /\ f[x] = CtpTag => \E j \in 1..n : Typed(ss[j]) /\ x = start[j] + 5
       /\ ClosingAt(f, x) => \E j \in 1..n : Typed(ss[j]) /\ ~(cut /\ j = n) /\ x = start[j + 1] - 3
       /\ f[x] = E => x < start[n + 1]
       /\ f[x] = E => 8 =< x
       /\ f[x] = Wild => \E j \in 1..n : Compressible(ss[j])

LEMMA Landmarks ==
  ASSUME NEW ss \in Seq(Objects), NEW f, NEW start, NEW n, NEW cut, Laid(ss, f, start, n, cut)
  PROVE  Marks(ss, f, start, n, cut)
<1>1. /\ f \in Text /\ cut \in BOOLEAN /\ n \in Nat /\ start \in [1..(n + 1) -> Nat]
      /\ start[1] = 8 /\ Len(f) \in Nat /\ n =< Len(ss)
  BY DEF Laid, Text
<1>2. \A j \in 1..n : ss[j] \in Objects
  BY <1>1
<1>3. \A j \in 1..(n + 1) : start[j] \in Nat
  BY <1>1
<1> DEFINE Piece(j) ==
             /\ start[j] + 5 =< start[j + 1] /\ HeadAt(f, start[j], ss[j])
             /\ Typed(ss[j]) => start[j] + 12 =< start[j + 1] /\ LineAt(f, start[j] + 5, CtpTag, ss[j].type)
             /\ cut /\ j = n => Typed(ss[j])
             /\ ~(cut /\ j = n) =>
                  /\ f[start[j + 1] - 1] = LF
                  /\ Typed(ss[j]) => ClosingAt(f, start[j + 1] - 3)
             /\ \A x \in start[j]..(start[j + 1] - 1) :
                  /\ f[x] = CtpTag => Typed(ss[j]) /\ x = start[j] + 5
                  /\ ClosingAt(f, x) => Typed(ss[j]) /\ x = start[j + 1] - 3 /\ ~(cut /\ j = n)
                  /\ f[x] = Wild => Compressible(ss[j])
<1>4. ASSUME NEW j \in 1..n, start[j] \in Nat \ {0} PROVE Piece(j)
  <2> DEFINE a == start[j]
             b == start[j + 1]
             o == ss[j]
  <2>1. a \in Nat \ {0} /\ b \in Nat /\ o \in Objects
    <3>1. j + 1 \in 1..(n + 1)
      BY <1>1
    <3> QED  BY <1>2, <1>3, <1>4, <3>1
  <2>2. CASE ~(cut /\ j = n)
    <3>1. ObjectAt(f, a, b, o)
      BY <2>2 DEF Laid
    <3> HIDE DEF a, b, o
    <3>2. /\ a + 5 =< b /\ f[b - 1] = LF /\ HeadAt(f, a, o)
          /\ Typed(o) => a + 12 =< b /\ ClosingAt(f, b - 3) /\ LineAt(f, a + 5, CtpTag, o.type)
      BY <1>1, <2>1, <3>1, Section
    <3>3. ASSUME NEW x \in a..(b - 1)
          PROVE  /\ f[x] = CtpTag => Typed(o) /\ x = a + 5
                 /\ ClosingAt(f, x) => Typed(o) /\ x = b - 3
                 /\ f[x] = Wild => Compressible(o)
      BY <1>1, <2>1, <3>1, Section
    <3> QED  BY <2>2, <3>2, <3>3, Zenon DEF a, b, o
  <2>3. CASE cut /\ j = n
    <3>1. CutAt(f, a, o) /\ b = Len(f) + 1
      BY <1>1, <2>3 DEF Laid
    <3> HIDE DEF a, b, o
    <3>2. /\ Typed(o) /\ a + 12 =< Len(f) + 1
          /\ \A x \in a..Len(f) : /\ f[x] = CtpTag => x = a + 5
                                  /\ ~ClosingAt(f, x) /\ f[x] # Wild
      BY <1>1, <2>1, <3>1, CutSection
    <3>3. HeadAt(f, a, o) /\ LineAt(f, a + 5, CtpTag, o.type)
      BY <3>1 DEF CutAt
    <3>4. /\ a + 5 =< b /\ a + 12 =< b
          /\ \A x \in a..(b - 1) : /\ f[x] = CtpTag => x = a + 5
                                   /\ ~ClosingAt(f, x) /\ f[x] # Wild
      BY <1>1, <2>1, <3>1, <3>2
    <3> QED  BY <2>3, <3>2, <3>3, <3>4, Zenon DEF a, b, o
  <2> QED  BY <2>2, <2>3
<1>5. \A j \in 1..(n + 1) : start[j] \in Nat \ {0}
  <2> DEFINE S == {j \in 1..(n + 1) : start[j] \in Nat \ {0}}
             l == n + 1
  <2>1. 1 \in S /\ l \in Nat
    BY <1>1
  <2>2. ASSUME NEW j \in 1..(l - 1), j \in S PROVE j + 1 \in S
    <3>1. j \in 1..n /\ j + 1 \in 1..(n + 1) /\ start[j] \in Nat \ {0}
      BY <1>1, <2>2
    <3>2. start[j] + 5 =< start[j + 1]
      BY <1>4, <3>1
    <3> QED  BY <1>3, <3>1, <3>2
  <2> HIDE DEF S, l
  <2>3. 1..l \subseteq S
    BY <2>1, <2>2, Climb
  <2> QED  BY <2>3 DEF S, l
<1>6. ASSUME NEW j \in 1..n PROVE Piece(j)
  <2>1. j \in 1..(n + 1)
    BY <1>1
  <2> QED  BY <1>4, <1>5, <2>1
<1>7. ASSUME NEW i \in 1..(n + 1), NEW j \in 1..(n + 1), i < j PROVE start[i] + 5 =< start[j]
  <2> DEFINE S == {m \in 1..(n + 1) : i < m => start[i] + 5 =< start[m]}
             l == n + 1
  <2>1. 1 \in S /\ l \in Nat
    BY <1>1
  <2>2. ASSUME NEW m \in 1..(l - 1), m \in S PROVE m + 1 \in S
    <3>1. m \in 1..n /\ m + 1 \in 1..(n + 1) /\ m \in 1..(n + 1)
      BY <1>1
    <3>2. start[m] + 5 =< start[m + 1] /\ start[m] \in Nat /\ start[m + 1] \in Nat /\ start[i] \in Nat
      BY <1>3, <1>6, <3>1
    <3>3. i < m + 1 => i = m \/ i < m
      BY <3>1
    <3>4. i < m => start[i] + 5 =< start[m]
      BY <2>2
    <3>5. i < m + 1 => start[i] + 5 =< start[m + 1]
      BY <3>2, <3>3, <3>4
    <3> QED  BY <3>1, <3>5
  <2> HIDE DEF S, l
  <2>3. 1..l \subseteq S
    BY <2>1, <2>2, Climb
  <2> QED  BY <1>7, <2>3 DEF S, l
<1>8. start[n + 1] \in Nat \ {0} /\ 7 =< Len(f)
      /\ (cut => start[n + 1] = Len(f) + 1)
      /\ (~cut => start[n + 1] + 1 = Len(f) /\ f[start[n + 1]] = CR /\ f[start[n + 1] + 1] = LF)
  <2>1. n + 1 \in 1..(n + 1)
    BY <1>1
  <2> QED  BY <1>1, <1>5, <2>1 DEF Laid, HeadOf
<1>9. ASSUME NEW x \in 1..Len(f)
      PROVE  /\ f[x] = CtpTag => \E j \in 1..n : Typed(ss[j]) /\ x = start[j] + 5
             /\ ClosingAt(f, x) => \E j \in 1..n : Typed(ss[j]) /\ ~(cut /\ j = n) /\ x = start[j + 1] - 3
             /\ f[x] = E => x < start[n + 1]
             /\ f[x] = E => 8 =< x
             /\ f[x] = Wild => \E j \in 1..n : Compressible(ss[j])
  <2>1. CASE x \in 1..7
    <3>1. x = 1 \/ x = 2 \/ x = 3 \/ x = 4 \/ x = 5 \/ x = 6 \/ x = 7
      BY <2>1
    <3>2. f[x] \in {RedisTag, LF, IdTag, Dec(0)} \/ (f[x] = CR /\ f[x + 1] = LF)
      <4>1. f[1] = RedisTag /\ f[2] = CR /\ f[3] = LF /\ f[4] = IdTag /\ f[5] = Dec(0)
            /\ f[6] = CR /\ f[7] = LF
        BY DEF Laid, HeadOf
      <4>2. 2 + 1 = 3 /\ 6 + 1 = 7
        OBVIOUS
      <4>3. CASE x = 2 \/ x = 6
        BY <4>1, <4>2, <4>3
      <4>4. CASE x = 1 \/ x = 3 \/ x = 4 \/ x = 5 \/ x = 7
        BY <4>1, <4>4
      <4> QED  BY <3>1, <4>3, <4>4
    <3>3. f[x] # CtpTag /\ f[x] # E /\ ~ClosingAt(f, x) /\ f[x] # Wild
      <4>1. RedisTag # CtpTag /\ RedisTag # E /\ RedisTag # CR
        BY DEF RedisTag, CtpTag, E, CR, Ch
      <4>2. Dec(0) # CtpTag /\ Dec(0) # E /\ Dec(0) # CR
        BY MarksDiffer DEF Tags
      <4>5. Wild # CR /\ Wild # LF /\ Wild # RedisTag /\ Wild # IdTag
        BY MarksDiffer DEF Tags
      <4>6. Wild # Dec(0)
        BY MarksDiffer
      <4>3. IdTag # CtpTag /\ IdTag # E /\ IdTag # CR /\ LF # CtpTag /\ CR # CtpTag
        BY MarksDiffer DEF Tags
      <4>4. CR # E /\ LF # CR /\ LF # E /\ LF # Dollar
        BY MarksDiffer
      <4>7. f[x] # Wild
        BY <3>2, <4>5, <4>6
      <4> QED  BY <3>2, <4>1, <4>2, <4>3, <4>4, <4>7 DEF ClosingAt
    <3> QED  BY <3>3
  <2>2. CASE x >= start[1] /\ x < start[n + 1]
    <3>1. PICK j \in 1..n : start[j] =< x /\ x < start[j + 1]
      <4>1. x \in Nat /\ start[1] =< x
        BY <1>1, <2>2
      <4> QED  BY <1>1, <2>2, <4>1, InSection
    <3>2. start[j] \in Nat /\ start[j + 1] \in Nat
      BY <1>1, <1>3
    <3>3. x \in start[j]..(start[j + 1] - 1)
      BY <3>1, <3>2
    <3>4. Piece(j)
      BY <1>6
    <3>5. f[x] = CtpTag => Typed(ss[j]) /\ x = start[j] + 5
      BY <3>3, <3>4
    <3>6. ClosingAt(f, x) => Typed(ss[j]) /\ x = start[j + 1] - 3 /\ ~(cut /\ j = n)
      BY <3>3, <3>4
    <3>7. f[x] = Wild => Compressible(ss[j])
      BY <3>3, <3>4
    <3> QED  BY <1>1, <2>2, <3>5, <3>6, <3>7
  <2>3. CASE x >= start[n + 1]
    <3>1. ~cut /\ (x = start[n + 1] \/ x = start[n + 1] + 1)
      BY <1>1, <1>8, <2>3
    <3>2. f[x] = LF \/ (f[x] = CR /\ f[x + 1] = LF)
      BY <1>8, <3>1
    <3>3. f[x] # CtpTag /\ f[x] # E /\ ~ClosingAt(f, x) /\ f[x] # Wild
      BY <3>2, MarksDiffer DEF Tags, ClosingAt
    <3> QED  BY <3>3
  <2> QED  BY <1>1, <1>8, <2>1, <2>2, <2>3
<1> QED
  <2> HIDE DEF Piece
  <2>1. \A j \in 1..n :
                     /\ HeadAt(f, start[j], ss[j])
                     /\ Typed(ss[j]) => LineAt(f, start[j] + 5, CtpTag, ss[j].type)
                     /\ cut /\ j = n => Typed(ss[j])
                     /\ ~(cut /\ j = n) =>
                          /\ f[start[j + 1] - 1] = LF
                          /\ Typed(ss[j]) => ClosingAt(f, start[j + 1] - 3)
    BY <1>6 DEF Piece
  <2>2. \A j \in 1..n : start[j] + 5 =< start[j + 1] /\ (Typed(ss[j]) => start[j] + 12 =< start[j + 1])
    BY <1>6 DEF Piece
  <2> QED  BY <1>7, <1>9, <2>1, <2>2 DEF Marks

-----------------------------------------------------------------------------
(* The file while it is written, and as it is loaded. *)

Distinct == \A i, j \in 1..Len(saved) : i # j => ~SamePlace(saved[i], saved[j])

(* Each object has been written behind the one before. *)
Grown(ss, t, start) ==
  /\ start \in [1..(Len(ss) + 1) -> Nat]
  /\ start[1] = 8 /\ start[Len(ss) + 1] = Len(t) + 1
  /\ \A j \in 1..Len(ss) :
       \E w \in WrittenAs(ss[j]) : Sits(t, start[j], w) /\ start[j + 1] = start[j] + Len(w)

WriteInv == stage = "write" => HeadOf(text) /\ \E start : Grown(saved, text, start)

LEMMA Mono ==
  ASSUME NEW n \in Nat, NEW start \in [1..(n + 1) -> Nat],
         \A j \in 1..n : start[j] =< start[j + 1],
         NEW i \in 1..(n + 1), NEW j \in 1..(n + 1), i =< j
  PROVE  start[i] =< start[j]
<1> DEFINE S == {m \in 1..(n + 1) : i =< m => start[i] =< start[m]}
           l == n + 1
<1>1. 1 \in S /\ l \in Nat
  OBVIOUS
<1>2. ASSUME NEW m \in 1..(l - 1), m \in S PROVE m + 1 \in S
  <2>1. m \in 1..n /\ m + 1 \in 1..(n + 1) /\ m \in 1..(n + 1)
    OBVIOUS
  <2>2. start[m] =< start[m + 1] /\ start[m] \in Nat /\ start[m + 1] \in Nat /\ start[i] \in Nat
    BY <2>1
  <2>3. i =< m + 1 => i = m + 1 \/ i =< m
    BY <2>1
  <2>4. i =< m => start[i] =< start[m]
    BY <1>2
  <2>5. i =< m + 1 => start[i] =< start[m + 1]
    BY <2>2, <2>3, <2>4
  <2> QED  BY <2>1, <2>5
<1> HIDE DEF S, l
<1>3. 1..l \subseteq S
  BY <1>1, <1>2, Climb
<1> QED  BY <1>3 DEF S, l

LEMMA AppendSits ==
  ASSUME NEW t \in Text, NEW w \in Text
  PROVE  /\ Sits(t \o w, Len(t) + 1, w) /\ t \o w \in Text
         /\ Len(t \o w) = Len(t) + Len(w) /\ Len(t) \in Nat /\ Len(w) \in Nat
         /\ \A k \in 1..Len(t) : (t \o w)[k] = t[k]
<1> DEFINE g == t \o w
<1>1. g \in Text /\ Len(g) = Len(t) + Len(w) /\ Len(t) \in Nat /\ Len(w) \in Nat
      /\ (\A k \in 1..Len(t) : g[k] = t[k])
      /\ (\A k \in 1..Len(g) : k > Len(t) => g[k] = w[k - Len(t)])
  BY ConcatProperties DEF Text
<1> HIDE DEF g
<1>2. ASSUME NEW k \in 1..Len(w) PROVE g[(Len(t) + 1) + k - 1] = w[k]
  <2>1. (Len(t) + 1) + k - 1 = Len(t) + k /\ Len(t) + k \in 1..Len(g) /\ Len(t) + k > Len(t)
        /\ (Len(t) + k) - Len(t) = k
    BY <1>1
  <2> QED  BY <1>1, <2>1
<1>3. Len(t) + 1 \in Nat \ {0} /\ (Len(t) + 1) + Len(w) - 1 =< Len(g)
  BY <1>1
<1>4. Sits(g, Len(t) + 1, w)
  BY <1>2, <1>3 DEF Sits
<1> QED  BY <1>1, <1>4 DEF g

LEMMA GrownStep ==
  ASSUME TypeInv, WriteInv, Distinct, NEW o \in Objects, WriteObject(o)
  PROVE  WriteInv' /\ Distinct'
<1> DEFINE n == Len(saved)
<1>1. saved \in Seq(Objects) /\ text \in Text /\ n \in Nat /\ Len(text) \in Nat
  BY DEF TypeInv, Text
<1>2. /\ saved' = Append(saved, o) /\ Len(saved') = n + 1 /\ saved'[n + 1] = o
      /\ \A j \in 1..n : saved'[j] = saved[j]
  BY <1>1 DEF WriteObject
<1>3. PICK w \in WrittenAs(o) : text' = text \o w
  BY DEF WriteObject
<1>4. w \in Text
  BY WrittenText
<1>5. /\ Sits(text', Len(text) + 1, w) /\ text' \in Text
      /\ Len(text') = Len(text) + Len(w) /\ Len(w) \in Nat
      /\ \A k \in 1..Len(text) : text'[k] = text[k]
  BY <1>1, <1>3, <1>4, AppendSits
<1>6. HeadOf(text) /\ \E start : Grown(saved, text, start)
  BY DEF WriteInv, WriteObject
<1>7. HeadOf(text')
  <2>1. 1 \in 1..Len(text) /\ 2 \in 1..Len(text) /\ 3 \in 1..Len(text) /\ 4 \in 1..Len(text)
        /\ 5 \in 1..Len(text) /\ 6 \in 1..Len(text) /\ 7 \in 1..Len(text)
    BY <1>1, <1>6 DEF HeadOf
  <2>2. text'[1] = text[1] /\ text'[2] = text[2] /\ text'[3] = text[3] /\ text'[4] = text[4]
        /\ text'[5] = text[5] /\ text'[6] = text[6] /\ text'[7] = text[7]
    BY <1>5, <2>1
  <2>3. 7 =< Len(text')
    BY <1>1, <1>5, <1>6 DEF HeadOf
  <2> QED  BY <1>6, <2>2, <2>3 DEF HeadOf
<1>8. PICK start : Grown(saved, text, start)
  BY <1>6
<1>9. /\ start \in [1..(n + 1) -> Nat] /\ start[1] = 8 /\ start[n + 1] = Len(text) + 1
      /\ \A j \in 1..n :
           \E x \in WrittenAs(saved[j]) : Sits(text, start[j], x) /\ start[j + 1] = start[j] + Len(x)
  BY <1>8 DEF Grown
<1> HIDE DEF n
<1> DEFINE bt == [j \in 1..((n + 1) + 1) |-> IF j = n + 2 THEN start[n + 1] + Len(w) ELSE start[j]]
<1>10. bt \in [1..((n + 1) + 1) -> Nat] /\ bt[1] = 8 /\ bt[(n + 1) + 1] = Len(text') + 1
  <2>1. start[n + 1] + Len(w) \in Nat
    BY <1>1, <1>5, <1>9
  <2>2. \A j \in 1..((n + 1) + 1) : j # n + 2 => start[j] \in Nat
    BY <1>1, <1>9
  <2>3. bt \in [1..((n + 1) + 1) -> Nat]
    BY <2>1, <2>2
  <2>4. (n + 1) + 1 = n + 2 /\ (n + 1) + 1 \in 1..((n + 1) + 1) /\ 1 \in 1..((n + 1) + 1) /\ 1 # n + 2
    BY <1>1
  <2>5. bt[(n + 1) + 1] = start[n + 1] + Len(w)
    BY <2>4
  <2>6. start[n + 1] + Len(w) = Len(text') + 1
    BY <1>1, <1>5, <1>9
  <2> QED  BY <1>9, <2>3, <2>4, <2>5, <2>6
<1>11. ASSUME NEW j \in 1..(n + 1)
       PROVE  \E x \in WrittenAs(saved'[j]) : Sits(text', bt[j], x) /\ bt[j + 1] = bt[j] + Len(x)
  <2>1. CASE j = n + 1
    <3>1. bt[j] = Len(text) + 1 /\ bt[j + 1] = bt[j] + Len(w)
      BY <1>1, <1>9, <2>1
    <3> QED  BY <1>2, <1>5, <2>1, <3>1
  <2>2. CASE j \in 1..n
    <3>1. PICK x \in WrittenAs(saved[j]) : Sits(text, start[j], x) /\ start[j + 1] = start[j] + Len(x)
      BY <1>9, <2>2
    <3>2. bt[j] = start[j] /\ bt[j + 1] = start[j + 1] /\ start[j] \in Nat
      BY <1>1, <1>9, <2>2
    <3>3. x \in Text
      <4>1. saved[j] \in Objects
        BY <1>1, <2>2 DEF n
      <4> QED  BY <4>1, WrittenText
    <3>4. Sits(text \o w, start[j], x)
      BY <1>1, <1>4, <3>1, <3>2, <3>3, SitsLonger
    <3> QED  BY <1>2, <1>3, <2>2, <3>1, <3>2, <3>4
  <2>3. j = n + 1 \/ j \in 1..n
    BY <1>1
  <2> HIDE DEF bt
  <2> QED  BY <2>1, <2>2, <2>3
<1> HIDE DEF bt
<1>12. Grown(saved', text', bt)
  <2>1. Len(saved') = n + 1
    BY <1>2
  <2> DEFINE ss == saved'
             t == text'
             l == n + 1
  <2>2. /\ bt \in [1..(l + 1) -> Nat] /\ bt[1] = 8 /\ bt[l + 1] = Len(t) + 1 /\ l = Len(ss)
        /\ \A j \in 1..l :
             \E x \in WrittenAs(ss[j]) : Sits(t, bt[j], x) /\ bt[j + 1] = bt[j] + Len(x)
    BY <1>10, <1>11, <2>1
  <2> HIDE DEF ss, t, l
  <2>3. Grown(ss, t, bt)
    BY <2>2, Zenon DEF Grown
  <2> QED  BY <2>3 DEF ss, t
<1>13. ASSUME NEW i \in 1..Len(saved'), NEW j \in 1..Len(saved'), i # j
       PROVE  ~SamePlace(saved'[i], saved'[j])
  <2>1. \A k \in 1..n : ~SamePlace(o, saved[k])
    BY <1>1 DEF WriteObject, n
  <2>2. \A k \in 1..n : ~SamePlace(saved[k], o)
    BY <2>1 DEF SamePlace
  <2>3. i \in 1..n \/ i = n + 1
    BY <1>1, <1>2
  <2>4. j \in 1..n \/ j = n + 1
    BY <1>1, <1>2
  <2>5. CASE i \in 1..n /\ j \in 1..n
    BY <1>2, <1>13, <2>5 DEF Distinct, n
  <2>6. CASE i = n + 1 /\ j \in 1..n
    BY <1>2, <2>1, <2>6
  <2>7. CASE i \in 1..n /\ j = n + 1
    BY <1>2, <2>2, <2>7
  <2> QED  BY <1>13, <2>3, <2>4, <2>5, <2>6, <2>7
<1>14. Distinct'
  BY <1>13 DEF Distinct
<1>15. WriteInv'
  BY <1>7, <1>12 DEF WriteInv, HeadOf
<1> QED  BY <1>14, <1>15

LEMMA KindsApart ==
  ASSUME NEW o \in Objects
  PROVE  /\ IsSmall(o) => ~IsMiddle(o) /\ ~IsWide(o) /\ ~IsPlain(o)
         /\ IsMiddle(o) => ~IsWide(o) /\ ~IsPlain(o)
         /\ IsWide(o) => ~IsPlain(o)
         /\ IsSmall(o) \/ IsMiddle(o) \/ IsWide(o) \/ IsPlain(o) => o.type = StringType
<1> DEFINE n == AtoI(o.vals[1])
<1>1. o.type = StringType => n \in Int
  BY Encodings
<1>2. Least \in Int /\ Least =< 127
  BY DEF Least
<1> HIDE DEF n
<1>3. /\ IsSmall(o) <=> o.type = StringType /\ IsNumber(o.vals[1]) /\ Least =< n /\ n < 127
      /\ IsMiddle(o) <=> o.type = StringType /\ IsNumber(o.vals[1]) /\ 127 =< n /\ n < 32767
      /\ IsWide(o) <=> o.type = StringType /\ IsNumber(o.vals[1]) /\ 32767 =< n /\ n < 2147483647
      /\ IsPlain(o) <=> /\ o.type = StringType
                        /\ ~(IsNumber(o.vals[1]) /\ Least =< n /\ n < 2147483647)
  BY DEF IsSmall, IsMiddle, IsWide, IsPlain, IsIntIn, n
<1>4. CASE o.type = StringType
  BY <1>1, <1>2, <1>3, <1>4
<1> QED  BY <1>3, <1>4

(* A small number as it stands. *)
LEMMA SmallAt ==
  ASSUME NEW f \in Text, NEW a \in Nat \ {0}, NEW b \in Nat, NEW o \in Objects,
         ObjectAt(f, a, b, o), IsSmall(o)
  PROVE  LET k == a + 13 + Len(o.key) IN
         /\ LineAt(f, a + 5, CtpTag, o.type) /\ LineAt(f, a + 9, EcTag, EncodingInt)
         /\ Sits(f, a + 13, o.key) /\ k =< Len(f) /\ f[k] = Colon
         /\ b = k + 5 /\ Len(o.key) \in Nat
<1>1. o.type = StringType /\ ~IsMiddle(o) /\ ~IsWide(o) /\ ~IsPlain(o)
  BY KindsApart
<1>2. LineAt(f, a + 5, CtpTag, o.type)
      /\ \E enc \in Int, k \in Nat, u \in Text : StringAt(f, a, b, o, enc, k, u)
  BY <1>1 DEF ObjectAt, Typed
<1>3. PICK enc \in Int, k \in Nat, u \in Text : StringAt(f, a, b, o, enc, k, u)
  BY <1>2
<1>4. enc = EncodingInt /\ k = a + 13 /\ Len(u) = 1
  BY <1>1, <1>3 DEF StringAt, StringAs
<1> DEFINE key == o.key
<1>5. Len(key) \in Nat
  BY ObjectType DEF Text
<1>6. /\ LineAt(f, a + 9, EcTag, enc) /\ Sits(f, k, key) /\ k + Len(key) =< Len(f)
      /\ f[k + Len(key)] = Colon /\ b = k + Len(key) + Len(u) + 4
  BY <1>3 DEF StringAt
<1> HIDE DEF key
<1>7. b = a + 13 + Len(key) + 5
  BY <1>4, <1>5, <1>6
<1> QED  BY <1>2, <1>4, <1>5, <1>6, <1>7 DEF key

(* The byte of a number that ends the file for the parser. *)
LEMMA ZeroStands ==
  ASSUME NEW f \in Text, NEW a \in Nat \ {0}, NEW b \in Nat, NEW o \in Objects,
         ObjectAt(f, a, b, o), ZeroByte(o)
  PROVE  \E x \in 1..Len(f) : f[x] = Nul
<1>1. IsSmall(o) /\ o.type = StringType /\ ~IsMiddle(o) /\ ~IsWide(o) /\ ~IsPlain(o)
  BY KindsApart DEF ZeroByte
<1>2. PICK enc \in Int, k \in Nat, u \in Text : StringAt(f, a, b, o, enc, k, u)
  BY <1>1 DEF ObjectAt, Typed
<1>3. u = <<AsInt8(AtoI(o.vals[1]))>>
  BY <1>1, <1>2 DEF StringAt, StringAs
<1>4. AsInt8(AtoI(o.vals[1])) = Nul
  <2>1. AtoI(o.vals[1]) \in Int
    BY <1>1, Encodings
  <2> QED  BY <2>1, MarksDiffer DEF ZeroByte
<1> DEFINE x == k + Len(o.key) + 1
<1>5. x \in Nat \ {0}
  <2>1. Len(o.key) \in Nat
    BY ObjectType DEF Text
  <2> QED  BY <2>1
<1>6. Sits(f, x, <<Nul>>)
  BY <1>2, <1>3, <1>4 DEF StringAt
<1> HIDE DEF x
<1>7. x =< Len(f) /\ f[x] = Nul
  BY <1>5, <1>6, SymbolIs, OneSits
<1>8. Len(f) \in Nat
  BY DEF Text
<1> QED  BY <1>5, <1>7, <1>8

(* The parser begins at the tag that is fourth in the file. *)
LEMMA BeginsAt ==
  ASSUME NEW f \in Text, HeadOf(f)
  PROVE  Find(f, <<IdTag>>) = 4
<1>1. IdTag \in Symbol /\ <<IdTag>> \in Text /\ <<IdTag>> # <<>>
  BY SymbolIs, OneText
<1>2. f[1] = RedisTag /\ f[2] = CR /\ f[3] = LF /\ f[4] = IdTag /\ 4 =< Len(f) /\ Len(f) \in Nat
  BY DEF HeadOf, Text
<1>3. RedisTag # IdTag /\ CR # IdTag /\ LF # IdTag
  BY MarksDiffer DEF Tags
<1>4. \A i \in Nat \ {0} : Sits(f, i, <<IdTag>>) <=> i =< Len(f) /\ f[i] = IdTag
  BY <1>1, OneSits
<1> DEFINE m == Find(f, <<IdTag>>)
           p == <<IdTag>>
<1>5. /\ m # 0 => Sits(f, m, p) /\ \A i \in 1..(m - 1) : ~Sits(f, i, p)
      /\ m = 0 => \A i \in Nat : ~Sits(f, i, p)
      /\ m \in 0..Len(f)
  BY <1>1, FindIn
<1> HIDE DEF m
<1>6. Sits(f, 4, p)
  BY <1>2, <1>4
<1>7. m # 0
  BY <1>5, <1>6
<1>8. m =< 4
  BY <1>2, <1>5, <1>6, <1>7
<1>9. m # 1 /\ m # 2 /\ m # 3
  <2>1. f[m] = IdTag
    BY <1>2, <1>4, <1>5, <1>7
  <2> QED  BY <1>2, <1>3, <2>1
<1> QED  BY <1>2, <1>5, <1>7, <1>8, <1>9 DEF m

LEMMA SitsKept ==
  ASSUME NEW f \in Text, NEW i \in Nat \ {0}, NEW s \in Text, Sits(f, i, s),
         NEW c \in Nat, c =< Len(f), i + Len(s) - 1 =< c
  PROVE  Sits(SubSeq(f, 1, c), i, s)
<1>1. Sits(SubSeq(f, 1, c), i - 1 + 1, s)
  BY SitsCut
<1>2. i - 1 + 1 = i
  OBVIOUS
<1> QED  BY <1>1, <1>2

(* The part of the file before the first zero. *)
LEMMA CutLays ==
  ASSUME NEW ss \in Seq(Objects), NEW f \in Text, HeadOf(f), NEW start,
         NEW n \in Nat, n = Len(ss), start \in [1..(n + 1) -> Nat],
         start[1] = 8, start[n + 1] + 1 = Len(f), f[start[n + 1]] = CR, f[start[n + 1] + 1] = LF,
         \A j \in 1..n :
           \E w \in WrittenAs(ss[j]) : Sits(f, start[j], w) /\ start[j + 1] = start[j] + Len(w),
         NEW z \in 1..Len(f), f[z] = Nul, \A x \in 1..(z - 1) : f[x] # Nul
  PROVE  LET g == SubSeq(f, 1, z - 1) IN
         \E bt : \E m \in 1..n : g \in Text /\ Laid(ss, g, bt, m, TRUE)
<1> DEFINE g == SubSeq(f, 1, z - 1)
<1>0. Len(f) \in Nat /\ z \in Nat /\ z - 1 \in Nat /\ z - 1 =< Len(f)
  BY DEF Text
<1>1. g \in Text /\ Len(g) = z - 1 /\ \A x \in 1..(z - 1) : g[x] = f[x]
  <2>1. z - 1 = 0 \/ z - 1 \in 1..Len(f)
    BY <1>0
  <2> QED  BY <1>0, <2>1, SubSeqProperties DEF Text
<1>2. \A j \in 1..(n + 1) : start[j] \in Nat
  OBVIOUS
<1>3. \A j \in 1..n : ss[j] \in Objects
  OBVIOUS
<1>4. ASSUME NEW j \in 1..n PROVE start[j] =< start[j + 1]
  <2>1. PICK w \in WrittenAs(ss[j]) : Sits(f, start[j], w) /\ start[j + 1] = start[j] + Len(w)
    OBVIOUS
  <2>2. Len(w) \in Nat /\ start[j] \in Nat
    BY <1>2, <1>3, WrittenText DEF Text
  <2> QED  BY <2>1, <2>2
<1>5. \A i, j \in 1..(n + 1) : i =< j => start[i] =< start[j]
  BY <1>4, Mono
<1>6. start[n + 1] \in Nat /\ \A i \in 1..(n + 1) : 8 =< start[i] /\ start[i] =< start[n + 1]
  <2>1. 1 \in 1..(n + 1) /\ n + 1 \in 1..(n + 1)
    OBVIOUS
  <2> QED  BY <1>2, <1>5, <2>1
<1>7. 8 =< z /\ z < start[n + 1]
  <2>1. z # 1 /\ z # 2 /\ z # 3 /\ z # 4 /\ z # 5 /\ z # 6 /\ z # 7
    <3>1. Dec(0) # Nul /\ RedisTag # Nul /\ IdTag # Nul /\ CR # Nul /\ LF # Nul
      <4>1. RedisTag # Nul
        BY DEF Nul, Ch, RedisTag
      <4>2. Dec(0) # Nul /\ IdTag # Nul /\ CR # Nul /\ LF # Nul
        BY MarksDiffer DEF Tags
      <4> QED  BY <4>1, <4>2
    <3> QED  BY <3>1 DEF HeadOf
  <2>2. z # start[n + 1] /\ z # start[n + 1] + 1
    BY MarksDiffer
  <2> QED  BY <1>0, <1>6, <2>1, <2>2
<1>8. PICK i \in 1..n : start[i] =< z /\ z < start[i + 1]
  <2>1. z \in Nat /\ start[1] =< z
    BY <1>0, <1>7
  <2> QED  BY <1>7, <2>1, InSection
<1> DEFINE a == start[i]
           b == start[i + 1]
           o == ss[i]
           key == o.key
           k == a + 13 + Len(key)
<1>9. a \in Nat \ {0} /\ b \in Nat /\ o \in Objects
  <2>1. i \in 1..(n + 1) /\ i + 1 \in 1..(n + 1)
    OBVIOUS
  <2> QED  BY <1>2, <1>3, <1>6, <2>1
<1>10. PICK w \in WrittenAs(o) : Sits(f, a, w) /\ b = a + Len(w)
  OBVIOUS
<1> HIDE DEF g, a, b, o
<1>11. ObjectAt(f, a, b, o)
  BY <1>9, <1>10, Wrote
<1>12. HeadAt(f, a, o) /\ IsSmall(o) /\ AtoI(o.vals[1]) % 256 = 0 /\ z = b - 4
  <2>1. z \in a..(b - 1)
    BY <1>8, <1>9 DEF a, b
  <2> QED  BY <1>9, <1>11, <2>1, Section
<1>13. /\ LineAt(f, a + 5, CtpTag, o.type) /\ LineAt(f, a + 9, EcTag, EncodingInt)
       /\ Sits(f, a + 13, key) /\ k =< Len(f) /\ f[k] = Colon
       /\ b = k + 5 /\ Len(key) \in Nat
  BY <1>9, <1>11, <1>12, SmallAt
<1> DEFINE l == Len(key)
<1>14. l \in Nat /\ k = a + 13 + l /\ z - 1 = k
  BY <1>9, <1>12, <1>13
<1>15. key \in Text
  BY <1>9, ObjectType
<1> HIDE DEF key, l, k
<1>16. \A x \in 1..k : g[x] = f[x]
  BY <1>1, <1>14
<1>17. CutAt(g, a, o)
  <2>1. HeadAt(g, a, o)
    <3>1. a + 4 =< Len(g) /\ a \in 1..k /\ a + 1 \in 1..k /\ a + 2 \in 1..k /\ a + 3 \in 1..k
          /\ a + 4 \in 1..k
      BY <1>1, <1>9, <1>14
    <3> QED  BY <1>12, <1>16, <3>1 DEF HeadAt
  <2>2. LineAt(g, a + 5, CtpTag, o.type)
    <3> DEFINE c == a + 5
    <3>1. c + 3 =< Len(g) /\ c \in 1..k /\ c + 1 \in 1..k /\ c + 2 \in 1..k /\ c + 3 \in 1..k
      BY <1>1, <1>9, <1>14
    <3> HIDE DEF c
    <3> QED  BY <1>13, <1>16, <3>1 DEF LineAt, c
  <2>3. LineAt(g, a + 9, EcTag, EncodingInt)
    <3> DEFINE c == a + 9
    <3>1. c + 3 =< Len(g) /\ c \in 1..k /\ c + 1 \in 1..k /\ c + 2 \in 1..k /\ c + 3 \in 1..k
      BY <1>1, <1>9, <1>14
    <3> HIDE DEF c
    <3> QED  BY <1>13, <1>16, <3>1 DEF LineAt, c
  <2>4. Sits(g, a + 13, key)
    <3> DEFINE c == a + 13
               y == z - 1
    <3>1. c \in Nat \ {0} /\ y \in Nat /\ y =< Len(f) /\ Sits(f, c, key)
      BY <1>0, <1>9, <1>13
    <3>2. c + l - 1 =< y
      BY <1>9, <1>14
    <3>4. c + Len(key) - 1 =< y
      BY <3>2 DEF l
    <3> HIDE DEF c, y
    <3>3. Sits(SubSeq(f, 1, y), c, key)
      BY <1>15, <3>1, <3>4, SitsKept
    <3> QED  BY <3>3 DEF g, c, y
  <2>5. Len(g) = k /\ g[k] = Colon
    <3>1. k \in Nat /\ k # 0
      BY <1>9, <1>14
    <3>2. k \in 1..k
      BY <3>1
    <3>3. f[k] = Colon
      BY <1>13
    <3> QED  BY <1>1, <1>14, <1>16, <3>2, <3>3
  <2> QED  BY <1>12, <1>14, <2>1, <2>2, <2>3, <2>4, <2>5 DEF CutAt, key, l
<1> DEFINE bt == [j \in 1..(i + 1) |-> IF j = i + 1 THEN z ELSE start[j]]
<1>18. bt \in [1..(i + 1) -> Nat] /\ bt[1] = 8 /\ bt[i] = a /\ bt[i + 1] = Len(g) + 1
  <2>1. \A j \in 1..(i + 1) : j # i + 1 => start[j] \in Nat
    BY <1>2, SMTT(30)
  <2>2. bt[i + 1] = z /\ z = Len(g) + 1
    BY <1>1, <1>0
  <2> QED  BY <2>1, <2>2, SMTT(30) DEF a
<1>19. ASSUME NEW j \in 1..i, j # i PROVE ObjectAt(g, bt[j], bt[j + 1], ss[j])
  <2>7. bt[j] = start[j] /\ bt[j + 1] = start[j + 1]
    BY <1>19
  <2> HIDE DEF bt
  <2>1. bt[j] = start[j] /\ bt[j + 1] = start[j + 1] /\ j \in 1..n /\ j \in 1..(n + 1)
        /\ j + 1 \in 1..(n + 1) /\ i \in 1..(n + 1) /\ j + 1 =< i
    BY <1>19, <2>7
  <2>2. start[j] \in Nat \ {0} /\ start[j + 1] \in Nat /\ start[j + 1] =< z
    <3>1. start[j + 1] =< start[i] /\ start[i] =< z /\ 8 =< start[j]
      BY <1>5, <1>6, <1>8, <2>1
    <3>2. start[j] \in Nat /\ start[j + 1] \in Nat /\ start[i] \in Nat
      BY <1>2, <2>1
    <3> DEFINE c == start[j]
               d == start[j + 1]
               e == start[i]
    <3>3. d =< e /\ e =< z /\ 8 =< c /\ c \in Nat /\ d \in Nat /\ e \in Nat /\ z \in Nat
      BY <1>0, <3>1, <3>2
    <3> HIDE DEF c, d, e
    <3>4. c \in Nat \ {0} /\ d \in Nat /\ d =< z
      BY <3>3
    <3> QED  BY <3>4 DEF c, d
  <2>3. PICK x \in WrittenAs(ss[j]) : Sits(f, start[j], x) /\ start[j + 1] = start[j] + Len(x)
    BY <2>1
  <2>4. x \in Text /\ ss[j] \in Objects
    BY <1>3, <2>1, WrittenText
  <2>5. Sits(g, start[j], x)
    <3> DEFINE c == start[j]
               y == z - 1
               m == Len(x)
               r == start[j + 1]
    <3>1. m \in Nat
      BY <2>4 DEF Text
    <3>2. c \in Nat \ {0} /\ y \in Nat /\ y =< Len(f) /\ Sits(f, c, x) /\ r = c + m /\ r =< z
          /\ y = z - 1
      BY <1>0, <2>2, <2>3
    <3> HIDE DEF c, y, m, r
    <3>3. c + m - 1 =< y
      BY <1>0, <3>1, <3>2
    <3>4. Sits(SubSeq(f, 1, y), c, x)
      BY <2>4, <3>2, <3>3, SitsKept DEF m
    <3> QED  BY <3>4 DEF g, c, y
  <2>6. ObjectAt(g, start[j], start[j] + Len(x), ss[j])
    BY <1>1, <2>2, <2>4, <2>5, Wrote
  <2> QED  BY <2>1, <2>3, <2>6
<1> HIDE DEF bt
<1>20. HeadOf(g)
  <2>1. 1 \in 1..(z - 1) /\ 2 \in 1..(z - 1) /\ 3 \in 1..(z - 1) /\ 4 \in 1..(z - 1)
        /\ 5 \in 1..(z - 1) /\ 6 \in 1..(z - 1) /\ 7 \in 1..(z - 1) /\ 7 =< Len(g)
    BY <1>0, <1>1, <1>7
  <2> QED  BY <1>1, <2>1 DEF HeadOf
<1>21. Laid(ss, g, bt, i, TRUE)
  BY <1>1, <1>17, <1>18, <1>19, <1>20 DEF Laid, o
<1> QED  BY <1>1, <1>21 DEF g

(* What is loaded is laid out as the parser expects it. *)
LEMMA Loaded ==
  ASSUME TypeInv, WriteInv, Load
  PROVE  \E f, start, n, cut :
           /\ Laid(saved, f, start, n, cut)
           /\ stage' = "time" => text' = From(f, 4)
           /\ stage' = "overrun" => ~cut /\ \A x \in 1..Len(f) : f[x] # Nul
<1> DEFINE whole == text \o Eol
           zero == Until(whole, 1, Nul)
           N == Len(saved)
<1>1. saved \in Seq(Objects) /\ text \in Text /\ N \in Nat /\ Len(text) \in Nat
  BY DEF TypeInv, Text
<1>2. HeadOf(text) /\ \E start : Grown(saved, text, start)
  BY DEF WriteInv, Load
<1>3. /\ whole \in Text /\ Len(whole) = Len(text) + 2
      /\ (\A k \in 1..Len(text) : whole[k] = text[k])
      /\ whole[Len(text) + 1] = CR /\ whole[(Len(text) + 1) + 1] = LF
  <2>1. Eol \in Text /\ Len(Eol) = 2 /\ CR \in Symbol /\ LF \in Symbol
    BY MarksText, SymbolIs
  <2>2. /\ Sits(whole, Len(text) + 1, Eol) /\ whole \in Text
        /\ Len(whole) = Len(text) + Len(Eol) /\ \A k \in 1..Len(text) : whole[k] = text[k]
    BY <1>1, <2>1, AppendSits
  <2> HIDE DEF whole
  <2>3. Len(text) + 1 \in Nat \ {0}
    BY <1>1
  <2>4. whole[Len(text) + 1] = CR /\ whole[(Len(text) + 1) + 1] = LF
    BY <2>1, <2>2, <2>3, TwoSits DEF Eol
  <2> QED  BY <1>1, <2>1, <2>2, <2>4
<1>4. /\ stage' = "time" =>
           text' = From(IF zero = 0 THEN whole ELSE SubSeq(whole, 1, zero - 1),
                        Find(IF zero = 0 THEN whole ELSE SubSeq(whole, 1, zero - 1), <<IdTag>>))
      /\ stage' = "overrun" => zero = 0
  BY DEF Load
<1>5. PICK start : Grown(saved, text, start)
  BY <1>2
<1> HIDE DEF whole, zero
<1>6. HeadOf(whole)
  <2>1. 1 \in 1..Len(text) /\ 2 \in 1..Len(text) /\ 3 \in 1..Len(text) /\ 4 \in 1..Len(text)
        /\ 5 \in 1..Len(text) /\ 6 \in 1..Len(text) /\ 7 \in 1..Len(text)
    BY <1>1, <1>2 DEF HeadOf
  <2>2. whole[1] = text[1] /\ whole[2] = text[2] /\ whole[3] = text[3] /\ whole[4] = text[4]
        /\ whole[5] = text[5] /\ whole[6] = text[6] /\ whole[7] = text[7]
    BY <1>3, <2>1
  <2>3. 7 =< Len(whole)
    BY <1>1, <1>2, <1>3 DEF HeadOf
  <2> QED  BY <1>2, <2>2, <2>3 DEF HeadOf
<1>7. /\ start \in [1..(N + 1) -> Nat] /\ start[1] = 8 /\ start[N + 1] = Len(text) + 1
      /\ start[N + 1] + 1 = Len(whole) /\ whole[start[N + 1]] = CR /\ whole[start[N + 1] + 1] = LF
  <2>1. start \in [1..(N + 1) -> Nat] /\ start[1] = 8 /\ start[N + 1] = Len(text) + 1
    BY <1>5 DEF Grown
  <2> QED  BY <1>1, <1>3, <2>1
<1>8. ASSUME NEW j \in 1..N
      PROVE  \E w \in WrittenAs(saved[j]) : Sits(whole, start[j], w) /\ start[j + 1] = start[j] + Len(w)
  <2>1. PICK w \in WrittenAs(saved[j]) : Sits(text, start[j], w) /\ start[j + 1] = start[j] + Len(w)
    BY <1>5 DEF Grown
  <2>2. w \in Text /\ start[j] \in Nat
    <3>1. saved[j] \in Objects /\ j \in 1..(N + 1)
      BY <1>1
    <3> QED  BY <1>7, <3>1, WrittenText
  <2>3. Sits(whole, start[j], w)
    BY <1>1, <2>1, <2>2, MarksText, SitsLonger DEF whole
  <2> QED  BY <2>1, <2>3
<1> HIDE DEF N
<1>9. /\ zero # 0 => zero \in 1..Len(whole) /\ whole[zero] = Nul
                     /\ \A x \in 1..(zero - 1) : whole[x] # Nul
      /\ zero = 0 => \A x \in 1..Len(whole) : whole[x] # Nul
  <2> DEFINE i == 1
  <2>1. i \in Nat \ {0} /\ zero = Until(whole, i, Nul)
    BY DEF zero
  <2> HIDE DEF i
  <2>2. whole \in Text
    BY <1>3
  <2>3. /\ zero # 0 => /\ zero \in i..Len(whole) /\ whole[zero] = Nul
                       /\ \A x \in i..(zero - 1) : whole[x] # Nul
        /\ zero = 0 => \A x \in i..Len(whole) : whole[x] # Nul
    <3> HIDE DEF whole, zero
    <3>1. zero # 0 => /\ zero \in i..Len(whole) /\ whole[zero] = Nul
                      /\ \A x \in i..(zero - 1) : whole[x] # Nul
      BY <2>1, <2>2, UntilIn, Zenon
    <3>2. zero = 0 => \A x \in i..Len(whole) : whole[x] # Nul
      BY <2>1, <2>2, UntilIn, Zenon
    <3> QED  BY <3>1, <3>2
  <2> QED  BY <2>3 DEF i
<1>10. CASE zero = 0
  <2>1. ASSUME NEW j \in 1..N PROVE ObjectAt(whole, start[j], start[j + 1], saved[j])
    <3>1. PICK w \in WrittenAs(saved[j]) : Sits(whole, start[j], w) /\ start[j + 1] = start[j] + Len(w)
      BY <1>8
    <3>2. saved[j] \in Objects /\ start[j] \in Nat \ {0}
      <4>1. start[j] \in Nat /\ saved[j] \in Objects
        BY <1>1, <1>7 DEF N
      <4> QED  BY <3>1, <4>1 DEF Sits
    <3> QED  BY <1>3, <3>1, <3>2, Wrote
  <2>2. Laid(saved, whole, start, N, FALSE)
    BY <1>1, <1>3, <1>6, <1>7, <2>1 DEF Laid, N
  <2>3. stage' = "time" => text' = From(whole, 4)
    BY <1>3, <1>4, <1>6, <1>10, BeginsAt
  <2> QED  BY <1>9, <1>10, <2>2, <2>3
<1>11. CASE zero # 0
  <2> DEFINE g == SubSeq(whole, 1, zero - 1)
  <2>1. \E bt : \E m \in 1..N : g \in Text /\ Laid(saved, g, bt, m, TRUE)
    <3>1. N \in Nat /\ N = Len(saved) /\ saved \in Seq(Objects)
      BY <1>1 DEF N
    <3>2. zero \in 1..Len(whole) /\ whole[zero] = Nul /\ \A x \in 1..(zero - 1) : whole[x] # Nul
      BY <1>9, <1>11
    <3>3. \A j \in 1..N :
            \E w \in WrittenAs(saved[j]) : Sits(whole, start[j], w) /\ start[j + 1] = start[j] + Len(w)
      BY <1>8
    <3>4. whole \in Text
      BY <1>3
    <3> QED  BY <1>6, <1>7, <3>1, <3>2, <3>3, <3>4, CutLays
  <2>2. PICK bt : \E m \in 1..N : g \in Text /\ Laid(saved, g, bt, m, TRUE)
    BY <2>1
  <2>3. PICK m \in 1..N : g \in Text /\ Laid(saved, g, bt, m, TRUE)
    BY <2>2
  <2>5. stage' = "time" => text' = From(g, Find(g, <<IdTag>>))
    BY <1>4, <1>11
  <2> HIDE DEF g
  <2>4. stage' = "time" => text' = From(g, 4)
    BY <2>3, <2>5, BeginsAt DEF Laid
  <2>6. stage' # "overrun"
    BY <1>4, <1>11
  <2> QED  BY <2>3, <2>4, <2>6
<1> QED  BY <1>10, <1>11

-----------------------------------------------------------------------------
(* Reading.  ss are the objects in the file f, laid out at the places in   *)
(* start; d is what has been recovered, and what is not read yet begins at *)
(* q.                                                                      *)

(* All objects up to the i-th are behind the parser, and no other one.     *)
(* Objects without a tag do not count: the parser does not look for them.  *)
Behind(ss, start, n, i, q) ==
  /\ i \in 0..n
  /\ \A j \in 1..n : Typed(ss[j]) => (j =< i <=> start[j] + 5 < q)

Clear(ss, i) == \A j \in 1..i : Confined(ss[j])

(* p is what became of one of the first i objects: its key is the object's *)
(* own, or lost, or cut.                                                   *)
Source(ss, p, i) ==
  \E m \in 1..i :
    /\ Typed(ss[m]) /\ p.type = ss[m].type
    /\ \/ p.key = ss[m].key
       \/ p.type = StringType /\ (p.key = <<>> \/ Has(ss[m].key, Colon))

Taken(ss, d, i) ==
  /\ \E p \in d : SamePlace(p, ss[i])
  /\ \E j \in 1..(i - 1) : ss[j].type = StringType /\ Has(ss[j].key, Colon)

(* What ComesBack promises. *)
BackFrom(ss, d) ==
  /\ \A i \in DOMAIN ss :
       /\ \A j \in 1..i : Confined(ss[j])
       /\ Described(ss[i])
       => \/ Back(ss[i]) \in d
          \/ /\ \E p \in d : SamePlace(p, ss[i])
             /\ \E j \in 1..(i - 1) :
                  ss[j].type = StringType /\ Has(ss[j].key, Colon)
  /\ (\A o \in ToSet(ss) : Confined(o) /\ Described(o)) =>
       d = {Back(o) : o \in ToSet(ss)}

(* The same, of the first i objects. *)
Recovered(ss, d, i) ==
  /\ \A p \in d : Source(ss, p, i)
  /\ \A m \in 1..i : Clear(ss, m) /\ Described(ss[m]) => Back(ss[m]) \in d \/ Taken(ss, d, m)
  /\ (\A m \in 1..i : Confined(ss[m]) /\ Described(ss[m])) => d = {Back(ss[m]) : m \in 1..i}

Apart(ss) == \A i, j \in 1..Len(ss) : i # j => ~SamePlace(ss[i], ss[j])

LEMMA DescribedIsTyped ==
  ASSUME NEW o, Described(o)
  PROVE  Typed(o) /\ (o.type = StringType => o.key # <<>> /\ ~Has(o.key, Colon))
BY TypesDiffer DEF Described, Typed

(* What nothing comes back of changes nothing. *)
LEMMA RecoveredOn ==
  ASSUME NEW ss, NEW d, NEW i \in Nat, NEW j \in Nat, i =< j, Recovered(ss, d, i),
         \A m \in (i + 1)..j : ~Clear(ss, m) \/ ~Described(ss[m])
  PROVE  Recovered(ss, d, j)
<1>1. \A p \in d : Source(ss, p, j)
  <2>1. 1..i \subseteq 1..j
    OBVIOUS
  <2>2. ASSUME NEW p \in d PROVE Source(ss, p, j)
    BY <2>1, Zenon DEF Recovered, Source
  <2> QED  BY <2>2
<1>2. ASSUME NEW m \in 1..j, Clear(ss, m), Described(ss[m])
      PROVE  Back(ss[m]) \in d \/ Taken(ss, d, m)
  <2>1. m \in 1..i
    BY <1>2
  <2> QED  BY <1>2, <2>1 DEF Recovered
<1>3. ASSUME \A m \in 1..j : Confined(ss[m]) /\ Described(ss[m])
      PROVE  d = {Back(ss[m]) : m \in 1..j}
  <2>1. i = j
    <3>1. SUFFICES ASSUME i < j PROVE FALSE
      OBVIOUS
    <3>2. j \in (i + 1)..j /\ j \in 1..j
      BY <3>1
    <3>3. Clear(ss, j)
      BY <1>3 DEF Clear
    <3> QED  BY <1>3, <3>2, <3>3
  <2> QED  BY <1>3, <2>1 DEF Recovered
<1> QED  BY <1>1, <1>2, <1>3 DEF Recovered

(* The parser takes in what it made of the j-th object. *)
LEMMA RecoveredAdd ==
  ASSUME NEW ss \in Seq(Objects), Apart(ss), NEW d, NEW e, NEW j \in 1..Len(ss),
         Recovered(ss, d, j - 1), NEW o,
         e = IF \E p \in d : SamePlace(o, p) THEN d ELSE d \cup {o},
         Source(ss, o, j),
         Clear(ss, j) /\ Described(ss[j]) => o = Back(ss[j])
  PROVE  Recovered(ss, e, j)
<1>0. Len(ss) \in Nat /\ j - 1 \in Nat /\ 1..(j - 1) \subseteq 1..j /\ j - 1 + 1 = j /\ j \in Nat
  OBVIOUS
<1>1. \A p \in e : Source(ss, p, j)
  <2>1. ASSUME NEW p \in d PROVE Source(ss, p, j)
    BY <1>0, Zenon DEF Recovered, Source
  <2> QED  BY <2>1
<1>2. d \subseteq e
  OBVIOUS
<1>3. \A p \in d : \A m \in 1..(j - 1) : SamePlace(p, ss[m]) => \E x \in e : SamePlace(x, ss[m])
  BY <1>2
<1>4. ASSUME NEW m \in 1..(j - 1), Clear(ss, m), Described(ss[m])
      PROVE  Back(ss[m]) \in e \/ Taken(ss, e, m)
  <2>1. Back(ss[m]) \in d \/ Taken(ss, d, m)
    BY <1>4 DEF Recovered
  <2> QED  BY <1>2, <2>1 DEF Taken
<1>5. SamePlace(Back(ss[j]), ss[j])
  BY DEF SamePlace, Back
<1>6. ASSUME Clear(ss, j), Described(ss[j]), \E p \in d : SamePlace(o, p)
      PROVE  Taken(ss, e, j)
  <2>1. PICK p \in d : SamePlace(o, p)
    BY <1>6
  <2>2. p.type = ss[j].type /\ p.key = ss[j].key
    BY <1>5, <1>6, <2>1 DEF SamePlace
  <2>3. PICK m \in 1..(j - 1) :
          /\ Typed(ss[m]) /\ p.type = ss[m].type
          /\ \/ p.key = ss[m].key
             \/ p.type = StringType /\ (p.key = <<>> \/ Has(ss[m].key, Colon))
    BY <2>1 DEF Recovered, Source
  <2>4. m \in 1..Len(ss) /\ m # j
    BY <1>0, <2>3
  <2>5. p.key # ss[m].key
    BY <2>2, <2>3, <2>4 DEF Apart, SamePlace
  <2>6. p.type = StringType /\ Has(ss[m].key, Colon)
    BY <1>6, <2>2, <2>3, <2>5, DescribedIsTyped
  <2>7. ss[m].type = StringType
    BY <2>3, <2>6
  <2>8. p \in e /\ SamePlace(p, ss[j])
    BY <1>2, <2>1, <2>2 DEF SamePlace
  <2> QED  BY <2>3, <2>6, <2>7, <2>8 DEF Taken
<1>7. ASSUME Clear(ss, j), Described(ss[j])
      PROVE  Back(ss[j]) \in e \/ Taken(ss, e, j)
  BY <1>6, <1>7
<1>8. ASSUME NEW m \in 1..j, Clear(ss, m), Described(ss[m])
      PROVE  Back(ss[m]) \in e \/ Taken(ss, e, m)
  <2>1. m = j \/ m \in 1..(j - 1)
    BY <1>0
  <2> QED  BY <1>4, <1>7, <1>8, <2>1
<1>9. ASSUME \A m \in 1..j : Confined(ss[m]) /\ Described(ss[m])
      PROVE  e = {Back(ss[m]) : m \in 1..j}
  <2>1. d = {Back(ss[m]) : m \in 1..(j - 1)}
    BY <1>0, <1>9 DEF Recovered
  <2>2. Clear(ss, j) /\ o = Back(ss[j])
    BY <1>0, <1>9 DEF Clear
  <2>3. ~\E p \in d : SamePlace(o, p)
    <3>1. SUFFICES ASSUME Taken(ss, e, j) PROVE FALSE
      BY <1>6, <1>9, <2>2
    <3>2. PICK m \in 1..(j - 1) : ss[m].type = StringType /\ Has(ss[m].key, Colon)
      BY <3>1 DEF Taken
    <3> QED  BY <1>0, <1>9, <3>2, DescribedIsTyped
  <2>4. \A m : m \in 1..j <=> m \in 1..(j - 1) \/ m = j
    BY <1>0
  <2> QED  BY <2>1, <2>2, <2>3, <2>4
<1> QED  BY <1>1, <1>8, <1>9 DEF Recovered

(* Where the recovery ends. *)
LEMMA Finishes ==
  ASSUME NEW ss \in Seq(Objects), NEW d, NEW i \in 0..Len(ss), Recovered(ss, d, i),
         i = Len(ss) \/ ~Clear(ss, i + 1)
  PROVE  BackFrom(ss, d)
<1> DEFINE N == Len(ss)
<1>0. N \in Nat /\ i \in 0..N
  OBVIOUS
<1>3. DOMAIN ss = 1..N
  OBVIOUS
<1>4. ToSet(ss) = {ss[m] : m \in 1..N}
  BY <1>3 DEF ToSet
<1>5. i = N \/ ~Clear(ss, i + 1)
  OBVIOUS
<1> HIDE DEF N
<1>1. ASSUME NEW m \in DOMAIN ss, \A j \in 1..m : Confined(ss[j]), Described(ss[m])
      PROVE  \/ Back(ss[m]) \in d
             \/ /\ \E p \in d : SamePlace(p, ss[m])
                /\ \E j \in 1..(m - 1) :
                     ss[j].type = StringType /\ Has(ss[j].key, Colon)
  <2>0. m \in 1..N
    BY <1>3
  <2>1. m \in 1..i
    <3>1. SUFFICES ASSUME i < m PROVE FALSE
      BY <1>0, <2>0
    <3>2. 1..(i + 1) \subseteq 1..m
      BY <1>0, <2>0, <3>1
    <3>3. Clear(ss, i + 1)
      BY <1>1, <3>2 DEF Clear
    <3> QED  BY <1>0, <1>5, <2>0, <3>1, <3>3
  <2>2. Clear(ss, m)
    BY <1>1 DEF Clear
  <2> QED  BY <1>1, <2>1, <2>2 DEF Recovered, Taken
<1>2. ASSUME \A o \in ToSet(ss) : Confined(o) /\ Described(o)
      PROVE  d = {Back(o) : o \in ToSet(ss)}
  <2>1. \A m \in 1..N : Confined(ss[m]) /\ Described(ss[m])
    BY <1>2, <1>4
  <2>2. i = N
    <3>1. SUFFICES ASSUME i < N, ~Clear(ss, i + 1) PROVE FALSE
      BY <1>0, <1>5
    <3>2. 1..(i + 1) \subseteq 1..N
      BY <1>0, <3>1
    <3> QED  BY <2>1, <3>1, <3>2 DEF Clear
  <2>3. d = {Back(ss[m]) : m \in 1..N}
    BY <2>1, <2>2 DEF Recovered
  <2> QED  BY <1>4, <2>3
<1> QED  BY <1>1, <1>2 DEF BackFrom

-----------------------------------------------------------------------------
(* What the parser finds in the rest of the file. *)

ExpiryAt(f, x) == x + 1 =< Len(f) /\ f[x] = E /\ f[x + 1] = Colon

LEMMA ExpirySits ==
  ASSUME NEW f \in Text, NEW x \in Nat \ {0}
  PROVE  Sits(f, x, Expiry) <=> ExpiryAt(f, x)
BY TwoSits, SymbolIs DEF Expiry, ExpiryAt

LEMMA TagHere ==
  ASSUME NEW f \in Text, NEW q \in Nat \ {0}, NEW tag \in Symbol,
         NEW a \in Nat, q =< a, a =< Len(f), f[a] = tag, \A x \in q..(a - 1) : f[x] # tag
  PROVE  /\ Find(From(f, q), <<tag>>) = a - q + 1
         /\ PastTag(From(f, q), tag) = From(f, a + 1)
<1>1. <<tag>> \in Text /\ <<tag>> # <<>>
  BY OneText
<1>2. Sits(f, a, <<tag>>)
  BY OneSits
<1>3. ASSUME NEW x \in q..(a - 1) PROVE ~Sits(f, x, <<tag>>)
  BY <1>3, OneSits
<1>4. Find(From(f, q), <<tag>>) = a - q + 1
  BY <1>1, <1>2, <1>3, FoundHere
<1>5. From(From(f, q), a - q + 2) = From(f, q + (a - q + 2) - 1)
  BY RestOfRest
<1>6. a - q + 1 + 1 = a - q + 2 /\ q + (a - q + 2) - 1 = a + 1
  OBVIOUS
<1> QED  BY <1>4, <1>5, <1>6 DEF PastTag

LEMMA EolHere ==
  ASSUME NEW f \in Text, NEW q \in Nat \ {0}, NEW a \in Nat, q =< a, a + 1 =< Len(f),
         f[a] = CR, f[a + 1] = LF, \A x \in q..(a - 1) : f[x] # CR
  PROVE  Find(From(f, q), Eol) = a - q + 1
<1>1. Sits(f, a, Eol)
  BY TwoSits, SymbolIs DEF Eol
<1>2. ASSUME NEW x \in q..(a - 1) PROVE ~Sits(f, x, Eol)
  BY <1>2, TwoSits, SymbolIs DEF Eol
<1> QED  BY <1>1, <1>2, MarksText, FoundHere

LEMMA NumberHere ==
  ASSUME NEW f \in Text, NEW q \in Nat \ {0}, NEW i \in Nat \ {0}, NEW y \in Nat, y = q + i - 1,
         NEW n \in Int, y + 1 =< Len(f), f[y] = Dec(n), f[y + 1] = CR
  PROVE  AtoI(Line(From(f, q), i)) = n
<1> DEFINE t == From(f, q)
<1>1. Len(f) \in Nat /\ Len(t) = Len(f) - q + 1
  <2>1. Len(f) \in Nat
    BY DEF Text
  <2> QED  BY <2>1, RestIs
<1>2. f[y] # CR
  BY MarksDiffer
<1>3. Until(t, i, CR) = i + 1
  <2>1. Until(t, i, CR) = y + 1 - q + 1
    <3>1. \A x \in (q + i - 1)..(y + 1 - 1) : f[x] # CR
      BY <1>2
    <3>2. y + 1 \in Nat /\ q + i - 1 =< y + 1
      OBVIOUS
    <3> QED  BY <3>1, <3>2, UntilHere
  <2> QED  BY <2>1
<1>4. SubSeq(t, i, i) = SubSeq(f, q + i - 1, q + i - 1)
  <2>1. i \in Int /\ i =< Len(t)
    BY <1>1
  <2> QED  BY <2>1, SliceOfRest
<1>5. SubSeq(f, y, y + Len(<<Dec(n)>>) - 1) = <<Dec(n)>>
  <2>1. Dec(n) \in Symbol
    BY SymbolIs
  <2>2. <<Dec(n)>> \in Text /\ Sits(f, y, <<Dec(n)>>)
    <3>1. y \in Nat \ {0} /\ y =< Len(f)
      BY <1>1
    <3> QED  BY <2>1, <3>1, OneText, OneSits
  <2> QED  BY <2>2, SliceIs
<1>6. Line(t, i) = <<Dec(n)>>
  <2>1. y + Len(<<Dec(n)>>) - 1 = y /\ i + 1 - 1 = i
    OBVIOUS
  <2> HIDE DEF t
  <2>2. Line(t, i) = SubSeq(t, i, i)
    BY <1>3, <2>1 DEF Line
  <2>3. SubSeq(f, y, y) = <<Dec(n)>>
    BY <1>5, <2>1
  <2> QED  BY <1>4, <2>2, <2>3
<1> HIDE DEF t
<1>7. AtoI(<<Dec(n)>>) = n
  BY DEF AtoI, Dec
<1> QED  BY <1>6, <1>7 DEF t

LEMMA NoLine ==
  ASSUME NEW f \in Text, NEW q \in Nat \ {0}, NEW i \in Nat \ {0},
         \A x \in (q + i - 1)..Len(f) : f[x] # CR
  PROVE  Until(From(f, q), i, CR) = 0 /\ AtoI(Line(From(f, q), i)) = 0
<1> DEFINE t == From(f, q)
<1>1. Len(f) \in Nat /\ t \in Text /\ Len(t) \in Nat
      /\ (Len(t) # 0 => Len(t) = Len(f) - q + 1)
      /\ \A k \in 1..Len(t) : t[k] = f[q + k - 1]
  <2>1. Len(f) \in Nat
    BY DEF Text
  <2> QED  BY <2>1, RestIs
<1> HIDE DEF t
<1>2. \A k \in i..Len(t) : t[k] # CR
  <2>1. ASSUME NEW k \in i..Len(t) PROVE t[k] # CR
    <3>1. k \in 1..Len(t) /\ q + k - 1 \in (q + i - 1)..Len(f)
      BY <1>1
    <3> QED  BY <1>1, <3>1
  <2> QED  BY <2>1
<1>3. Until(t, i, CR) = 0
  <2>1. Until(t, i, CR) # 0 => Until(t, i, CR) \in i..Len(t) /\ t[Until(t, i, CR)] = CR
    BY <1>1, UntilIn
  <2> QED  BY <1>2, <2>1
<1>4. Line(t, i) = <<>>
  <2>1. SubSeq(t, i, 0 - 1) = <<>>
    BY SubSeqEmpty
  <2> QED  BY <1>3, <2>1 DEF Line
<1>5. AtoI(<<>>) = 0
  BY DEF AtoI
<1> QED  BY <1>3, <1>4, <1>5 DEF t

(* The number behind the next tag. *)
LEMMA LineHere ==
  ASSUME NEW f \in Text, NEW q \in Nat \ {0}, NEW tag \in Symbol, NEW n \in Int,
         NEW a \in Nat, q =< a, LineAt(f, a, tag, n), \A x \in q..(a - 1) : f[x] # tag
  PROVE  /\ AtoI(Line(From(f, q), Find(From(f, q), <<tag>>) + 1)) = n
         /\ Find(From(f, q), <<tag>>) = a - q + 1
         /\ PastTag(From(f, q), tag) = From(f, a + 1)
         /\ AtoI(Line(From(f, a + 1), 1)) = n
<1>0. a + 3 =< Len(f) /\ f[a] = tag /\ f[a + 1] = Dec(n) /\ f[a + 2] = CR /\ Len(f) \in Nat
  BY DEF LineAt, Text
<1>1. /\ Find(From(f, q), <<tag>>) = a - q + 1
      /\ PastTag(From(f, q), tag) = From(f, a + 1)
  <2>1. a =< Len(f)
    BY <1>0
  <2> QED  BY <1>0, <2>1, TagHere
<1>2. a + 1 + 1 = a + 2 /\ a + 1 = q + (a - q + 2) - 1 /\ a - q + 1 + 1 = a - q + 2
      /\ a - q + 2 \in Nat \ {0} /\ a + 1 \in Nat \ {0} /\ a + 1 = a + 1 + 1 - 1
      /\ a + 2 =< Len(f)
  BY <1>0
<1>3. AtoI(Line(From(f, q), a - q + 2)) = n
  BY <1>0, <1>2, NumberHere
<1>4. AtoI(Line(From(f, a + 1), 1)) = n
  BY <1>0, <1>2, NumberHere
<1> QED  BY <1>1, <1>2, <1>3, <1>4

(* The places of the objects, in their order. *)
LEMMA Placed ==
  ASSUME NEW ss \in Seq(Objects), NEW f, NEW start, NEW n, NEW cut, Laid(ss, f, start, n, cut)
  PROVE  /\ Len(ss) \in Nat /\ n \in 0..Len(ss) /\ f \in Text /\ Len(f) \in Nat
         /\ \A j \in 1..(n + 1) : start[j] \in Nat /\ 8 =< start[j]
         /\ start[n + 1] =< Len(f) + 1
         /\ \A i, j \in 1..(n + 1) : i =< j => start[i] =< start[j]
         /\ \A j \in 1..n : ss[j] \in Objects
         /\ Marks(ss, f, start, n, cut)
<1>1. Len(ss) \in Nat /\ n \in 0..Len(ss) /\ f \in Text /\ start \in [1..(n + 1) -> Nat]
      /\ start[1] = 8 /\ Len(f) \in Nat
  BY DEF Laid, Text
<1>2. Marks(ss, f, start, n, cut)
  BY Landmarks
<1>3. \A j \in 1..(n + 1) : start[j] \in Nat
  BY <1>1
<1>4. \A i, j \in 1..(n + 1) : i < j => start[i] + 5 =< start[j]
  BY <1>2 DEF Marks
<1>5. \A i, j \in 1..(n + 1) : i =< j => start[i] =< start[j]
  <2>1. ASSUME NEW i \in 1..(n + 1), NEW j \in 1..(n + 1), i =< j PROVE start[i] =< start[j]
    <3> DEFINE u == start[i]
               w == start[j]
    <3>1. u \in Nat /\ w \in Nat
      BY <1>3
    <3>2. CASE i = j
      BY <3>1, <3>2
    <3>3. CASE i < j
      <4>1. u + 5 =< w
        BY <1>4, <3>3
      <4> HIDE DEF u, w
      <4>2. u =< w
        BY <3>1, <4>1
      <4> QED  BY <4>2 DEF u, w
    <3> QED  BY <1>1, <2>1, <3>2, <3>3
  <2> QED  BY <2>1
<1>6. \A j \in 1..(n + 1) : 8 =< start[j]
  <2>1. \A j \in 1..(n + 1) : 1 \in 1..(n + 1) /\ 1 =< j
    BY <1>1
  <2> QED  BY <1>1, <1>5, <2>1
<1>7. start[n + 1] =< Len(f) + 1
  <2> DEFINE w == start[n + 1]
  <2>1. w \in Nat
    BY <1>1, <1>3
  <2>2. w = Len(f) + 1 \/ w + 1 = Len(f)
    BY DEF Laid
  <2> HIDE DEF w
  <2>3. w =< Len(f) + 1
    BY <1>1, <2>1, <2>2
  <2> QED  BY <2>3 DEF w
<1>8. \A j \in 1..n : ss[j] \in Objects
  BY <1>1
<1> QED  BY <1>1, <1>2, <1>3, <1>5, <1>6, <1>7, <1>8

-----------------------------------------------------------------------------
(* The parser looks for the next expiry. *)

(* The next object is the one behind the i-th, unless the i-th has left    *)
(* something that looks like an expiry.                                    *)
Base(ss, f, start, n, cut, d, q, i) ==
  /\ Behind(ss, start, n, i, q) /\ (i < n \/ ~cut) /\ q =< start[i + 1]
  /\ \/ i > 0 /\ Typed(ss[i]) /\ ~Confined(ss[i])
     \/ \A x \in q..(start[i + 1] - 1) : ~ExpiryAt(f, x)
  /\ Recovered(ss, d, i)

(* Only what is left of the last object remains, and no line ends in it. *)
Lost(ss, f, n, d, q) ==
  /\ \A x \in q..Len(f) : ExpiryAt(f, x) => \A y \in (x + 2)..Len(f) : f[y] # CR
  /\ n > 0 /\ ~Confined(ss[n]) /\ Recovered(ss, d, n - 1)

AtTime(ss, f, start, n, cut, d, q) ==
  (\E i \in 0..n : Base(ss, f, start, n, cut, d, q, i)) \/ Lost(ss, f, n, d, q)

LEMMA BehindAt ==
  ASSUME NEW ss \in Seq(Objects), NEW f, NEW start, NEW n, NEW cut, Laid(ss, f, start, n, cut),
         NEW i \in 0..n, NEW q \in Nat, q =< start[i + 1] + 5,
         i > 0 => start[i] =< q /\ (Typed(ss[i]) => start[i] + 5 < q)
  PROVE  Behind(ss, start, n, i, q)
<1>1. /\ n \in Nat /\ \A j \in 1..(n + 1) : start[j] \in Nat
      /\ \A k, j \in 1..(n + 1) : k =< j => start[k] =< start[j]
      /\ \A j \in 1..n : Typed(ss[j]) => start[j] + 12 =< start[j + 1]
  <2>1. Marks(ss, f, start, n, cut)
    BY Placed
  <2> QED  BY <2>1, Placed DEF Marks
<1>2. ASSUME NEW j \in 1..n, Typed(ss[j]), j < i PROVE start[j] + 5 < q
  <2>1. j + 1 \in 1..(n + 1) /\ i \in 1..(n + 1) /\ j + 1 =< i /\ j \in 1..(n + 1) /\ i > 0
    BY <1>1, <1>2
  <2>2. start[j] + 12 =< start[j + 1] /\ start[j + 1] =< start[i] /\ start[i] =< q
    BY <1>1, <1>2, <2>1
  <2> DEFINE u == start[j]
             v == start[j + 1]
             w == start[i]
  <2>3. u \in Nat /\ v \in Nat /\ w \in Nat
    BY <1>1, <2>1
  <2>4. u + 12 =< v /\ v =< w /\ w =< q
    BY <2>2
  <2> HIDE DEF u, v, w
  <2>5. u + 5 < q
    BY <2>3, <2>4
  <2> QED  BY <2>5 DEF u
<1>3. ASSUME NEW j \in 1..n, j > i PROVE ~(start[j] + 5 < q)
  <2>1. i + 1 \in 1..(n + 1) /\ i + 1 =< j /\ j \in 1..(n + 1)
    BY <1>1, <1>3
  <2>2. start[i + 1] =< start[j] /\ q =< start[i + 1] + 5
    BY <1>1, <2>1
  <2> DEFINE u == start[i + 1]
             v == start[j]
  <2>3. u \in Nat /\ v \in Nat
    BY <1>1, <2>1
  <2>4. u =< v /\ q =< u + 5
    BY <2>2
  <2> HIDE DEF u, v
  <2>5. ~(v + 5 < q)
    BY <2>3, <2>4
  <2> QED  BY <2>5 DEF v
<1>4. ASSUME NEW j \in 1..n, Typed(ss[j]) PROVE j =< i <=> start[j] + 5 < q
  <2>1. j < i \/ j = i \/ j > i
    BY <1>1
  <2>2. CASE j = i
    <3>1. i > 0
      BY <2>2
    <3>2. start[j] + 5 < q /\ j =< i
      BY <1>4, <2>2, <3>1
    <3> QED  BY <3>2
  <2>3. CASE j < i
    <3>1. start[j] + 5 < q /\ j =< i
      BY <1>2, <1>4, <2>3
    <3> QED  BY <3>1
  <2>4. CASE j > i
    <3>1. ~(start[j] + 5 < q) /\ ~(j =< i)
      BY <1>3, <2>4
    <3> QED  BY <3>1
  <2> QED  BY <2>1, <2>2, <2>3, <2>4
<1> QED  BY <1>4 DEF Behind

LEMMA NextExpiry ==
  ASSUME NEW ss \in Seq(Objects), NEW f, NEW start, NEW n, NEW cut, Laid(ss, f, start, n, cut),
         NEW q \in Nat \ {0}, NEW d, NEW i \in 0..n, Base(ss, f, start, n, cut, d, q, i)
  PROVE  LET m == Find(From(f, q), Expiry)
             x == q + m - 1
         IN /\ m \in Nat
            /\ m = 0 => i = n /\ ~cut
            /\ m # 0 => /\ x \in Nat \ {0} /\ q =< x /\ ExpiryAt(f, x)
                        /\ \/ /\ i < n /\ x = start[i + 1]
                              /\ AtoI(Line(From(f, q), m + 2)) = ss[i + 1].end
                           \/ i > 0 /\ Typed(ss[i]) /\ ~Confined(ss[i]) /\ x < start[i + 1]
<1> DEFINE m == Find(From(f, q), Expiry)
           x == q + m - 1
           b == start[i + 1]
<1>1. f \in Text /\ Len(f) \in Nat /\ n \in Nat /\ Marks(ss, f, start, n, cut)
  BY Placed
<1>2. b \in Nat \ {0}
  <2>1. i + 1 \in 1..(n + 1)
    BY <1>1
  <2>2. start[i + 1] \in Nat /\ 8 =< start[i + 1]
    BY <2>1, Placed
  <2> QED  BY <2>2
<1>3. /\ m \in Nat
      /\ m # 0 => /\ Sits(f, x, Expiry)
                  /\ \A y \in q..(q + m - 2) : ~Sits(f, y, Expiry)
      /\ m = 0 => \A y \in Nat : y >= q => ~Sits(f, y, Expiry)
  BY <1>1, FindRest, MarksText
<1>4. q =< b /\ (i < n \/ ~cut)
      /\ ((i > 0 /\ Typed(ss[i]) /\ ~Confined(ss[i]))
          \/ \A y \in q..(b - 1) : ~ExpiryAt(f, y))
  BY DEF Base
<1> HIDE DEF m, b
<1>5. ASSUME i < n PROVE ExpiryAt(f, b) /\ Sits(f, b, Expiry) /\ HeadAt(f, b, ss[i + 1])
  <2>1. i + 1 \in 1..n
    BY <1>1, <1>5
  <2>2. HeadAt(f, b, ss[i + 1])
    BY <1>1, <2>1 DEF Marks, b
  <2>3. ExpiryAt(f, b)
    BY <1>1, <1>2, <2>2 DEF HeadAt, ExpiryAt
  <2> QED  BY <1>1, <1>2, <2>2, <2>3, ExpirySits
<1>6. ASSUME m = 0 PROVE i = n /\ ~cut
  <2>1. ~(i < n)
    BY <1>2, <1>3, <1>4, <1>5, <1>6
  <2> QED  BY <1>1, <1>4, <2>1
<1>7. ASSUME m # 0
      PROVE  /\ x \in Nat \ {0} /\ q =< x /\ ExpiryAt(f, x)
             /\ \/ /\ i < n /\ x = b
                   /\ AtoI(Line(From(f, q), m + 2)) = ss[i + 1].end
                \/ i > 0 /\ Typed(ss[i]) /\ ~Confined(ss[i]) /\ x < b
  <2>1. x \in Nat \ {0} /\ q =< x
    BY <1>3, <1>7
  <2>2. ExpiryAt(f, x)
    BY <1>1, <1>3, <1>7, <2>1, ExpirySits
  <2>3. CASE x < b
    <3>1. x \in q..(b - 1)
      BY <1>2, <2>1, <2>3
    <3> HIDE DEF x
    <3> QED  BY <1>4, <2>1, <2>2, <2>3, <3>1
  <2>4. CASE ~(x < b)
    <3>1. f[x] = E /\ x \in 1..Len(f)
      <4> HIDE DEF x
      <4> QED  BY <1>1, <2>1, <2>2 DEF ExpiryAt
    <3>2. i < n
      <4>1. x < start[n + 1]
        <5> HIDE DEF x
        <5> QED  BY <1>1, <3>1 DEF Marks
      <4>2. i # n
        <5>1. i = n => b = start[n + 1]
          BY DEF b
        <5> HIDE DEF x
        <5> QED  BY <2>4, <4>1, <5>1
      <4> QED  BY <1>1, <4>2
    <3>3. x = b
      <4>1. b \notin q..(q + m - 2)
        BY <1>3, <1>5, <1>7, <3>2
      <4> QED  BY <1>2, <1>3, <1>4, <2>1, <2>4, <4>1
    <3>4. AtoI(Line(From(f, q), m + 2)) = ss[i + 1].end
      <4> DEFINE y == b + 2
                 e == ss[i + 1].end
      <4>1. e \in Int
        <5>1. i + 1 \in 1..n
          BY <1>1, <3>2
        <5>2. ss[i + 1] \in Objects
          BY <5>1, Placed
        <5> QED  BY <5>2, ObjectType
      <4>2. b + 4 =< Len(f) /\ f[b + 2] = Dec(e) /\ f[b + 3] = CR
        BY <1>5, <3>2 DEF HeadAt
      <4> HIDE DEF e
      <4>3. y \in Nat /\ y = q + (m + 2) - 1 /\ y + 1 =< Len(f) /\ m + 2 \in Nat \ {0} /\ y + 1 = b + 3
        BY <1>1, <1>2, <1>3, <3>3, <4>2
      <4>4. f[y] = Dec(e) /\ f[y + 1] = CR
        BY <4>2, <4>3
      <4> HIDE DEF y
      <4>5. AtoI(Line(From(f, q), m + 2)) = e
        BY <1>1, <4>1, <4>3, <4>4, NumberHere
      <4> QED  BY <4>5 DEF e
    <3> HIDE DEF x
    <3> QED  BY <2>1, <2>2, <3>2, <3>3, <3>4
  <2> QED  BY <2>3, <2>4
<1> QED  BY <1>3, <1>6, <1>7 DEF m, b

(* Behind the colon of its key the last object has no line, when a zero    *)
(* stands there.                                                           *)
LEMMA CutLost ==
  ASSUME NEW f \in Text, NEW a \in Nat \ {0}, NEW o \in Objects, CutAt(f, a, o),
         NEW x \in (a + 4)..Len(f), f[x] = E, NEW y \in (x + 2)..Len(f)
  PROVE  f[y] # CR
<1> DEFINE l == Len(o.key)
<1>1. /\ f[a + 4] = LF
      /\ f[a + 5] = CtpTag /\ f[(a + 5) + 1] = Dec(o.type) /\ f[(a + 5) + 2] = CR /\ f[(a + 5) + 3] = LF
      /\ f[a + 9] = EcTag /\ f[(a + 9) + 1] = Dec(EncodingInt) /\ f[(a + 9) + 2] = CR
      /\ f[(a + 9) + 3] = LF
  BY DEF CutAt, HeadAt, LineAt
<1>2. Sits(f, a + 13, o.key) /\ Len(f) = a + 13 + l /\ f[Len(f)] = Colon
  BY DEF CutAt
<1>3. o.key \in Seq(Letter) /\ l \in Nat /\ o.type \in Int /\ EncodingInt \in Int
  BY ObjectType DEF EncodingInt
<1>4. /\ f[a + 4] # E /\ f[a + 5] # E /\ f[(a + 5) + 1] # E /\ f[(a + 5) + 2] # E
      /\ f[(a + 5) + 3] # E /\ f[a + 9] # E /\ f[(a + 9) + 1] # E /\ f[(a + 9) + 2] # E
      /\ f[(a + 9) + 3] # E
  <2>1. Dec(o.type) # E /\ Dec(EncodingInt) # E
    BY <1>3, MarksDiffer
  <2>2. CtpTag # E /\ EcTag # E /\ CR # E /\ LF # E
    BY MarksDiffer DEF Tags
  <2> QED  BY <1>1, <2>1, <2>2
<1> HIDE DEF l
<1>5. x >= a + 13
  <2>1. /\ x # a + 4 /\ x # a + 5 /\ x # (a + 5) + 1 /\ x # (a + 5) + 2 /\ x # (a + 5) + 3
        /\ x # a + 9 /\ x # (a + 9) + 1 /\ x # (a + 9) + 2 /\ x # (a + 9) + 3
    BY <1>4
  <2> QED  BY <2>1
<1>6. CASE y = Len(f)
  BY <1>2, <1>6, MarksDiffer
<1>7. CASE y # Len(f)
  <2>1. y \in (a + 13)..(a + 13 + l - 1)
    BY <1>2, <1>3, <1>5, <1>7
  <2>2. a + 13 \in Nat
    OBVIOUS
  <2>3. f[y] \in Letter
    BY <1>2, <1>3, <2>1, <2>2, WordClean DEF l
  <2> QED  BY <2>3, MarksDiffer
<1> QED  BY <1>6, <1>7

(* An object that has expired is passed over. *)
LEMMA Skipped ==
  ASSUME NEW ss \in Seq(Objects), NEW f, NEW start, NEW n, NEW cut, Laid(ss, f, start, n, cut),
         NEW d, NEW i \in 0..n, NEW x \in Nat \ {0}, ExpiryAt(f, x), Recovered(ss, d, i),
         \/ i < n /\ x = start[i + 1] /\ ~Confined(ss[i + 1])
         \/ /\ i > 0 /\ Typed(ss[i]) /\ ~Confined(ss[i]) /\ (i < n \/ ~cut)
            /\ start[i] < x /\ x < start[i + 1]
  PROVE  \E r \in Nat \ {0} :
           /\ From(From(f, x + 2), Find(From(f, x + 2), Closing) + 3) = From(f, r)
           /\ AtTime(ss, f, start, n, cut, d, r)
<1> DEFINE t == From(f, x + 2)
           c == Find(t, Closing)
           r == x + c + 4
<1>1. /\ f \in Text /\ Len(f) \in Nat /\ n \in Nat /\ i \in Nat
      /\ Marks(ss, f, start, n, cut)
      /\ \A j \in 1..(n + 1) : start[j] \in Nat /\ 8 =< start[j]
      /\ \A k, j \in 1..(n + 1) : k =< j => start[k] =< start[j]
      /\ \A j \in 1..n : ss[j] \in Objects
  BY Placed
<1>2. /\ c \in Nat
      /\ c # 0 => Sits(f, x + 2 + c - 1, Closing)
      /\ c = 0 => \A y \in Nat : y >= x + 2 => ~Sits(f, y, Closing)
  <2>1. x + 2 \in Nat \ {0}
    OBVIOUS
  <2> QED  BY <1>1, <2>1, FindRest, MarksText
<1>3. From(t, c + 3) = From(f, r)
  <2> HIDE DEF c
  <2>1. From(t, c + 3) = From(f, x + 2 + (c + 3) - 1)
    BY <1>1, <1>2, RestOfRest
  <2>2. x + 2 + (c + 3) - 1 = r
    BY <1>2
  <2> QED  BY <2>1, <2>2
<1> HIDE DEF t, c
<1>4. r \in Nat \ {0}
  BY <1>2
<1>5. i + 1 \in 1..(n + 1) /\ start[i + 1] \in Nat
  BY <1>1
<1>6. ASSUME NEW m \in (i + 1)..n PROVE ~Clear(ss, m)
  <2>1. i + 1 \in 1..m /\ (i > 0 => i \in 1..m)
    BY <1>1
  <2> QED  BY <2>1 DEF Clear
<1>7. CASE c # 0
  <2> DEFINE y == x + c + 1
  <2>1. ClosingAt(f, y) /\ y \in 1..Len(f)
    <3>1. x + 2 + c - 1 = y /\ y \in Nat \ {0}
      BY <1>2
    <3> HIDE DEF y
    <3>2. Sits(f, y, Closing)
      BY <1>2, <1>7, <3>1
    <3>3. ClosingAt(f, y)
      BY <1>1, <3>1, <3>2, ClosingSits
    <3> QED  BY <1>1, <3>1, <3>3 DEF ClosingAt
  <2> HIDE DEF y
  <2>2. PICK j \in 1..n : Typed(ss[j]) /\ ~(cut /\ j = n) /\ y = start[j + 1] - 3
    BY <1>1, <2>1 DEF Marks
  <2> DEFINE b == start[j + 1]
             a == start[j]
  <2>3. b \in Nat /\ a \in Nat /\ a + 12 =< b /\ j + 1 \in 1..(n + 1) /\ j \in 1..(n + 1)
        /\ j \in Nat
    <3>1. j + 1 \in 1..(n + 1) /\ j \in 1..(n + 1) /\ j \in Nat
      BY <1>1
    <3>2. start[j] + 12 =< start[j + 1]
      BY <1>1, <2>2 DEF Marks
    <3>3. start[j + 1] \in Nat /\ start[j] \in Nat
      BY <1>1, <3>1
    <3> QED  BY <3>1, <3>2, <3>3
  <2>4. b = r
    <3>1. y = b - 3
      BY <2>2
    <3> HIDE DEF b, a
    <3> QED  BY <1>2, <2>3, <3>1 DEF y
  <2>5. i =< j
    <3>1. SUFFICES ASSUME j < i PROVE FALSE
      BY <1>1, <2>3
    <3>2. CASE i < n /\ x = start[i + 1]
      <4>1. start[j + 1] =< start[i + 1]
        BY <1>1, <1>5, <2>3, <3>1
      <4> HIDE DEF a
      <4> QED  BY <1>2, <2>3, <2>4, <3>2, <4>1
    <3>3. CASE i > 0 /\ start[i] < x
      <4>1. i \in 1..(n + 1) /\ j + 1 =< i
        BY <1>1, <2>3, <3>1, <3>3
      <4>2. b =< start[i] /\ start[i] \in Nat
        BY <1>1, <2>3, <4>1
      <4> HIDE DEF a, b
      <4> QED  BY <1>2, <2>3, <2>4, <3>3, <4>2
    <3> QED  BY <3>2, <3>3
  <2>6. Recovered(ss, d, j)
    <3>1. \A m \in (i + 1)..j : ~Clear(ss, m)
      BY <1>1, <1>6, <2>3
    <3> QED  BY <1>1, <2>3, <2>5, <3>1, RecoveredOn
  <2>7. Behind(ss, start, n, j, r)
    <3>1. r =< b + 5 /\ a =< r /\ a + 5 < r /\ j \in 0..n /\ r \in Nat
      <4> HIDE DEF a, b, r
      <4> QED  BY <1>1, <1>4, <2>3, <2>4
    <3> HIDE DEF r
    <3> QED  BY <3>1, BehindAt
  <2>8. Base(ss, f, start, n, cut, d, r, j)
    <3>1. j < n \/ ~cut
      <4>1. cut \in BOOLEAN
        BY DEF Laid
      <4> QED  BY <1>1, <2>2, <2>3, <4>1
    <3>2. r =< start[j + 1] /\ \A z \in r..(start[j + 1] - 1) : ~ExpiryAt(f, z)
      <4>1. r =< b /\ \A z : z \notin r..(b - 1)
        <5> HIDE DEF a, b, r
        <5> QED  BY <2>3, <2>4
      <4> HIDE DEF r
      <4> QED  BY <4>1
    <3> HIDE DEF r
    <3> QED  BY <2>6, <2>7, <3>1, <3>2 DEF Base
  <2>9. j \in 0..n
    BY <1>1, <2>3
  <2> HIDE DEF r
  <2> QED  BY <1>3, <1>4, <2>8, <2>9 DEF AtTime, c, t
<1>8. CASE c = 0
  <2>0. r = x + 4
    BY <1>8
  <2>1. \A y \in Nat \ {0} : y >= x + 2 => ~ClosingAt(f, y)
    BY <1>1, <1>2, <1>8, ClosingSits
  <2>2. CASE i > 0 /\ Typed(ss[i]) /\ (i < n \/ ~cut) /\ x < start[i + 1]
    <3> DEFINE w == start[i + 1] - 3
    <3>1. ClosingAt(f, w)
      <4>1. i \in 1..n /\ ~(cut /\ i = n)
        BY <1>1, <2>2
      <4> QED  BY <1>1, <2>2, <4>1 DEF Marks
    <3>2. w \in Nat \ {0}
      BY <1>1, <1>5
    <3>3. f[w] = CR /\ f[w + 1] = Dollar /\ f[w + 2] = LF
      BY <3>1 DEF ClosingAt
    <3>4. x < w + 3
      BY <1>1, <1>5, <2>2
    <3> HIDE DEF w
    <3>5. f[x] = E /\ f[x + 1] = Colon
      BY DEF ExpiryAt
    <3>6. x # w /\ x # w + 1 /\ x # w + 2 /\ x + 1 # w
      BY <3>3, <3>5, MarksDiffer
    <3>7. w >= x + 2
      BY <3>2, <3>4, <3>6
    <3> QED  BY <2>1, <3>1, <3>2, <3>7
  <2>3. CASE i < n /\ x = start[i + 1] /\ ~Confined(ss[i + 1])
    <3> DEFINE k == i + 1
               a == start[k]
               b == start[k + 1]
    <3>1. k \in 1..n /\ k \in 0..n /\ k \in Nat /\ k > 0 /\ k + 1 \in 1..(n + 1)
      BY <1>1, <2>3
    <3> HIDE DEF k
    <3>2. a = x /\ b \in Nat /\ a + 5 =< b /\ (Typed(ss[k]) => a + 12 =< b)
          /\ (cut /\ k = n => Typed(ss[k]))
      BY <1>1, <2>3, <3>1 DEF Marks, k
    <3>3. HeadAt(f, a, ss[k])
      BY <1>1, <3>1 DEF Marks
    <3>4. CASE ~(cut /\ k = n)
      <4>1. ~Typed(ss[k])
        <5>1. SUFFICES ASSUME Typed(ss[k]) PROVE FALSE
          OBVIOUS
        <5>2. ClosingAt(f, b - 3) /\ a + 12 =< b
          BY <1>1, <3>1, <3>2, <3>4, <5>1 DEF Marks
        <5> HIDE DEF a, b
        <5>3. b - 3 \in Nat \ {0} /\ b - 3 >= x + 2
          BY <3>2, <5>2
        <5> QED  BY <2>1, <5>2, <5>3
      <4>2. b = a + 5
        BY <3>1, <3>4, <4>1 DEF Laid, ObjectAt
      <4>3. Recovered(ss, d, k)
        <5>1. \A m \in (i + 1)..k : ~Clear(ss, m)
          BY <1>1, <1>6, <3>1
        <5>2. i =< k
          BY <1>1 DEF k
        <5> QED  BY <1>1, <3>1, <5>1, <5>2, RecoveredOn
      <4>4. Behind(ss, start, n, k, r)
        <5>1. r =< b + 5 /\ a =< r /\ r \in Nat
          <6> HIDE DEF a, b, r
          <6> QED  BY <1>4, <2>0, <3>2, <4>2
        <5> HIDE DEF r
        <5> QED  BY <3>1, <4>1, <5>1, BehindAt
      <4>5. /\ r =< b /\ \A z \in r..(b - 1) : z = a + 4
        <5> HIDE DEF a, b, r
        <5> QED  BY <1>4, <2>0, <3>2, <4>2
      <4>6. ~ExpiryAt(f, a + 4)
        BY <3>3, MarksDiffer DEF HeadAt, ExpiryAt
      <4>7. k < n \/ ~cut
        <5>1. cut \in BOOLEAN
          BY DEF Laid
        <5> QED  BY <1>1, <3>1, <3>4, <5>1
      <4> HIDE DEF r
      <4>8. Base(ss, f, start, n, cut, d, r, k)
        BY <4>3, <4>4, <4>5, <4>6, <4>7 DEF Base
      <4> QED  BY <1>3, <1>4, <3>1, <4>8 DEF AtTime, c, t
    <3>5. CASE cut /\ k = n
      <4>1. CutAt(f, start[n], ss[n]) /\ n # 0
        BY <3>5 DEF Laid
      <4>2. start[n] = x /\ ss[n] \in Objects /\ ~Confined(ss[n]) /\ n - 1 = i
        BY <1>1, <2>3, <3>1, <3>2, <3>5 DEF k
      <4>3. ASSUME NEW z \in r..Len(f), ExpiryAt(f, z), NEW y \in (z + 2)..Len(f)
            PROVE  f[y] # CR
        <5>1. f[z] = E /\ z \in (x + 4)..Len(f)
          BY <2>0, <4>3 DEF ExpiryAt
        <5>2. CutAt(f, x, ss[n])
          BY <4>1, <4>2
        <5> QED  BY <1>1, <4>2, <4>3, <5>1, <5>2, CutLost
      <4>4. n > 0
        BY <1>1, <4>1
      <4> HIDE DEF r
      <4>5. Lost(ss, f, n, d, r)
        BY <4>2, <4>3, <4>4 DEF Lost
      <4> QED  BY <1>3, <1>4, <4>5 DEF AtTime, c, t
    <3> QED  BY <3>4, <3>5
  <2> QED  BY <2>2, <2>3
<1> QED  BY <1>7, <1>8

(* It has passed an expiry, g.end, and looks for a tag. *)
AtType(ss, start, n, cut, d, g, q) ==
  /\ g.key = <<>> /\ g.vals = <<>>
  /\ \E i \in 0..n :
       /\ Behind(ss, start, n, i, q) /\ Recovered(ss, d, i)
       /\ i < n /\ Clear(ss, i + 1) => g.end = Never
       /\ i = n => ~cut /\ n > 0 /\ (~Typed(ss[n]) \/ ~Confined(ss[n]))

(* It has read the type of the j-th object. *)
AtObject(ss, start, n, d, g, q) ==
  \E j \in 1..n :
    /\ Typed(ss[j]) /\ q = start[j] + 6
    /\ g.type = ss[j].type /\ g.key = <<>> /\ g.vals = <<>>
    /\ (Clear(ss, j) => g.end = Never) /\ Recovered(ss, d, j - 1)

DollarInside(o) ==
  \E i \in DOMAIN o.vals : \E k \in 2..Len(o.vals[i]) : o.vals[i][k] = Dollar

(* It has read p words of a hash or of a list. *)
InWords(o, pos, p, g, q) ==
  /\ q = pos[p + 1] /\ g.type = o.type /\ g.key = o.key
  /\ \/ /\ o.type = HashType /\ p % 2 = 0
        /\ Confined(o) /\ Described(o) => g.vals = SubSeq(o.vals, 1, p)
     \/ /\ o.type = ListType
        /\ g.vals = SubSeq(o.vals, 1, p) \/ DollarInside(o)

AtWords(ss, f, start, n, cut, d, g, q) ==
  \E j \in 1..n :
    /\ ~(cut /\ j = n) /\ (Clear(ss, j) => g.end = Never) /\ Recovered(ss, d, j - 1)
    /\ \E pos \in [1..(Len(ss[j].vals) + 1) -> Nat] : \E p \in 0..Len(ss[j].vals) :
         WordsAt(f, start[j], start[j + 1], ss[j], pos) /\ InWords(ss[j], pos, p, g, q)

Stages == {"time", "type", "object", "fields", "values"}

Stands(st, ss, f, start, n, cut, d, g, q) ==
  /\ st = "time" => AtTime(ss, f, start, n, cut, d, q)
  /\ st = "type" => AtType(ss, start, n, cut, d, g, q)
  /\ st = "object" => AtObject(ss, start, n, d, g, q)
  /\ st \in {"fields", "values"} => AtWords(ss, f, start, n, cut, d, g, q)

(* Wherever the parser is in the file, that is what it stands for. *)
ReadInv ==
  stage \in Stages =>
    \E f, start, n, cut : \E q \in Nat \ {0} :
      /\ Laid(saved, f, start, n, cut) /\ text = From(f, q)
      /\ Stands(stage, saved, f, start, n, cut, db, got, q)

LEMMA GoesOn ==
  ASSUME NEW f, NEW start, NEW n, NEW cut, NEW r \in Nat \ {0},
         Laid(saved, f, start, n, cut), saved' = saved, text' = From(f, r), stage' \in Stages,
         Stands(stage', saved, f, start, n, cut, db', got', r)
  PROVE  ReadInv' /\ ComesBack' /\ EndsUnless'
<1>1. ReadInv'
  BY DEF ReadInv
<1>2. ComesBack' /\ EndsUnless'
  BY DEF ComesBack, EndsUnless, Stages
<1> QED  BY <1>1, <1>2

LEMMA Stops ==
  ASSUME saved' = saved, db' = db, stage' = "done", BackFrom(saved, db)
  PROVE  ReadInv' /\ ComesBack' /\ EndsUnless'
BY DEF ReadInv, Stages, ComesBack, BackFrom, EndsUnless

LEMMA Strays ==
  ASSUME saved' = saved, db' = db, stage' = "astray", BackFrom(saved, db),
         \E o \in ToSet(saved) : ZeroByte(o) \/ Compressible(o)
  PROVE  ReadInv' /\ ComesBack' /\ EndsUnless'
BY DEF ReadInv, Stages, ComesBack, BackFrom, EndsUnless

(* What is in a piece of the rest of the file is in the file. *)
LEMMA HasSlice ==
  ASSUME NEW f \in Text, NEW q \in Nat \ {0}, NEW i \in Nat \ {0},
         NEW j \in Int, j =< Len(From(f, q)), NEW s, Has(SubSeq(From(f, q), i, j), s)
  PROVE  \E y \in (q + i - 1)..(q + j - 1) : y =< Len(f) /\ f[y] = s
<1> DEFINE t == From(f, q)
           u == SubSeq(t, i, j)
<1>1. /\ t \in Text /\ Len(t) \in Nat /\ Len(f) \in Nat
      /\ Len(t) = IF q =< Len(f) THEN Len(f) - q + 1 ELSE 0
      /\ \A k \in 1..Len(t) : t[k] = f[q + k - 1]
  BY RestIs DEF Text
<1>2. s \in ToSet(u)
  BY DEF Has
<1>3. j =< Len(t)
  OBVIOUS
<1> HIDE DEF t
<1>4. i =< j
  <2>1. SUFFICES ASSUME j < i PROVE FALSE
    OBVIOUS
  <2>2. u = <<>>
    BY <2>1, SubSeqEmpty
  <2> QED  BY <1>2, <2>2 DEF ToSet
<1>5. Len(u) = j - i + 1 /\ u \in Text /\ \A k \in 1..Len(u) : u[k] = t[i + k - 1]
  BY <1>1, <1>3, <1>4 DEF Text
<1> HIDE DEF u
<1>6. DOMAIN u = 1..Len(u)
  BY <1>5 DEF Text
<1>7. PICK k \in 1..Len(u) : u[k] = s
  BY <1>2, <1>6 DEF ToSet
<1>8. i + k - 1 \in 1..Len(t) /\ i + k - 1 =< j /\ i =< i + k - 1
  BY <1>1, <1>3, <1>4, <1>5, <1>7
<1> DEFINE y == q + (i + k - 1) - 1
<1>9. f[y] = s
  BY <1>1, <1>5, <1>7, <1>8
<1>10. y \in (q + i - 1)..(q + j - 1) /\ y =< Len(f)
  BY <1>1, <1>8
<1> QED  BY <1>9, <1>10

(* A compressed text that misleads the parser is that of an object. *)
LEMMA WildSaved ==
  ASSUME NEW ss \in Seq(Objects), NEW f \in Text, NEW start, NEW n, NEW cut,
         Laid(ss, f, start, n, cut), NEW y \in 1..Len(f), f[y] = Wild
  PROVE  \E o \in ToSet(ss) : Compressible(o)
<1>1. Marks(ss, f, start, n, cut) /\ n \in 0..Len(ss)
  BY Placed
<1>2. PICK j \in 1..n : Compressible(ss[j])
  BY <1>1 DEF Marks
<1>3. j \in DOMAIN ss
  BY <1>1
<1> QED  BY <1>2, <1>3 DEF ToSet

LEMMA TimeStep ==
  ASSUME TypeInv, NEW f, NEW start, NEW n, NEW cut, NEW q \in Nat \ {0},
         Laid(saved, f, start, n, cut), text = From(f, q),
         AtTime(saved, f, start, n, cut, db, q), ReadEnd \/ SkipExpired \/ ReadTime
  PROVE  ReadInv' /\ ComesBack' /\ EndsUnless'
<1> DEFINE m == Find(text, Expiry)
           x == q + m - 1
<1>1. /\ saved \in Seq(Objects) /\ Len(saved) \in Nat /\ n \in 0..Len(saved) /\ n \in Nat
      /\ f \in Text /\ Len(f) \in Nat
      /\ Marks(saved, f, start, n, cut)
      /\ \A j \in 1..(n + 1) : start[j] \in Nat /\ 8 =< start[j]
      /\ saved' = saved
  <2>1. saved \in Seq(Objects)
    BY DEF TypeInv
  <2>2. saved' = saved
    BY DEF ReadEnd, SkipExpired, ReadTime
  <2> QED  BY <2>1, <2>2, Placed
<1>2. /\ m \in Nat
      /\ m # 0 => Sits(f, q + m - 1, Expiry)
  BY <1>1, FindRest, MarksText
<1>3. TimeAt = m + 2 /\ (HasTime <=> stage = "time" /\ m # 0)
      /\ Time = AtoI(Line(From(f, q), m + 2))
  BY DEF TimeAt, HasTime, Time
<1>4. Now \in Nat \ {0}
  BY LimitsAssumption
<1>5. From(text, m + 2) = From(f, x + 2)
  <2> HIDE DEF m
  <2>1. m + 2 \in Nat \ {0}
    BY <1>2
  <2>2. From(From(f, q), m + 2) = From(f, q + (m + 2) - 1)
    BY <1>1, <2>1, RestOfRest
  <2>3. q + (m + 2) - 1 = x + 2
    BY <1>2
  <2> QED  BY <2>2, <2>3
<1> DEFINE Fin == \E i \in 0..Len(saved) :
                    Recovered(saved, db, i) /\ (i = Len(saved) \/ ~Clear(saved, i + 1))
<1>6. ASSUME Fin, ReadEnd
      PROVE  ReadInv' /\ ComesBack' /\ EndsUnless'
  <2>1. BackFrom(saved, db)
    BY <1>1, <1>6, Finishes
  <2> QED  BY <1>6, <2>1, Stops DEF ReadEnd
<1> HIDE DEF Fin
<1>7. CASE Lost(saved, f, n, db, q)
  <2>1. Fin
    <3>1. n - 1 \in 0..Len(saved) /\ n - 1 + 1 = n /\ n \in 1..n
      BY <1>1, <1>7 DEF Lost
    <3>2. ~Clear(saved, n)
      BY <1>7, <3>1 DEF Lost, Clear
    <3> QED  BY <1>7, <3>1, <3>2 DEF Lost, Fin
  <2>2. ASSUME m # 0 PROVE Time = 0
    <3>1. x \in Nat \ {0}
      BY <1>2, <2>2
    <3>2. ExpiryAt(f, x) /\ x \in q..Len(f)
      <4>1. ExpiryAt(f, x)
        <5>1. Sits(f, x, Expiry)
          BY <1>2, <2>2
        <5> HIDE DEF x
        <5> QED  BY <1>1, <3>1, <5>1, ExpirySits
      <4>2. x + 1 =< Len(f)
        BY <4>1 DEF ExpiryAt
      <4>3. x >= q
        BY <1>2, <2>2
      <4> HIDE DEF x
      <4> QED  BY <1>1, <3>1, <4>1, <4>2, <4>3
    <3>3. \A y \in (x + 2)..Len(f) : f[y] # CR
      <4> HIDE DEF x
      <4> QED  BY <1>7, <3>2 DEF Lost
    <3>4. m + 2 \in Nat \ {0} /\ q + (m + 2) - 1 = x + 2
      BY <1>2
    <3> HIDE DEF m, x
    <3> QED  BY <1>1, <1>3, <3>3, <3>4, NoLine
  <2>3. ReadEnd
    BY <1>3, <1>4, <2>2 DEF SkipExpired, ReadTime
  <2> QED  BY <1>6, <2>1, <2>3
<1>8. ASSUME NEW i \in 0..n, Base(saved, f, start, n, cut, db, q, i)
      PROVE  ReadInv' /\ ComesBack' /\ EndsUnless'
  <2>0. i \in Nat /\ i \in 0..Len(saved) /\ i + 1 \in 1..(n + 1)
        /\ (i < n => i + 1 \in 1..n) /\ i =< n
    BY <1>1
  <2>1. Behind(saved, start, n, i, q) /\ Recovered(saved, db, i) /\ (i < n \/ ~cut)
    BY <1>8 DEF Base
  <2>2. m = 0 => i = n /\ ~cut
    BY <1>1, <1>8, NextExpiry
  <2>3. m # 0 => /\ x \in Nat \ {0} /\ q =< x /\ ExpiryAt(f, x)
                 /\ \/ i < n /\ x = start[i + 1] /\ Time = saved[i + 1].end
                    \/ i > 0 /\ Typed(saved[i]) /\ ~Confined(saved[i]) /\ x < start[i + 1]
    BY <1>1, <1>3, <1>8, NextExpiry
  <2> DEFINE Next1 == i < n /\ x = start[i + 1] /\ Time = saved[i + 1].end
             Left == i > 0 /\ Typed(saved[i]) /\ ~Confined(saved[i]) /\ x < start[i + 1]
  <2>4. ASSUME Left PROVE ~Clear(saved, i + 1) /\ i \in 1..n
    <3>1. i \in 1..(i + 1) /\ i \in 1..n
      BY <2>0, <2>4
    <3> QED  BY <2>4, <3>1 DEF Clear
  <2>5. ASSUME Next1, Clear(saved, i + 1) PROVE Time = Never
    <3>1. i + 1 \in 1..(i + 1)
      BY <2>0
    <3>2. Confined(saved[i + 1])
      BY <2>5, <3>1 DEF Clear
    <3> QED  BY <2>5, <3>2 DEF Confined
  <2> HIDE DEF m, x
  <2>6. CASE ReadEnd
    <3>1. m = 0 \/ ~Clear(saved, i + 1)
      <4>1. m # 0 => Time = 0
        BY <1>3, <2>6 DEF ReadEnd
      <4> QED  BY <2>3, <2>4, <2>5, <4>1 DEF Never
    <3>2. m = 0 => i = Len(saved)
      BY <1>1, <2>2 DEF Laid
    <3>3. Fin
      BY <2>0, <2>1, <3>1, <3>2 DEF Fin
    <3> QED  BY <1>6, <2>6, <3>3
  <2>7. CASE SkipExpired
    <3>1. m # 0 /\ Time \in 1..(Now - 1)
      BY <1>3, <2>7 DEF SkipExpired
    <3> DEFINE w == From(f, x + 2)
               l == Find(w, Closing)
    <3>2. /\ db' = db /\ got' = got /\ stage = "time"
          /\ IF Has(SubSeq(w, 1, l), Wild)
               THEN stage' = "astray"
               ELSE text' = From(w, l + 3) /\ stage' = stage
      BY <1>3, <1>5, <2>7 DEF SkipExpired, m
    <3>3. Next1 => ~Confined(saved[i + 1])
      BY <1>4, <3>1 DEF Confined, Never
    <3>4. Left => start[i] < x
      <4>1. SUFFICES ASSUME Left PROVE start[i] < x
        OBVIOUS
      <4>2. start[i] + 5 < q
        BY <2>1, <2>4, <4>1 DEF Behind
      <4> DEFINE a == start[i]
      <4>3. a \in Nat
        <5>1. i \in 1..(n + 1)
          BY <1>1, <2>0, <4>1
        <5> QED  BY <1>1, <5>1
      <4>4. a + 5 < q
        BY <4>2
      <4>6. x \in Nat /\ q =< x
        BY <2>3, <3>1
      <4> HIDE DEF a
      <4>5. a < x
        BY <4>3, <4>4, <4>6
      <4> QED  BY <4>5 DEF a
    <3>5. Next1 \/ Left
      BY <2>3, <3>1
    <3>6. CASE Has(SubSeq(w, 1, l), Wild)
      <4>1. ~Clear(saved, i + 1)
        <5>1. i + 1 \in 1..(i + 1)
          BY <2>0
        <5> QED  BY <2>4, <3>3, <3>5, <5>1 DEF Clear
      <4>2. BackFrom(saved, db)
        BY <1>1, <2>0, <2>1, <4>1, Finishes
      <4>3. x \in Nat \ {0} /\ x + 2 \in Nat \ {0}
        BY <2>3, <3>1
      <4>4. l \in Nat /\ l =< Len(w)
        <5>1. w \in Text
          BY <1>1, <4>3, FromText
        <5> HIDE DEF w
        <5>2. Closing \in Text /\ Closing # <<>>
          BY MarksText
        <5>3. l \in 0..Len(w) /\ Len(w) \in Nat
          BY <5>1, <5>2, FindIn DEF Text
        <5> HIDE DEF l
        <5> QED  BY <5>3
      <4> DEFINE v == x + 2
      <4>5. v \in Nat \ {0} /\ w = From(f, v)
        BY <4>3
      <4> HIDE DEF v, l
      <4>6. \E y \in (v + 1 - 1)..(v + l - 1) : y =< Len(f) /\ f[y] = Wild
        BY <1>1, <3>6, <4>4, <4>5, HasSlice
      <4>7. PICK y \in 1..Len(f) : f[y] = Wild
        BY <1>1, <4>4, <4>5, <4>6
      <4>8. \E o \in ToSet(saved) : Compressible(o)
        BY <1>1, <4>7, WildSaved
      <4> QED  BY <1>1, <3>2, <3>6, <4>2, <4>8, Strays
    <3>7. CASE ~Has(SubSeq(w, 1, l), Wild)
      <4>1. \E r \in Nat \ {0} : /\ text' = From(f, r)
                                 /\ AtTime(saved, f, start, n, cut, db, r)
        <5>1. x \in Nat \ {0} /\ ExpiryAt(f, x)
          BY <2>3, <3>1
        <5>2. \/ i < n /\ x = start[i + 1] /\ ~Confined(saved[i + 1])
              \/ /\ i > 0 /\ Typed(saved[i]) /\ ~Confined(saved[i]) /\ (i < n \/ ~cut)
                 /\ start[i] < x /\ x < start[i + 1]
          BY <2>1, <3>3, <3>4, <3>5
        <5>3. \E r \in Nat \ {0} :
                 /\ From(From(f, x + 2), Find(From(f, x + 2), Closing) + 3) = From(f, r)
                 /\ AtTime(saved, f, start, n, cut, db, r)
          BY <1>1, <2>1, <5>1, <5>2, Skipped
        <5> QED  BY <3>2, <3>7, <5>3
      <4>2. PICK r \in Nat \ {0} : text' = From(f, r) /\ AtTime(saved, f, start, n, cut, db, r)
        BY <4>1
      <4>3. stage' \in Stages /\ Stands(stage', saved, f, start, n, cut, db', got', r)
        BY <3>2, <3>7, <4>2 DEF Stages, Stands
      <4> QED  BY <1>1, <4>2, <4>3, GoesOn
    <3> QED  BY <3>6, <3>7
  <2>8. CASE ReadTime
    <3>1. m # 0 /\ text' = From(f, x + 2) /\ stage' = "type" /\ db' = db
          /\ got' = [NoObject EXCEPT !.end = Time]
      BY <1>3, <1>5, <2>8 DEF ReadTime, m
    <3>2. got'.key = <<>> /\ got'.vals = <<>> /\ got'.end = Time
      BY <3>1 DEF NoObject
    <3>3. x + 2 \in Nat \ {0} /\ x + 2 \in Nat
      BY <2>3, <3>1
    <3>4. Behind(saved, start, n, i, x + 2)
      <4>1. x + 2 =< start[i + 1] + 5
        <5> DEFINE b == start[i + 1]
        <5>1. b \in Nat /\ x \in Nat /\ x =< b
          <6>1. b \in Nat
            BY <1>1, <2>0
          <6>2. x \in Nat /\ (x = b \/ x < b)
            BY <2>3, <3>1
          <6> HIDE DEF b
          <6> QED  BY <6>1, <6>2
        <5> HIDE DEF b
        <5>2. x + 2 =< b + 5
          BY <5>1
        <5> QED  BY <5>2 DEF b
      <4>2. i > 0 => start[i] =< x + 2 /\ (Typed(saved[i]) => start[i] + 5 < x + 2)
        <5>1. SUFFICES ASSUME i > 0
                       PROVE  start[i] =< x + 2 /\ (Typed(saved[i]) => start[i] + 5 < x + 2)
          OBVIOUS
        <5> DEFINE a == start[i]
                   b == start[i + 1]
        <5>2. i \in 1..n /\ i \in 1..(n + 1)
          BY <1>1, <2>0, <5>1
        <5>3. a \in Nat /\ b \in Nat
          BY <1>1, <2>0, <5>2
        <5>4. x \in Nat /\ q =< x
          BY <2>3, <3>1
        <5>5. Typed(saved[i]) => a + 5 < q
          BY <2>0, <2>1, <5>2 DEF Behind
        <5>6. a + 5 =< b
          BY <1>1, <5>2 DEF Marks
        <5>7. x = b \/ Typed(saved[i])
          BY <2>3, <3>1
        <5> HIDE DEF a, b
        <5>8. a =< x + 2 /\ (Typed(saved[i]) => a + 5 < x + 2)
          BY <5>3, <5>4, <5>5, <5>6, <5>7
        <5> QED  BY <5>8 DEF a
      <4> QED  BY <1>1, <3>3, <4>1, <4>2, BehindAt
    <3>5. i < n /\ Clear(saved, i + 1) => got'.end = Never
      BY <2>3, <2>4, <2>5, <3>1, <3>2
    <3>6. i = n => ~cut /\ n > 0 /\ (~Typed(saved[n]) \/ ~Confined(saved[n]))
      <4>1. SUFFICES ASSUME i = n PROVE ~cut /\ n > 0 /\ (~Typed(saved[n]) \/ ~Confined(saved[n]))
        OBVIOUS
      <4>2. ~(i < n)
        BY <1>1, <4>1
      <4>3. Left
        BY <2>3, <3>1, <4>2
      <4> QED  BY <2>1, <4>1, <4>2, <4>3
    <3>7. AtType(saved, start, n, cut, db', got', x + 2)
      BY <2>1, <3>1, <3>2, <3>4, <3>5, <3>6 DEF AtType
    <3>8. stage' \in Stages /\ Stands(stage', saved, f, start, n, cut, db', got', x + 2)
      BY <3>1, <3>7 DEF Stages, Stands
    <3> QED  BY <1>1, <3>1, <3>3, <3>8, GoesOn
  <2> QED  BY <2>6, <2>7, <2>8
<1> QED  BY <1>7, <1>8 DEF AtTime

LEMMA TypedIs ==
  ASSUME NEW o \in Objects
  PROVE  Typed(o) <=> o.type \in StringType..ListType
<1>1. o.type \in Int
  BY ObjectType
<1> QED  BY <1>1 DEF Typed, StringType, HashType, ListType

LEMMA TypeStep ==
  ASSUME TypeInv, NEW f, NEW start, NEW n, NEW cut, NEW q \in Nat \ {0},
         Laid(saved, f, start, n, cut), text = From(f, q),
         AtType(saved, start, n, cut, db, got, q), ReadType
  PROVE  ReadInv' /\ ComesBack' /\ EndsUnless'
<1> DEFINE c == Find(text, <<CtpTag>>)
           z == q + c - 1
<1>1. /\ saved \in Seq(Objects) /\ Len(saved) \in Nat /\ n \in 0..Len(saved) /\ n \in Nat
      /\ f \in Text /\ Len(f) \in Nat /\ Marks(saved, f, start, n, cut)
      /\ \A j \in 1..(n + 1) : start[j] \in Nat /\ 8 =< start[j]
      /\ \A j \in 1..n : saved[j] \in Objects
  <2>1. saved \in Seq(Objects)
    BY DEF TypeInv
  <2> QED  BY <2>1, Placed
<1>2. saved' = saved /\ db' = db
  BY DEF ReadType
<1>3. got \in [type : Int, key : Text, end : Int, vals : Seq(Text)]
  BY DEF TypeInv
<1>4. CtpTag \in Symbol /\ <<CtpTag>> \in Text /\ <<CtpTag>> # <<>>
  BY SymbolIs, OneText
<1>5. /\ c \in Nat
      /\ c # 0 => /\ Sits(f, q + c - 1, <<CtpTag>>)
                  /\ \A x \in q..(q + c - 2) : ~Sits(f, x, <<CtpTag>>)
      /\ c = 0 => \A x \in Nat : x >= q => ~Sits(f, x, <<CtpTag>>)
  BY <1>1, <1>4, FindRest
<1>6. /\ c # 0 => /\ z \in Nat \ {0} /\ q =< z /\ z =< Len(f) /\ f[z] = CtpTag
                  /\ \A x \in q..(z - 1) : f[x] # CtpTag
      /\ c = 0 => \A x \in Nat \ {0} : x >= q /\ x =< Len(f) => f[x] # CtpTag
  <2>1. ASSUME c # 0
        PROVE  /\ z \in Nat \ {0} /\ q =< z /\ z =< Len(f) /\ f[z] = CtpTag
               /\ \A x \in q..(z - 1) : f[x] # CtpTag
    <3>1. z \in Nat \ {0} /\ q =< z
      BY <1>5, <2>1
    <3>2. z =< Len(f) /\ f[z] = CtpTag
      <4>1. Sits(f, z, <<CtpTag>>)
        BY <1>5, <2>1
      <4> HIDE DEF z
      <4> QED  BY <1>1, <1>4, <3>1, <4>1, OneSits
    <3>3. \A x \in q..(z - 1) : f[x] # CtpTag
      <4>1. ASSUME NEW x \in q..(z - 1) PROVE f[x] # CtpTag
        <5>1. x \in q..(q + c - 2) /\ x \in Nat \ {0}
          BY <1>5
        <5>2. x =< Len(f)
          BY <3>1, <3>2, <1>1
        <5> HIDE DEF c, z
        <5> QED  BY <1>1, <1>4, <1>5, <2>1, <5>1, <5>2, OneSits
      <4> QED  BY <4>1
    <3> QED  BY <3>1, <3>2, <3>3
  <2>2. ASSUME c = 0, NEW x \in Nat \ {0}, x >= q, x =< Len(f) PROVE f[x] # CtpTag
    BY <1>1, <1>4, <1>5, <2>2, OneSits
  <2> HIDE DEF c, z
  <2> QED  BY <2>1, <2>2
<1>7. PICK i \in 0..n :
        /\ Behind(saved, start, n, i, q) /\ Recovered(saved, db, i)
        /\ i < n /\ Clear(saved, i + 1) => got.end = Never
        /\ i = n => ~cut /\ n > 0 /\ (~Typed(saved[n]) \/ ~Confined(saved[n]))
  BY DEF AtType
<1>8. ASSUME NEW j \in 1..n, Typed(saved[j])
      PROVE  /\ LineAt(f, start[j] + 5, CtpTag, saved[j].type) /\ f[start[j] + 5] = CtpTag
             /\ start[j] + 8 =< Len(f) /\ start[j] \in Nat
             /\ j > i => start[j] + 5 >= q
  <2> DEFINE a == start[j]
  <2>1. LineAt(f, a + 5, CtpTag, saved[j].type)
    BY <1>1, <1>8 DEF Marks
  <2>2. a \in Nat
    <3>1. j \in 1..(n + 1)
      BY <1>1
    <3> QED  BY <1>1, <3>1
  <2>3. j =< i <=> a + 5 < q
    BY <1>7, <1>8 DEF Behind
  <2> HIDE DEF a
  <2>4. f[a + 5] = CtpTag /\ a + 8 =< Len(f)
    BY <1>1, <2>1, <2>2 DEF LineAt
  <2>5. j > i => a + 5 >= q
    BY <2>2, <2>3
  <2> QED  BY <2>1, <2>2, <2>4, <2>5 DEF a
<1> HIDE DEF c, z
<1>9. CASE c = 0
  <2>1. ASSUME NEW j \in 1..n, j > i PROVE ~Typed(saved[j])
    <3>1. SUFFICES ASSUME Typed(saved[j]) PROVE FALSE
      OBVIOUS
    <3> DEFINE a == start[j]
    <3>2. a \in Nat /\ a + 5 >= q /\ a + 8 =< Len(f) /\ f[a + 5] = CtpTag
      BY <1>8, <2>1, <3>1
    <3> HIDE DEF a
    <3>3. a + 5 \in Nat \ {0} /\ a + 5 =< Len(f)
      BY <1>1, <3>2
    <3> QED  BY <1>6, <1>9, <3>2, <3>3
  <2>2. n > 0 /\ ~cut /\ (~Typed(saved[n]) \/ ~Confined(saved[n]))
    <3>1. CASE i = n
      BY <1>7, <3>1
    <3>2. CASE i < n
      <4>1. n \in 1..n /\ n > i /\ n > 0
        BY <1>1, <3>2
      <4>2. ~Typed(saved[n])
        BY <2>1, <4>1
      <4>3. ~cut
        BY <1>1, <4>1, <4>2 DEF Marks
      <4> QED  BY <4>1, <4>2, <4>3
    <3> QED  BY <1>1, <3>1, <3>2
  <2>3. n = Len(saved) /\ Last(saved) = saved[n] /\ saved[n] \in Objects
    <3>1. n = Len(saved)
      BY <2>2 DEF Laid
    <3>2. n \in 1..n
      BY <1>1, <2>2
    <3> QED  BY <1>1, <3>1, <3>2 DEF Last
  <2>4. Last(saved).type \notin StringType..ListType \/ ~Confined(Last(saved))
    BY <2>2, <2>3, TypedIs
  <2>5. stage' = "aborted"
    BY <1>9 DEF ReadType, c
  <2> QED  BY <1>2, <2>4, <2>5 DEF EndsUnless, ComesBack, ReadInv, Stages
<1>10. CASE c # 0
  <2>1. z \in 1..Len(f) /\ f[z] = CtpTag
    BY <1>1, <1>6, <1>10
  <2>2. PICK j \in 1..n : Typed(saved[j]) /\ z = start[j] + 5
    BY <1>1, <2>1 DEF Marks
  <2> DEFINE a == start[j]
             ty == saved[j].type
  <2>3. /\ LineAt(f, z, CtpTag, ty) /\ a \in Nat /\ z = a + 5 /\ ty \in Int
    <3>1. ty \in Int
      BY <1>1, ObjectType
    <3> QED  BY <1>8, <2>2, <3>1
  <2>4. j > i
    <3>1. j =< i <=> a + 5 < q
      BY <1>7, <2>2 DEF Behind
    <3> HIDE DEF a
    <3>2. ~(a + 5 < q)
      BY <1>6, <1>10, <2>3
    <3> QED  BY <1>1, <3>1, <3>2
  <2>5. ASSUME NEW m \in (i + 1)..(j - 1) PROVE ~Described(saved[m])
    <3>1. m \in 1..n /\ m > i /\ m < j /\ m \in 1..(n + 1) /\ j \in 1..(n + 1)
      BY <1>1
    <3>2. SUFFICES ASSUME Typed(saved[m]) PROVE FALSE
      BY DescribedIsTyped
    <3> DEFINE b == start[m]
    <3>3. b \in Nat /\ b + 5 >= q /\ f[b + 5] = CtpTag
      BY <1>8, <3>1, <3>2
    <3>4. b + 5 =< a
      BY <1>1, <3>1 DEF Marks
    <3> HIDE DEF a, b
    <3>5. b + 5 \in q..(z - 1)
      BY <1>6, <1>10, <2>3, <3>3, <3>4
    <3> QED  BY <1>6, <1>10, <3>3, <3>5
  <2>6. Recovered(saved, db, j - 1)
    <3>1. i \in Nat /\ j - 1 \in Nat /\ i =< j - 1
      BY <1>1, <2>4
    <3> QED  BY <1>7, <2>5, <3>1, RecoveredOn
  <2>7. Clear(saved, j) => got.end = Never
    <3>1. SUFFICES ASSUME Clear(saved, j) PROVE got.end = Never
      OBVIOUS
    <3>2. i < n /\ 1..(i + 1) \subseteq 1..j
      BY <1>1, <2>4
    <3>3. Clear(saved, i + 1)
      BY <3>1, <3>2 DEF Clear
    <3> QED  BY <1>7, <3>2, <3>3
  <2> HIDE DEF a, ty
  <2>8. c = z - q + 1 /\ c + 1 \in Nat \ {0} /\ q + (c + 1) - 1 = z + 1 /\ z + 1 \in Nat \ {0}
    BY <1>5, <1>6, <1>10 DEF z
  <2>9. AtoI(Line(From(f, q), c + 1)) = ty
    <3>1. Find(From(f, q), <<CtpTag>>) = c
      BY DEF c
    <3>2. z \in Nat /\ q =< z /\ \A x \in q..(z - 1) : f[x] # CtpTag
      BY <1>6, <1>10
    <3>3. AtoI(Line(From(f, q), Find(From(f, q), <<CtpTag>>) + 1)) = ty
      BY <1>1, <1>4, <2>3, <3>2, LineHere
    <3> QED  BY <3>1, <3>3
  <2>10. From(From(f, q), c + 1) = From(f, z + 1)
    <3>1. From(From(f, q), c + 1) = From(f, q + (c + 1) - 1)
      BY <1>1, <2>8, RestOfRest
    <3> QED  BY <2>8, <3>1
  <2>11. /\ got' = [got EXCEPT !.type = AtoI(Line(text, c + 1))] /\ text' = From(text, c + 1)
         /\ stage' = "object"
    BY <1>10 DEF ReadType, c
  <2>12. got' = [got EXCEPT !.type = ty] /\ text' = From(f, z + 1)
    BY <2>9, <2>10, <2>11
  <2>13. got'.type = ty /\ got'.key = got.key /\ got'.vals = got.vals /\ got'.end = got.end
    BY <1>3, <2>12
  <2>14. z + 1 = start[j] + 6
    BY <2>3 DEF a
  <2>15. AtObject(saved, start, n, db, got', z + 1)
    <3>1. got.key = <<>> /\ got.vals = <<>>
      BY DEF AtType
    <3>2. got'.type = saved[j].type /\ got'.key = <<>> /\ got'.vals = <<>>
      BY <2>13, <3>1 DEF ty
    <3>3. Clear(saved, j) => got'.end = Never
      BY <2>7, <2>13
    <3> QED  BY <2>2, <2>6, <2>14, <3>2, <3>3 DEF AtObject
  <2>16. stage' \in Stages /\ Stands(stage', saved, f, start, n, cut, db', got', z + 1)
    BY <1>2, <2>11, <2>15 DEF Stages, Stands
  <2> QED  BY <1>2, <2>8, <2>12, <2>16, GoesOn
<1> QED  BY <1>9, <1>10

-----------------------------------------------------------------------------
(* The parser takes an object in. *)

(* x is the first place of s in f from b on, and not behind w; so the parser *)
(* finds it in what begins at y.                                             *)
FirstIs(f, y, i, s, b, w, x) ==
  /\ x \in b..w /\ f[x] = s /\ \A z \in b..(x - 1) : f[z] # s
  /\ Until(From(f, y), i, s) = x - y + 1

HasFirst(f, y, i, s, b, w) == \E x \in Nat : FirstIs(f, y, i, s, b, w, x)

LEMMA FirstHere ==
  ASSUME NEW f \in Text, NEW y \in Nat \ {0}, NEW i \in Nat \ {0}, NEW s \in Symbol,
         NEW b \in Nat, b = y + i - 1,
         NEW w \in Nat, b =< w, w =< Len(f), f[w] = s
  PROVE  HasFirst(f, y, i, s, b, w)
<1> DEFINE I == {x \in b..w : f[x] = s}
<1>1. b \in Nat \ {0} /\ b..w \subseteq Nat
  OBVIOUS
<1>2. w \in I /\ I \subseteq Nat
  BY <1>1
<1>3. PICK x \in I : \A z \in I : x =< z
  <2>1. I # {}
    BY <1>2
  <2> HIDE DEF I
  <2> QED  BY <1>2, <2>1, Least1
<1>4. x \in b..w /\ f[x] = s /\ x \in Nat
  BY <1>1, <1>3
<1>5. ASSUME NEW z \in b..(x - 1) PROVE f[z] # s
  <2>1. z \in b..w /\ ~(x =< z)
    BY <1>1, <1>4
  <2> QED  BY <1>3, <2>1
<1>6. Until(From(f, y), i, s) = x - y + 1
  <2>1. y + i - 1 =< x /\ x =< Len(f)
    <3>1. Len(f) \in Nat
      BY DEF Text
    <3> QED  BY <1>1, <1>4, <3>1
  <2>2. \A z \in (y + i - 1)..(x - 1) : f[z] # s
    BY <1>5
  <2> HIDE DEF I
  <2> QED  BY <1>4, <2>1, <2>2, UntilHere, SMTT(30)
<1> QED  BY <1>4, <1>5, <1>6 DEF HasFirst, FirstIs

(* What it has made of the j-th object goes into the database; what is     *)
(* left of it begins at r.                                                 *)
LEMMA ObjectAdded ==
  ASSUME TypeInv, Distinct, NEW f, NEW start, NEW n, NEW cut, Laid(saved, f, start, n, cut),
         NEW j \in 1..n, ~(cut /\ j = n), Typed(saved[j]), Recovered(saved, db, j - 1),
         NEW o, AddObject(o), Source(saved, o, j),
         Confined(saved[j]) /\ Clear(saved, j) /\ Described(saved[j]) => o = Back(saved[j]),
         NEW r \in Nat \ {0}, start[j] + 5 < r, r =< start[j + 1],
         Confined(saved[j]) => \A x \in r..(start[j + 1] - 1) : ~ExpiryAt(f, x),
         text' = From(f, r)
  PROVE  ReadInv' /\ ComesBack' /\ EndsUnless'
<1>1. /\ saved \in Seq(Objects) /\ Len(saved) \in Nat /\ n \in 0..Len(saved) /\ n \in Nat
      /\ \A i \in 1..(n + 1) : start[i] \in Nat /\ 8 =< start[i]
      /\ cut \in BOOLEAN
  <2>1. saved \in Seq(Objects)
    BY DEF TypeInv
  <2>2. cut \in BOOLEAN
    BY DEF Laid
  <2> QED  BY <2>1, <2>2, Placed
<1>2. /\ saved' = saved /\ stage' = "time"
      /\ db' = IF \E p \in db : SamePlace(o, p) THEN db ELSE db \cup {o}
  BY DEF AddObject
<1>3. Clear(saved, j) => Confined(saved[j])
  BY <1>1 DEF Clear
<1>4. j \in 1..Len(saved) /\ j \in 0..n /\ j > 0 /\ j \in 1..(n + 1) /\ j + 1 \in 1..(n + 1)
  BY <1>1
<1>5. Recovered(saved, db', j)
  <2>1. Apart(saved)
    BY DEF Apart, Distinct
  <2>2. Clear(saved, j) /\ Described(saved[j]) => o = Back(saved[j])
    BY <1>3
  <2> QED  BY <1>1, <1>2, <1>4, <2>1, <2>2, RecoveredAdd
<1>6. r =< start[j + 1] + 5 /\ start[j] =< r
  <2> DEFINE a == start[j]
             b == start[j + 1]
  <2>1. a \in Nat /\ b \in Nat /\ a + 5 < r /\ r =< b
    BY <1>1, <1>4
  <2> HIDE DEF a, b
  <2>2. r =< b + 5 /\ a =< r
    BY <2>1
  <2> QED  BY <2>2 DEF a, b
<1>7. Behind(saved, start, n, j, r)
  BY <1>1, <1>4, <1>6, BehindAt
<1>8. Base(saved, f, start, n, cut, db', r, j)
  <2>1. j < n \/ ~cut
    BY <1>1
  <2> QED  BY <1>4, <1>5, <1>7, <2>1 DEF Base
<1>9. Stands(stage', saved, f, start, n, cut, db', got', r) /\ stage' \in Stages
  BY <1>2, <1>4, <1>8 DEF Stands, AtTime, Stages
<1> QED  BY <1>2, <1>9, GoesOn

(* The key runs from k to the colon at g. *)
KeyIs(f, y, k, e, key, g) ==
  LET t == From(f, y)
      i == Find(t, Eol) + 2
      c == Until(t, i, Colon)
  IN /\ g \in k..e /\ i = k - y + 1 /\ c = g - y + 1 /\ f[g] = Colon
     /\ \A z \in k..(g - 1) : f[z] # Colon
     /\ SubSeq(t, i, c - 1) = SubSeq(f, k, g - 1)
     /\ ~Has(key, Colon) => g = e /\ SubSeq(f, k, g - 1) = key
     /\ From(t, c) = From(f, g)

(* The key stands at k, behind the next line's end, and before the colon   *)
(* at e.                                                                   *)
LEMMA KeyFound ==
  ASSUME NEW f \in Text, NEW y \in Nat \ {0}, NEW k \in Nat, y =< k - 2,
         f[k - 2] = CR, f[k - 1] = LF, \A x \in y..(k - 3) : f[x] # CR,
         NEW key \in Seq(Letter), key \in Text, Sits(f, k, key),
         NEW e \in Nat, e = k + Len(key), e =< Len(f), f[e] = Colon
  PROVE  \E g \in Nat : KeyIs(f, y, k, e, key, g)
<1> DEFINE t == From(f, y)
           i == Find(t, Eol) + 2
           c == Until(t, i, Colon)
<1>1. Len(f) \in Nat /\ Len(key) \in Nat
  BY DEF Text
<1>2. Find(t, Eol) = k - 2 - y + 1
  <2> DEFINE a == k - 2
  <2>1. a \in Nat /\ y =< a /\ a + 1 =< Len(f) /\ a + 1 = k - 1 /\ a - 1 = k - 3
    BY <1>1
  <2>2. f[a] = CR /\ f[a + 1] = LF /\ \A x \in y..(a - 1) : f[x] # CR
    BY <2>1
  <2> HIDE DEF a
  <2>3. Find(t, Eol) = a - y + 1
    BY <2>1, <2>2, EolHere
  <2> QED  BY <2>3 DEF a
<1>3. i = k - y + 1 /\ i \in Nat \ {0} /\ y + i - 1 = k
  BY <1>2
<1> HIDE DEF i
<1>4. PICK g \in Nat : FirstIs(f, y, i, Colon, k, e, g)
  <2>1. k =< e /\ i \in Nat \ {0} /\ k = y + i - 1 /\ Colon \in Symbol
    BY <1>1, <1>3, SymbolIs
  <2>2. HasFirst(f, y, i, Colon, k, e)
    BY <2>1, FirstHere
  <2> QED  BY <2>2 DEF HasFirst
<1>5. g \in k..e /\ c = g - y + 1 /\ f[g] = Colon /\ \A z \in k..(g - 1) : f[z] # Colon
  BY <1>4 DEF FirstIs
<1> HIDE DEF c
<1>6. SubSeq(t, i, c - 1) = SubSeq(f, k, g - 1)
  <2>1. c - 1 \in Int /\ y + (c - 1) - 1 = g - 1
    BY <1>1, <1>5
  <2>2. c - 1 =< Len(t)
    <3>1. Len(t) = Len(f) - y + 1
      BY <1>1, RestIs
    <3> HIDE DEF t
    <3> QED  BY <1>1, <1>5, <3>1
  <2>3. SubSeq(t, i, c - 1) = SubSeq(f, y + i - 1, y + (c - 1) - 1)
    BY <1>3, <2>1, <2>2, SliceOfRest
  <2> HIDE DEF t
  <2> QED  BY <1>3, <2>1, <2>3
<1>7. From(t, c) = From(f, g)
  <2>1. c \in Nat \ {0} /\ y + c - 1 = g
    BY <1>5
  <2>2. From(From(f, y), c) = From(f, y + c - 1)
    BY <2>1, RestOfRest
  <2> QED  BY <2>1, <2>2
<1>8. ASSUME ~Has(key, Colon) PROVE g = e /\ SubSeq(f, k, g - 1) = key
  <2>1. g = e
    <3>1. SUFFICES ASSUME g # e PROVE FALSE
      OBVIOUS
    <3>2. g - k + 1 \in 1..Len(key) /\ k + (g - k + 1) - 1 = g
      BY <1>1, <1>5, <3>1
    <3>3. f[g] = key[g - k + 1]
      BY <3>2 DEF Sits
    <3>4. key[g - k + 1] \in ToSet(key)
      BY <3>2 DEF ToSet, Text
    <3> QED  BY <1>5, <1>8, <3>3, <3>4 DEF Has
  <2>2. SubSeq(f, k, k + Len(key) - 1) = key
    BY SliceIs
  <2>3. k + Len(key) - 1 = g - 1
    BY <1>1, <2>1
  <2> QED  BY <2>1, <2>2, <2>3
<1> HIDE DEF t
<1>9. KeyIs(f, y, k, e, key, g)
  BY <1>3, <1>5, <1>6, <1>7, <1>8 DEF KeyIs, t, i, c
<1>10. g \in Nat
  BY <1>5
<1> QED  BY <1>9, <1>10

(* The value runs from the colon at g to the line's end at x. *)
ValueIs(f, y, g, e, h, u, x) ==
  LET t == From(f, y)
      c == g - y + 1
      r == Until(t, c + 1, CR)
  IN /\ x \in (e + 1)..h /\ r = x - y + 1 /\ r # 0 /\ f[x] = CR
     /\ SubSeq(t, c + 1, r - 1) = SubSeq(f, g + 1, x - 1)
     /\ From(t, r) = From(f, x)
     /\ g = e /\ (\A z \in 1..Len(u) : u[z] # CR) => x = h /\ SubSeq(f, g + 1, x - 1) = u

LEMMA ValueFound ==
  ASSUME NEW f \in Text, NEW y \in Nat \ {0}, NEW k \in Nat,
         NEW key \in Seq(Letter), key \in Text, Sits(f, k, key),
         NEW e \in Nat, e = k + Len(key), f[e] = Colon,
         NEW g \in k..e, y =< g,
         NEW u \in Text, Sits(f, e + 1, u), NEW h \in Nat, h = e + 1 + Len(u),
         h =< Len(f), f[h] = CR
  PROVE  \E x \in Nat : ValueIs(f, y, g, e, h, u, x)
<1> DEFINE t == From(f, y)
           c == g - y + 1
           r == Until(t, c + 1, CR)
<1>1. Len(f) \in Nat /\ Len(key) \in Nat /\ Len(u) \in Nat /\ g \in Nat /\ g =< e
      /\ k \in Nat /\ e + 1 =< h
  BY DEF Text
<1>2. c \in Nat \ {0} /\ c + 1 \in Nat \ {0} /\ g + 1 = y + (c + 1) - 1
  BY <1>1
<1>3. PICK x \in Nat : FirstIs(f, y, c + 1, CR, g + 1, h, x)
  <2>1. g + 1 \in Nat /\ g + 1 =< h /\ CR \in Symbol
    BY <1>1, SymbolIs
  <2> HIDE DEF c
  <2>2. HasFirst(f, y, c + 1, CR, g + 1, h)
    BY <1>2, <2>1, FirstHere
  <2> QED  BY <2>2 DEF HasFirst
<1>4. x \in (g + 1)..h /\ f[x] = CR /\ r = x - y + 1 /\ \A z \in (g + 1)..(x - 1) : f[z] # CR
  BY <1>3 DEF FirstIs
<1> HIDE DEF c, r
<1>5. x \in (e + 1)..h
  <2>1. x # e
    BY <1>4, MarksDiffer
  <2>2. ~(x < e)
    <3>1. SUFFICES ASSUME x < e PROVE FALSE
      OBVIOUS
    <3>2. x \in k..(k + Len(key) - 1)
      BY <1>1, <1>4, <3>1
    <3>3. f[x] \in Letter
      BY <3>2, WordClean
    <3> QED  BY <1>4, <3>3, MarksDiffer
  <2> QED  BY <1>1, <1>4, <2>1, <2>2
<1>6. r \in Nat \ {0} /\ x \in Nat
  BY <1>1, <1>4
<1>7. SubSeq(t, c + 1, r - 1) = SubSeq(f, g + 1, x - 1)
  <2>1. r - 1 \in Int /\ y + (r - 1) - 1 = x - 1
    BY <1>1, <1>4
  <2>2. r - 1 =< Len(t)
    <3>1. y =< Len(f)
      BY <1>1
    <3>2. Len(t) = Len(f) - y + 1
      BY <3>1, RestIs
    <3> HIDE DEF t
    <3> QED  BY <1>1, <1>4, <3>2
  <2>3. SubSeq(t, c + 1, r - 1) = SubSeq(f, y + (c + 1) - 1, y + (r - 1) - 1)
    BY <1>2, <2>1, <2>2, SliceOfRest
  <2> HIDE DEF t
  <2> QED  BY <1>2, <2>1, <2>3
<1>8. From(t, r) = From(f, x)
  <2>1. From(From(f, y), r) = From(f, y + r - 1)
    BY <1>6, RestOfRest
  <2>2. y + r - 1 = x
    BY <1>4
  <2> QED  BY <2>1, <2>2
<1>9. ASSUME g = e, \A z \in 1..Len(u) : u[z] # CR PROVE x = h /\ SubSeq(f, g + 1, x - 1) = u
  <2>1. x = h
    <3>1. SUFFICES ASSUME x < h PROVE FALSE
      BY <1>5
    <3>2. x - e \in 1..Len(u) /\ e + 1 + (x - e) - 1 = x
      BY <1>1, <1>5, <3>1
    <3>3. f[x] = u[x - e]
      BY <3>2 DEF Sits
    <3> QED  BY <1>4, <1>9, <3>2, <3>3
  <2>2. SubSeq(f, e + 1, e + 1 + Len(u) - 1) = u
    BY SliceIs
  <2>3. e + 1 + Len(u) - 1 = x - 1
    BY <1>1, <2>1
  <2> QED  BY <1>9, <2>1, <2>2, <2>3
<1> HIDE DEF t
<1>10. ValueIs(f, y, g, e, h, u, x)
  <2>1. /\ x \in (e + 1)..h /\ r = x - y + 1 /\ r # 0 /\ f[x] = CR
        /\ SubSeq(t, c + 1, r - 1) = SubSeq(f, g + 1, x - 1)
        /\ From(t, r) = From(f, x)
        /\ g = e /\ (\A z \in 1..Len(u) : u[z] # CR) => x = h /\ SubSeq(f, g + 1, x - 1) = u
    BY <1>4, <1>5, <1>6, <1>7, <1>8, <1>9
  <2> QED  BY <2>1 DEF ValueIs, t, c, r
<1> QED  BY <1>10

(* An object as ReadPlainString reads it, of the key that stands from k    *)
(* to e and the value that stands behind it.                               *)
Taking(f, k, e, h, key, u, keeps, inflates, g, x, v) ==
  /\ AddObject([got EXCEPT !.key = SubSeq(f, k, g - 1), !.vals = <<v>>])
  /\ text' = From(f, IF keeps THEN g ELSE x)
  /\ g \in k..e /\ f[g] = Colon /\ x \in (e + 1)..h /\ f[x] = CR
  /\ \A z \in k..(g - 1) : f[z] # Colon
  /\ ~Has(key, Colon) => g = e /\ SubSeq(f, k, g - 1) = key
  /\ ~Has(key, Colon) /\ (\A z \in 1..Len(u) : u[z] # CR) /\ ~inflates => v = u

LEMMA StringTaken ==
  ASSUME NEW f \in Text, NEW y \in Nat \ {0}, NEW k \in Nat, y =< k - 2,
         f[k - 2] = CR, f[k - 1] = LF, \A x \in y..(k - 3) : f[x] # CR,
         NEW key \in Seq(Letter), key \in Text, Sits(f, k, key),
         NEW e \in Nat, e = k + Len(key), f[e] = Colon,
         NEW u \in Text, Sits(f, e + 1, u), NEW h \in Nat, h = e + 1 + Len(u),
         h =< Len(f), f[h] = CR,
         NEW keeps, NEW inflates, ReadPlainString(From(f, y), keeps, inflates)
  PROVE  \/ Has(u, Wild) /\ stage' = "astray" /\ saved' = saved /\ db' = db
         \/ \E g, x, v : Taking(f, k, e, h, key, u, keeps, inflates, g, x, v)
<1> DEFINE t == From(f, y)
           i == Find(t, Eol) + 2
           c == Until(t, i, Colon)
           r == Until(t, c + 1, CR)
<1>1. Len(u) \in Nat /\ Len(f) \in Nat /\ Len(key) \in Nat
  BY DEF Text
<1>2. e =< Len(f)
  BY <1>1
<1>0. PICK g \in Nat : KeyIs(f, y, k, e, key, g)
  BY <1>2, KeyFound
<1>3. /\ g \in k..e /\ c = g - y + 1 /\ f[g] = Colon
      /\ \A z \in k..(g - 1) : f[z] # Colon
      /\ SubSeq(t, i, c - 1) = SubSeq(f, k, g - 1)
      /\ ~Has(key, Colon) => g = e /\ SubSeq(f, k, g - 1) = key
      /\ From(t, c) = From(f, g)
  BY <1>0 DEF KeyIs
<1>4. y =< g
  BY <1>3
<1>5. PICK x \in Nat : ValueIs(f, y, g, e, h, u, x)
  BY <1>3, <1>4, ValueFound
<1>6. /\ x \in (e + 1)..h /\ r = x - y + 1 /\ r # 0 /\ f[x] = CR
      /\ SubSeq(t, c + 1, r - 1) = SubSeq(f, g + 1, x - 1)
      /\ From(t, r) = From(f, x)
      /\ g = e /\ (\A z \in 1..Len(u) : u[z] # CR) => x = h /\ SubSeq(f, g + 1, x - 1) = u
  <2>1. Until(t, c + 1, CR) = Until(From(f, y), g - y + 1 + 1, CR)
    BY <1>3
  <2>2. c + 1 = g - y + 1 + 1
    BY <1>3
  <2> HIDE DEF i
  <2> QED  BY <1>5, <2>1, <2>2 DEF ValueIs
<1> DEFINE s == SubSeq(t, c + 1, r - 1)
           V == IF inflates THEN Inflated(s) ELSE {s}
<1>7. CASE Has(s, Wild)
  <2>1. stage' = "astray" /\ saved' = saved /\ db' = db
    BY <1>7 DEF ReadPlainString
  <2>2. PICK z \in (g + 1)..(x - 1) : z =< Len(f) /\ f[z] = Wild
    <3> DEFINE p == c + 1
               m == r - 1
    <3>1. p \in Nat \ {0} /\ y + p - 1 = g + 1 /\ m \in Int /\ y + m - 1 = x - 1
      <4>1. c = g - y + 1 /\ r = x - y + 1 /\ y =< g /\ g \in Nat /\ x \in Nat
        BY <1>3, <1>4, <1>6
      <4> HIDE DEF c, r
      <4> QED  BY <4>1
    <3>2. m =< Len(t)
      <4>1. y =< Len(f)
        BY <1>1, <1>3, <1>6
      <4>2. Len(t) = Len(f) - y + 1
        BY <4>1, RestIs
      <4> HIDE DEF t
      <4> QED  BY <1>1, <1>6, <4>2
    <3>3. Has(SubSeq(From(f, y), p, m), Wild)
      BY <1>7
    <3> HIDE DEF p, m, t
    <3>4. m =< Len(From(f, y))
      BY <3>2 DEF t
    <3>5. \E z \in (y + p - 1)..(y + m - 1) : z =< Len(f) /\ f[z] = Wild
      BY <3>1, <3>3, <3>4, HasSlice
    <3> QED  BY <3>1, <3>5
  <2>3. CASE z < e
    <3>1. z \in k..(k + Len(key) - 1)
      BY <1>1, <1>3, <1>6, <2>3
    <3>2. f[z] \in Letter
      BY <3>1, WordClean
    <3> QED  BY <2>2, <3>2, MarksDiffer
  <2>4. CASE z = e
    BY <2>2, <2>4, MarksDiffer
  <2>5. CASE z > e
    <3>1. z - e \in 1..Len(u) /\ e + 1 + (z - e) - 1 = z
      <4> DEFINE l == Len(u)
      <4>1. l \in Nat /\ x =< e + 1 + l /\ x \in Nat /\ g \in Nat
        BY <1>1, <1>3, <1>6
      <4> HIDE DEF l
      <4>2. z - e \in 1..l /\ e + 1 + (z - e) - 1 = z
        BY <2>5, <4>1
      <4> QED  BY <4>2 DEF l
    <3>2. u[z - e] = Wild
      BY <2>2, <3>1 DEF Sits
    <3>3. DOMAIN u = 1..Len(u)
      BY DEF Text
    <3>4. Has(u, Wild)
      BY <3>1, <3>2, <3>3 DEF Has, ToSet
    <3> QED  BY <2>1, <3>4
  <2> QED  BY <1>3, <1>6, <2>3, <2>4, <2>5
<1>8. CASE ~Has(s, Wild)
  <2>1. /\ \E v \in V : AddObject([got EXCEPT !.key = SubSeq(t, i, c - 1), !.vals = <<v>>])
        /\ text' = From(t, IF keeps THEN c ELSE r)
    <3>1. r # 0
      BY <1>6
    <3> QED  BY <1>8, <3>1, Zenon DEF ReadPlainString
  <2>2. PICK v \in V : AddObject([got EXCEPT !.key = SubSeq(t, i, c - 1), !.vals = <<v>>])
    BY <2>1
  <2>3. ~inflates => v = s
    BY <2>2
  <2> HIDE DEF V
  <2>4. AddObject([got EXCEPT !.key = SubSeq(f, k, g - 1), !.vals = <<v>>])
    BY <1>3, <2>2
  <2>5. text' = From(f, IF keeps THEN g ELSE x)
    <3> HIDE DEF i, c, r, t
    <3> QED  BY <1>3, <1>6, <2>1
  <2>6. ~Has(key, Colon) /\ (\A z \in 1..Len(u) : u[z] # CR) /\ ~inflates => v = u
    <3> HIDE DEF t, c, i, r
    <3> QED  BY <1>3, <1>6, <2>3 DEF s
  <2> HIDE DEF t, c, i, r, s
  <2>7. Taking(f, k, e, h, key, u, keeps, inflates, g, x, v)
    BY <1>3, <1>6, <2>4, <2>5, <2>6 DEF Taking
  <2> QED  BY <2>7
<1> QED  BY <1>7, <1>8

(* A key and a colon in which there is no expiry. *)
LEMMA WideQuiet ==
  ASSUME NEW f \in Text, NEW k \in Nat \ {0}, NEW key \in Text, Sits(f, k, key),
         NEW e \in Nat, e = k + Len(key), e =< Len(f), f[e] = Colon,
         Find(key \o <<Colon>>, Expiry) = 0, NEW x \in k..(e - 1)
  PROVE  ~ExpiryAt(f, x)
<1> DEFINE t == key \o <<Colon>>
<1>1. Colon \in Symbol /\ <<Colon>> \in Text /\ Len(<<Colon>>) = 1 /\ Len(key) \in Nat
  BY SymbolIs, OneText DEF Text
<1>2. t \in Text
  BY <1>1, JoinedLen
<1>3. Sits(f, k, t)
  <2>1. Sits(f, k + Len(key), <<Colon>>)
    <3>1. e \in Nat \ {0}
      BY <1>1
    <3> QED  BY <1>1, <3>1, OneSits
  <2> QED  BY <1>1, <2>1, SitsConcat
<1>4. \A i \in Nat : ~Sits(t, i, Expiry)
  <2>1. Find(t, Expiry) = 0
    OBVIOUS
  <2> HIDE DEF t
  <2> QED  BY <1>2, <2>1, FindIn, MarksText
<1>5. Len(t) = Len(key) + 1
  BY <1>1, JoinedLen
<1> HIDE DEF t
<1>6. SUFFICES ASSUME ExpiryAt(f, x) PROVE FALSE
  OBVIOUS
<1>10. Len(key) \in Nat /\ k \in Nat \ {0} /\ x \in k..(k + Len(key) - 1)
  BY <1>1
<1> DEFINE i == x - k + 1
           l == Len(key)
<1> HIDE DEF l
<1>11. Len(t) = l + 1 /\ l \in Nat /\ k \in Nat \ {0} /\ x \in k..(k + l - 1)
  BY <1>5, <1>10 DEF l
<1>7. i \in 1..Len(t) /\ i + 1 \in 1..Len(t) /\ k + i - 1 = x /\ k + (i + 1) - 1 = x + 1
      /\ i \in Nat \ {0}
  BY <1>11
<1> HIDE DEF i
<1>8. t[i] = f[x] /\ t[i + 1] = f[x + 1]
  BY <1>3, <1>7 DEF Sits
<1>9. ExpiryAt(t, i)
  BY <1>6, <1>7, <1>8 DEF ExpiryAt
<1> QED  BY <1>2, <1>4, <1>7, <1>9, ExpirySits

Quiet(key, v) ==
  LET t == key \o <<Colon>> \o v
  IN Find(From(t, Until(t, 1, Colon)), Expiry) = 0

(* From its first colon on, no expiry stands in the text t. *)
NoneBehind(t) ==
  \A z \in 1..Len(t) : t[z] = Colon => \A i \in Nat : z =< i => ~ExpiryAt(t, i)

LEMMA QuietText ==
  ASSUME NEW key \in Text, NEW v \in Text, Quiet(key, v)
  PROVE  LET t == key \o <<Colon>> \o v IN
         t \in Text /\ Len(t) = Len(key) + 1 + Len(v) /\ NoneBehind(t)
<1> DEFINE t == key \o <<Colon>> \o v
           c == Until(t, 1, Colon)
<1>1. t \in Text /\ Len(t) = Len(key) + 1 + Len(v)
  <2>1. <<Colon>> \in Text /\ Len(<<Colon>>) = 1 /\ Len(key) \in Nat /\ Len(v) \in Nat
    BY SymbolIs, OneText DEF Text
  <2>2. <<Colon>> \o v \in Text /\ Len(<<Colon>> \o v) = 1 + Len(v)
    BY <2>1, JoinedLen
  <2>3. key \o (<<Colon>> \o v) \in Text /\ Len(key \o (<<Colon>> \o v)) = Len(key) + (1 + Len(v))
    BY <2>2, JoinedLen
  <2>4. key \o (<<Colon>> \o v) = (key \o <<Colon>>) \o v
    BY <2>1, ConcatAssociative DEF Text
  <2>5. Len(key) + (1 + Len(v)) = Len(key) + 1 + Len(v)
    BY <2>1
  <2> HIDE DEF t
  <2>6. t = key \o (<<Colon>> \o v)
    BY <2>4 DEF t
  <2> QED  BY <2>3, <2>5, <2>6, Zenon
<1>2. Find(From(t, c), Expiry) = 0
  BY DEF Quiet
<1> HIDE DEF t
<1>3. ASSUME NEW z \in 1..Len(t), t[z] = Colon, NEW i \in Nat, z =< i PROVE ~ExpiryAt(t, i)
  <2>1. c \in Nat \ {0} /\ c =< z
    <3>1. /\ c # 0 => /\ c \in 1..Len(t) /\ t[c] = Colon
                      /\ \A j \in 1..(c - 1) : t[j] # Colon
          /\ c = 0 => \A j \in 1..Len(t) : t[j] # Colon
      BY <1>1, UntilIn
    <3> HIDE DEF c
    <3>2. c # 0
      BY <1>3, <3>1
    <3>3. ~(z \in 1..(c - 1))
      BY <1>3, <3>1, <3>2
    <3> QED  BY <3>1, <3>2, <3>3
  <2> HIDE DEF c
  <2>2. ~Sits(t, i, Expiry)
    BY <1>1, <1>2, <1>3, <2>1, FindRest, MarksText
  <2>3. i \in Nat \ {0}
    BY <1>3
  <2> QED  BY <1>1, <2>2, <2>3, ExpirySits
<1> QED  BY <1>1, <1>3 DEF NoneBehind, t

(* As much of t as stands in f. *)
Shows(f, k, t, l) == \A i \in 1..l : t[i] = f[k + i - 1]

LEMMA QuietHere ==
  ASSUME NEW f, NEW t \in Text, NoneBehind(t), NEW k \in Nat \ {0}, NEW l \in Nat, l =< Len(t),
         Shows(f, k, t, l), NEW g \in Nat, k =< g, f[g] = Colon, NEW x \in Nat, g =< x,
         x + 1 < k + l
  PROVE  ~ExpiryAt(f, x)
<1> SUFFICES ASSUME ExpiryAt(f, x) PROVE FALSE
  OBVIOUS
<1> DEFINE i == x - k + 1
           z == g - k + 1
<1>1. /\ i \in 1..l /\ i + 1 \in 1..l /\ z \in 1..l /\ z =< i /\ i \in Nat /\ Len(t) \in Nat
      /\ k + i - 1 = x /\ k + (i + 1) - 1 = x + 1 /\ k + z - 1 = g
  BY DEF Text
<1>2. z \in 1..Len(t) /\ i + 1 =< Len(t)
  BY <1>1
<1> HIDE DEF i, z
<1>3. t[i] = f[x] /\ t[i + 1] = f[x + 1] /\ t[z] = f[g]
  BY <1>1 DEF Shows
<1>4. ExpiryAt(t, i)
  BY <1>2, <1>3 DEF ExpiryAt
<1> QED  BY <1>1, <1>2, <1>3, <1>4 DEF NoneBehind

LEMMA JoinedAt ==
  ASSUME NEW s \in Text, NEW u \in Text, NEW i \in 1..Len(u)
  PROVE  (s \o u)[Len(s) + i] = u[i]
<1> DEFINE y == Len(s) + i
<1>1. y \in 1..(Len(s) + Len(u)) /\ ~(y =< Len(s)) /\ y - Len(s) = i
  BY DEF Text
<1> HIDE DEF y
<1>2. (s \o u)[y] = u[y - Len(s)]
  BY <1>1, ConcatProperties DEF Text
<1> QED  BY <1>1, <1>2 DEF y

(* The key, its colon and the value as they stand. *)
LEMMA ShowsKey ==
  ASSUME NEW f \in Text, NEW k \in Nat \ {0}, NEW key \in Text, Sits(f, k, key),
         NEW e \in Nat, e = k + Len(key), f[e] = Colon, NEW v \in Text
  PROVE  /\ Shows(f, k, key \o <<Colon>> \o v, Len(key) + 1)
         /\ Sits(f, e + 1, v) =>
              Shows(f, k, key \o <<Colon>> \o v, Len(key) + 1 + Len(v))
<1> DEFINE t == key \o <<Colon>> \o v
           r == <<Colon>> \o v
           l == Len(key)
           m == Len(v)
<1>1. <<Colon>> \in Text /\ Len(<<Colon>>) = 1 /\ l \in Nat /\ m \in Nat
  BY SymbolIs, OneText DEF Text
<1>2. /\ r \in Text /\ Len(r) = 1 + m /\ r[1] = Colon
      /\ \A i \in 1..m : r[1 + i] = v[i]
  <2>1. r \in Text /\ Len(r) = 1 + m
    BY <1>1, JoinedLen
  <2>2. r[1] = <<Colon>>[1]
    BY <1>1, ConcatProperties DEF Text
  <2>3. ASSUME NEW i \in 1..m PROVE r[1 + i] = v[i]
    <3>1. 1 + i > 1 /\ 1 + i \in 1..(1 + m) /\ 1 + i - 1 = i
      BY <1>1
    <3>2. r[1 + i] = v[1 + i - 1]
      BY <1>1, <3>1, ConcatProperties DEF Text
    <3> QED  BY <3>1, <3>2
  <2> QED  BY <2>1, <2>2, <2>3
<1> HIDE DEF r
<1>3. t = key \o r
  BY DEF r
<1>4. /\ \A i \in 1..l : t[i] = key[i]
      /\ \A i \in 1..(1 + m) : t[l + i] = r[i]
  <2> HIDE DEF t
  <2>1. ASSUME NEW i \in 1..l PROVE t[i] = key[i]
    <3>1. i \in 1..(Len(key) + Len(r)) /\ i =< Len(key)
      BY <1>1, <1>2 DEF l
    <3> QED  BY <1>2, <1>3, <3>1, ConcatProperties DEF Text
  <2>2. ASSUME NEW i \in 1..(1 + m) PROVE t[l + i] = r[i]
    <3>1. i \in 1..Len(r)
      BY <1>2
    <3> QED  BY <1>2, <1>3, <3>1, JoinedAt, Zenon DEF l
  <2> QED  BY <2>1, <2>2
<1>5. l \in Nat /\ m \in Nat /\ e = k + l
  BY <1>1
<1>6. \A i \in 1..l : f[k + i - 1] = key[i]
  BY DEF Sits
<1>7. Sits(f, e + 1, v) => \A i \in 1..m : f[e + 1 + i - 1] = v[i]
  BY DEF Sits
<1> HIDE DEF t, l, m
<1>8. ASSUME NEW i \in 1..(l + 1) PROVE t[i] = f[k + i - 1]
  <2>1. CASE i = l + 1
    <3>1. k + i - 1 = e /\ 1 \in 1..(1 + m)
      BY <1>5, <2>1
    <3> QED  BY <1>2, <1>4, <2>1, <3>1
  <2>2. CASE i # l + 1
    <3>1. i \in 1..l
      BY <1>5, <2>2
    <3> QED  BY <1>4, <1>6, <3>1
  <2> QED  BY <2>1, <2>2
<1>9. ASSUME Sits(f, e + 1, v), NEW i \in 1..(l + 1 + m) PROVE t[i] = f[k + i - 1]
  <2>1. CASE i =< l + 1
    <3>1. i \in 1..(l + 1)
      BY <2>1
    <3> QED  BY <1>8, <3>1
  <2>2. CASE ~(i =< l + 1)
    <3> DEFINE y == i - l - 1
    <3>1. y \in 1..m /\ 1 + y \in 1..(1 + m) /\ l + (1 + y) = i /\ e + 1 + y - 1 = k + i - 1
      BY <1>5, <2>2
    <3> HIDE DEF y
    <3>2. t[i] = v[y]
      BY <1>2, <1>4, <3>1
    <3> QED  BY <1>7, <1>9, <3>1, <3>2
  <2> QED  BY <2>1, <2>2
<1> QED  BY <1>8, <1>9 DEF Shows, t, l, m

(* A key, a colon and a value in which there is no expiry from the first   *)
(* colon on; or junk for the value.                                        *)
LEMMA PlainQuiet ==
  ASSUME NEW f \in Text, NEW k \in Nat \ {0}, NEW key \in Text, Sits(f, k, key),
         NEW e \in Nat, e = k + Len(key), f[e] = Colon,
         NEW v \in Text, NEW h \in Nat, ClosingAt(f, h),
         h = e + 2 \/ (h = e + 1 + Len(v) /\ Sits(f, e + 1, v)),
         NEW g \in k..e, f[g] = Colon, Quiet(key, v), NEW x \in g..(h + 2)
  PROVE  ~ExpiryAt(f, x)
<1>1. SUFFICES ASSUME ExpiryAt(f, x) PROVE FALSE
  OBVIOUS
<1>2. f[x] = E /\ f[x + 1] = Colon
  BY <1>1 DEF ExpiryAt
<1>3. f[h] = CR /\ f[h + 1] = Dollar /\ f[h + 2] = LF
  BY DEF ClosingAt
<1>4. x # h /\ x # h + 1 /\ x # h + 2 /\ x + 1 # h /\ x # e
  BY <1>2, <1>3, MarksDiffer
<1> DEFINE l == Len(key)
           m == Len(v)
           t == key \o <<Colon>> \o v
<1>5. t \in Text /\ Len(t) = l + 1 + m /\ NoneBehind(t) /\ l \in Nat /\ m \in Nat
  BY QuietText DEF Text
<1>6. Shows(f, k, t, l + 1) /\ (Sits(f, e + 1, v) => Shows(f, k, t, l + 1 + m))
  BY ShowsKey
<1>7. e = k + l /\ (h = e + 2 \/ (h = e + 1 + m /\ Sits(f, e + 1, v)))
  OBVIOUS
<1>8. k =< g /\ g =< x /\ x =< h + 2 /\ g \in Nat /\ x \in Nat
  OBVIOUS
<1> HIDE DEF t, l, m
<1>9. CASE h = e + 2
  <2>1. x + 1 < k + (l + 1)
    BY <1>4, <1>5, <1>7, <1>8, <1>9
  <2>2. l + 1 \in Nat /\ l + 1 =< Len(t)
    BY <1>5
  <2> QED  BY <1>1, <1>5, <1>6, <1>8, <2>1, <2>2, QuietHere
<1>10. CASE h = e + 1 + m /\ Sits(f, e + 1, v)
  <2>1. x + 1 < k + (l + 1 + m)
    BY <1>4, <1>5, <1>7, <1>8, <1>10
  <2>2. l + 1 + m \in Nat /\ l + 1 + m =< Len(t)
    BY <1>5
  <2> QED  BY <1>1, <1>5, <1>6, <1>8, <1>10, <2>1, <2>2, QuietHere
<1> QED  BY <1>7, <1>9, <1>10

(* Strings as they come back. *)
Made(g, key, w) == [g EXCEPT !.key = key, !.vals = w]
Valued(o, w) == [o EXCEPT !.vals = w]

LEMMA SameRecord ==
  ASSUME NEW g \in [type : Int, key : Text, end : Int, vals : Seq(Text)],
         NEW o \in Objects, g.type = o.type, g.end = o.end, NEW w
  PROVE  Made(g, o.key, w) = Valued(o, w)
<1>1. o \in [type : Int, key : Seq(Letter), end : Int, vals : Seq(Seq(Letter))]
  BY ObjectsAssumption
<1>2. o = [type |-> o.type, key |-> o.key, end |-> o.end, vals |-> o.vals]
  BY <1>1
<1>3. g = [type |-> g.type, key |-> g.key, end |-> g.end, vals |-> g.vals]
  OBVIOUS
<1>4. [o EXCEPT !.vals = w] = [type |-> o.type, key |-> o.key, end |-> o.end, vals |-> w]
  BY <1>1
<1>5. [g EXCEPT !.key = o.key, !.vals = w]
        = [type |-> g.type, key |-> o.key, end |-> g.end, vals |-> w]
  <2> DEFINE K == o.key
             G == [g EXCEPT !.key = K]
  <2> HIDE DEF K
  <2>1. G = [type |-> g.type, key |-> K, end |-> g.end, vals |-> g.vals]
    OBVIOUS
  <2> HIDE DEF G
  <2>2. [G EXCEPT !.vals = w] = [type |-> g.type, key |-> K, end |-> g.end, vals |-> w]
    BY <2>1
  <2> QED  BY <2>2 DEF G, K
<1> QED  BY <1>4, <1>5 DEF Made, Valued

LEMMA StringBack ==
  ASSUME NEW o \in Objects, o.type = StringType
  PROVE  LET n == AtoI(o.vals[1]) IN
         /\ IsSmall(o) => Back(o) = [o EXCEPT !.vals = <<<<AsInt8(n)>>>>]
         /\ IsMiddle(o) => Back(o) = [o EXCEPT !.vals = <<<<Dec(n)>>>>]
         /\ IsPlain(o) => Back(o) = [o EXCEPT !.vals = <<o.vals[1]>>]
<1>1. /\ IsSmall(o) => ~IsMiddle(o) /\ ~IsPlain(o)
      /\ IsMiddle(o) => ~IsPlain(o)
  BY KindsApart
<1>2. IsSmall(o) => Back(o) = [o EXCEPT !.vals = <<<<AsInt8(AtoI(o.vals[1]))>>>>]
  BY <1>1 DEF Back, AsInt8
<1>3. IsMiddle(o) => Back(o) = [o EXCEPT !.vals = <<<<Dec(AtoI(o.vals[1]))>>>>]
  BY <1>1 DEF Back
<1>4. Len(o.vals) = 1 /\ o.vals \in Seq(Text)
  BY ObjectsAssumption, ObjectType DEF IsObject
<1>5. o.vals = <<o.vals[1]>>
  BY <1>4
<1>6. [o EXCEPT !.vals = o.vals] = o
  <2>1. o \in [type : Int, key : Seq(Letter), end : Int, vals : Seq(Seq(Letter))]
    BY ObjectsAssumption
  <2> QED  BY <2>1
<1>7. IsPlain(o) => Back(o) = o
  BY <1>1 DEF Back
<1> QED  BY <1>2, <1>3, <1>5, <1>6, <1>7

(* The parser is at the j-th object, a string. *)
StringHere(f, start, n, j) ==
  /\ got.type = StringType /\ saved[j].type = StringType
  /\ got.key = <<>> /\ got.vals = <<>>
  /\ Clear(saved, j) => got.end = Never
  /\ Recovered(saved, db, j - 1)
  /\ text = From(f, start[j] + 6)

(* What is described of a string, if it is u that stands for its value. *)
ReadsAs(o, u, inflates) ==
  Described(o) => /\ ~inflates /\ \A z \in 1..Len(u) : u[z] # CR
                  /\ Back(o) = [o EXCEPT !.vals = <<u>>]

LEMMA TakenIn ==
  ASSUME TypeInv, Distinct, NEW f, NEW start, NEW n, NEW cut, Laid(saved, f, start, n, cut),
         NEW j \in 1..n, ~(cut /\ j = n), StringHere(f, start, n, j),
         NEW k \in Nat, start[j] + 13 =< k, NEW e \in Nat, e = k + Len(saved[j].key),
         NEW h \in Nat, e < h, start[j + 1] = h + 3, NEW u,
         NEW keeps, NEW inflates, NEW g, NEW x, NEW v,
         Taking(f, k, e, h, saved[j].key, u, keeps, inflates, g, x, v),
         ReadsAs(saved[j], u, inflates),
         Confined(saved[j]) => \A z \in (IF keeps THEN g ELSE x)..(h + 2) : ~ExpiryAt(f, z)
  PROVE  ReadInv' /\ ComesBack' /\ EndsUnless'
<1> DEFINE o == [got EXCEPT !.key = SubSeq(f, k, g - 1), !.vals = <<v>>]
           r == IF keeps THEN g ELSE x
<1>1. /\ AddObject(o) /\ text' = From(f, r)
      /\ g \in k..e /\ x \in (e + 1)..h
      /\ ~Has(saved[j].key, Colon) => g = e /\ SubSeq(f, k, g - 1) = saved[j].key
      /\ ~Has(saved[j].key, Colon) /\ (\A z \in 1..Len(u) : u[z] # CR) /\ ~inflates => v = u
  BY DEF Taking
<1>2. /\ saved \in Seq(Objects) /\ saved[j] \in Objects /\ f \in Text
      /\ start[j] \in Nat /\ 8 =< start[j] /\ j \in Nat
  <2>1. saved \in Seq(Objects)
    BY DEF TypeInv
  <2>2. j \in 1..(n + 1)
    BY <2>1, Placed
  <2> QED  BY <2>1, <2>2, Placed
<1>3. got \in [type : Int, key : Text, end : Int, vals : Seq(Text)]
  BY DEF TypeInv
<1>4. o.type = StringType /\ o.key = SubSeq(f, k, g - 1)
  BY <1>3 DEF StringHere
<1>5. Typed(saved[j])
  BY DEF StringHere, Typed
<1>6. Source(saved, o, j)
  <2>1. j \in 1..j
    BY <1>2
  <2>2. o.type = saved[j].type
    BY <1>4 DEF StringHere
  <2>3. o.key = saved[j].key \/ Has(saved[j].key, Colon)
    BY <1>1, <1>4
  <2> HIDE DEF o
  <2> QED  BY <1>4, <1>5, <2>1, <2>2, <2>3 DEF Source
<1>7. ASSUME Confined(saved[j]), Clear(saved, j), Described(saved[j])
      PROVE  o = Back(saved[j])
  <2>1. got.end = Never /\ saved[j].end = Never
    BY <1>7 DEF StringHere, Confined
  <2>2. ~Has(saved[j].key, Colon)
    BY <1>7, DescribedIsTyped DEF StringHere
  <2>3. v = u /\ SubSeq(f, k, g - 1) = saved[j].key
    BY <1>1, <1>7, <2>2 DEF ReadsAs
  <2>4. Back(saved[j]) = [saved[j] EXCEPT !.vals = <<u>>]
    BY <1>7 DEF ReadsAs
  <2>5. o = [got EXCEPT !.key = saved[j].key, !.vals = <<u>>]
    BY <2>3
  <2>6. got.type = saved[j].type
    BY DEF StringHere
  <2>7. got.end = saved[j].end
    BY <2>1
  <2> HIDE DEF o
  <2>8. [got EXCEPT !.key = saved[j].key, !.vals = <<u>>] = [saved[j] EXCEPT !.vals = <<u>>]
    <3> DEFINE W == <<u>>
               p == saved[j]
    <3>1. p \in Objects /\ got.type = p.type /\ got.end = p.end
      BY <1>2, <2>6, <2>7
    <3> HIDE DEF W, p
    <3>2. Made(got, p.key, W) = Valued(p, W)
      BY <1>3, <3>1, SameRecord
    <3> QED  BY <3>2 DEF W, p, Made, Valued
  <2> QED  BY <2>4, <2>5, <2>8, Zenon
<1>8. r \in Nat \ {0} /\ start[j] + 5 < r /\ r =< h
  <2> DEFINE a == start[j]
             l == Len(saved[j].key)
  <2>1. a \in Nat /\ a + 13 =< k
    BY <1>2
  <2> HIDE DEF a, l, o
  <2>2. k =< g /\ g =< e /\ g \in Nat /\ e < x /\ x =< h /\ x \in Nat
    BY <1>1
  <2>3. a + 5 < g /\ a + 5 < x /\ g =< h
    BY <2>1, <2>2
  <2> QED  BY <2>1, <2>2, <2>3 DEF a
<1>9. r =< start[j + 1] /\ (Confined(saved[j]) => \A z \in r..(start[j + 1] - 1) : ~ExpiryAt(f, z))
  <2>1. start[j + 1] - 1 = h + 2
    OBVIOUS
  <2> HIDE DEF o
  <2>2. Confined(saved[j]) => \A z \in r..(start[j + 1] - 1) : ~ExpiryAt(f, z)
    BY <2>1, Zenon
  <2> HIDE DEF r
  <2>3. r =< start[j + 1]
    BY <1>8
  <2> QED  BY <2>2, <2>3
<1>10. Recovered(saved, db, j - 1)
  BY DEF StringHere
<1> HIDE DEF o, r
<1> QED  BY <1>1, <1>5, <1>6, <1>7, <1>8, <1>9, <1>10, ObjectAdded

(* The encoding of a string as the parser reads it. *)
LEMMA EncodingHere ==
  ASSUME NEW f \in Text, NEW a \in Nat \ {0}, text = From(f, a + 6),
         LineAt(f, a + 5, CtpTag, StringType), NEW enc \in Int, LineAt(f, a + 9, EcTag, enc)
  PROVE  Encoding = enc /\ PastTag(text, EcTag) = From(f, a + 10)
<1>1. a + 6 \in Nat \ {0} /\ a + 9 \in Nat /\ a + 6 =< a + 9 /\ EcTag \in Symbol
  BY SymbolIs
<1>2. f[a + 6] = Dec(StringType) /\ f[a + 7] = CR /\ f[a + 8] = LF
  <2>1. a + 5 + 1 = a + 6 /\ a + 5 + 2 = a + 7 /\ a + 5 + 3 = a + 8
    OBVIOUS
  <2> QED  BY <2>1 DEF LineAt
<1>3. \A x \in (a + 6)..(a + 9 - 1) : f[x] # EcTag
  <2>1. ASSUME NEW x \in (a + 6)..(a + 9 - 1) PROVE f[x] # EcTag
    <3>1. x = a + 6 \/ x = a + 7 \/ x = a + 8
      OBVIOUS
    <3>2. StringType \in Int /\ EcTag \in Tags
      BY DEF StringType, Tags
    <3> QED  BY <1>2, <3>1, <3>2, MarksDiffer
  <2> QED  BY <2>1
<1>4. /\ AtoI(Line(From(f, a + 6), Find(From(f, a + 6), <<EcTag>>) + 1)) = enc
      /\ PastTag(From(f, a + 6), EcTag) = From(f, a + 9 + 1)
  BY <1>1, <1>3, LineHere
<1>5. a + 9 + 1 = a + 10
  OBVIOUS
<1> QED  BY <1>4, <1>5 DEF Encoding

(* The places of a string's key and value. *)
StringEnds(f, b, key, k, u, e, h) ==
  /\ e = k + Len(key) /\ h = e + 1 + Len(u) /\ b = h + 3
  /\ key \in Text /\ key \in Seq(Letter) /\ Sits(f, k, key) /\ f[e] = Colon /\ Sits(f, e + 1, u)
  /\ h =< Len(f) /\ f[h] = CR /\ ClosingAt(f, h) /\ e < h /\ e \in Nat /\ h \in Nat

LEMMA StringPlaces ==
  ASSUME NEW f \in Text, NEW a, NEW b \in Nat, NEW o \in Objects, o.type = StringType,
         NEW enc \in Int, NEW k \in Nat, NEW u \in Text, StringAt(f, a, b, o, enc, k, u)
  PROVE  \E e, h \in Nat : StringEnds(f, b, o.key, k, u, e, h)
<1> DEFINE l == Len(o.key)
           m == Len(u)
           e == k + l
           h == e + 1 + m
<1>1. /\ Sits(f, k, o.key) /\ k + Len(o.key) =< Len(f) /\ f[k + Len(o.key)] = Colon
      /\ Sits(f, k + Len(o.key) + 1, u)
      /\ b = k + Len(o.key) + Len(u) + 4 /\ ClosingAt(f, b - 3)
  BY DEF StringAt
<1>2. l \in Nat /\ m \in Nat /\ o.key \in Text /\ o.key \in Seq(Letter) /\ Len(f) \in Nat
  BY ObjectType DEF Text
<1>3. Sits(f, k, o.key) /\ f[e] = Colon /\ Sits(f, e + 1, u)
  BY <1>1
<1>4. b = k + l + m + 4 /\ ClosingAt(f, b - 3)
  BY <1>1
<1> HIDE DEF l, m
<1>5. b = h + 3 /\ b - 3 = h /\ e < h /\ e \in Nat /\ h \in Nat
  BY <1>2, <1>4
<1>6. ClosingAt(f, h)
  BY <1>4, <1>5
<1>7. h =< Len(f) /\ f[h] = CR
  <2> HIDE DEF h, e
  <2> QED  BY <1>2, <1>5, <1>6 DEF ClosingAt
<1>8. StringEnds(f, b, o.key, k, u, e, h)
  BY <1>2, <1>3, <1>5, <1>6, <1>7 DEF StringEnds, l, m
<1> HIDE DEF e, h
<1> QED  BY <1>5, <1>8

(* Where the j-th object begins and what its type's line says. *)
LEMMA StringBegins ==
  ASSUME TypeInv, NEW f, NEW start, NEW n, NEW cut, Laid(saved, f, start, n, cut),
         NEW j \in 1..n, StringHere(f, start, n, j)
  PROVE  /\ saved \in Seq(Objects) /\ f \in Text /\ saved[j] \in Objects
         /\ saved[j].type = StringType
         /\ start[j] \in Nat \ {0} /\ start[j + 1] \in Nat /\ 8 =< start[j] /\ j \in Nat
         /\ LineAt(f, start[j] + 5, CtpTag, StringType)
         /\ text = From(f, start[j] + 6)
         /\ Len(saved[j].vals) = 1
         /\ saved[j].vals[1] \in Text /\ saved[j].vals[1] \in Seq(Letter)
<1>1. saved \in Seq(Objects)
  BY DEF TypeInv
<1>2. j \in 1..(n + 1) /\ j + 1 \in 1..(n + 1) /\ j \in Nat
  BY <1>1, Placed
<1>3. start[j] \in Nat /\ 8 =< start[j] /\ start[j + 1] \in Nat
  BY <1>1, <1>2, Placed
<1>4. f \in Text /\ saved[j] \in Objects /\ Marks(saved, f, start, n, cut)
  BY <1>1, Placed
<1>5. saved[j].type = StringType /\ text = From(f, start[j] + 6)
  BY DEF StringHere
<1>6. LineAt(f, start[j] + 5, CtpTag, saved[j].type)
  BY <1>4, <1>5 DEF Marks, Typed
<1>7. Len(saved[j].vals) = 1
  BY <1>4, <1>5, ObjectsAssumption DEF IsObject
<1>8. saved[j].vals[1] \in Text /\ saved[j].vals[1] \in Seq(Letter)
  BY <1>4, <1>7, ObjectType
<1>9. start[j] \in Nat \ {0}
  BY <1>3
<1> QED  BY <1>1, <1>2, <1>3, <1>4, <1>5, <1>6, <1>7, <1>8, <1>9

(* A number that is read as an integer. *)
LEMMA IntTaken ==
  ASSUME TypeInv, Distinct, NEW f, NEW start, NEW n, NEW cut, Laid(saved, f, start, n, cut),
         NEW j \in 1..n, ~(cut /\ j = n), StringHere(f, start, n, j), ReadInt,
         NEW u \in Text, StringAt(f, start[j], start[j + 1], saved[j], EncodingInt, start[j] + 13, u)
  PROVE  ReadInv' /\ ComesBack' /\ EndsUnless'
<1> DEFINE a == start[j]
           k == a + 13
           y == a + 10
           o == saved[j]
<1>1. saved \in Seq(Objects)
  BY DEF TypeInv
<1>2. /\ f \in Text /\ o \in Objects /\ o.type = StringType
      /\ a \in Nat \ {0} /\ start[j + 1] \in Nat /\ EncodingInt \in Int
      /\ k \in Nat /\ k # 0
  <2>1. j \in 1..(n + 1) /\ j + 1 \in 1..(n + 1)
    BY <1>1, Placed
  <2>2. start[j] \in Nat /\ 8 =< start[j]
    BY <1>1, <2>1, Placed
  <2>3. f \in Text /\ saved[j] \in Objects
    BY <1>1, Placed
  <2>4. start[j + 1] \in Nat
    BY <1>1, <2>1, Placed
  <2> QED  BY <2>2, <2>3, <2>4 DEF StringHere, EncodingInt
<1>3. LineAt(f, a + 5, CtpTag, StringType) /\ LineAt(f, a + 9, EcTag, EncodingInt)
  <2>1. Marks(saved, f, start, n, cut)
    BY <1>1, Placed
  <2>2. LineAt(f, a + 5, CtpTag, o.type)
    BY <1>2, <2>1 DEF Marks, Typed
  <2> QED  BY <1>2, <2>2 DEF StringAt
<1>4. StringAt(f, a, start[j + 1], o, EncodingInt, k, u) /\ StringAs(f, a, o, EncodingInt, k, u)
  BY DEF StringAt
<1> HIDE DEF o
<1>5. PICK e, h \in Nat : StringEnds(f, start[j + 1], o.key, k, u, e, h)
  BY <1>2, <1>4, StringPlaces
<1>6. /\ e = k + Len(o.key) /\ h = e + 1 + Len(u) /\ start[j + 1] = h + 3
      /\ o.key \in Text /\ o.key \in Seq(Letter) /\ Sits(f, k, o.key) /\ f[e] = Colon
      /\ Sits(f, e + 1, u)
      /\ h =< Len(f) /\ f[h] = CR /\ ClosingAt(f, h) /\ e < h
  BY <1>5 DEF StringEnds
<1>7. /\ y \in Nat \ {0} /\ y =< k - 2
      /\ f[k - 2] = CR /\ f[k - 1] = LF /\ \A x \in y..(k - 3) : f[x] # CR
  <2> HIDE DEF a
  <2>1. a + 9 + 1 = a + 10 /\ a + 9 + 2 = k - 2 /\ a + 9 + 3 = k - 1 /\ k - 3 = a + 10
    BY <1>2
  <2>2. f[a + 10] = Dec(EncodingInt) /\ f[k - 2] = CR /\ f[k - 1] = LF
    BY <1>3, <2>1 DEF LineAt
  <2>3. \A x \in y..(k - 3) : x = a + 10
    BY <1>2, <2>1
  <2>4. Dec(EncodingInt) # CR
    BY <1>2, MarksDiffer
  <2> QED  BY <1>2, <2>1, <2>2, <2>3, <2>4
<1>8. ReadPlainString(From(f, y), FALSE, FALSE)
  <2>1. PastTag(text, EcTag) = From(f, y)
    <3>1. text = From(f, a + 6)
      BY DEF StringHere
    <3> HIDE DEF a
    <3> QED  BY <1>2, <1>3, <3>1, EncodingHere
  <2> QED  BY <2>1 DEF ReadInt
<1>17. ~Has(u, Wild)
  <2> DEFINE m == AtoI(o.vals[1])
  <2>1. \/ IsSmall(o) /\ u = <<AsInt8(m)>>
        \/ IsMiddle(o) /\ u = <<Dec(m)>>
    BY <1>4 DEF StringAs, EncodingInt, EncodingInt8, EncodingRaw
  <2>2. m \in Int
    BY StringBegins, AtoIType DEF o
  <2> HIDE DEF m
  <2>3. AsInt8(m) # Wild /\ Dec(m) # Wild
    BY <2>2, MarksDiffer
  <2>4. \A s : ToSet(<<s>>) = {s}
    BY DEF ToSet
  <2> QED  BY <2>1, <2>3, <2>4 DEF Has
<1>9. PICK g, x, v : Taking(f, k, e, h, o.key, u, FALSE, FALSE, g, x, v)
  <2> HIDE DEF k, y
  <2>1. k \in Nat
    BY <1>2
  <2> QED  BY <1>2, <1>6, <1>7, <1>8, <1>17, <2>1, StringTaken
<1>10. /\ x \in (e + 1)..h /\ f[x] = CR
  BY <1>9 DEF Taking
<1>11. /\ IsSmall(o) \/ IsMiddle(o)
       /\ IsSmall(o) => u = <<AsInt8(AtoI(o.vals[1]))>>
       /\ IsMiddle(o) => u = <<Dec(AtoI(o.vals[1]))>>
       /\ Len(u) = 1
  <2>1. \/ IsSmall(o) /\ u = <<AsInt8(AtoI(o.vals[1]))>>
        \/ IsMiddle(o) /\ u = <<Dec(AtoI(o.vals[1]))>>
    BY <1>4 DEF StringAs, EncodingInt, EncodingInt8, EncodingRaw
  <2>2. IsSmall(o) => ~IsMiddle(o)
    BY <1>2, KindsApart
  <2> QED  BY <2>1, <2>2
<1>12. ReadsAs(o, u, FALSE)
  <2> DEFINE m == AtoI(o.vals[1])
  <2>0. o.vals[1] \in Text
    <3>1. Len(o.vals) = 1
      BY <1>2, ObjectsAssumption DEF IsObject
    <3> QED  BY <1>2, <3>1, ObjectType
  <2>1. m \in Int
    BY <2>0, AtoIType
  <2>2. SUFFICES ASSUME Described(o)
                 PROVE  /\ \A z \in 1..Len(u) : u[z] # CR
                        /\ Back(o) = [o EXCEPT !.vals = <<u>>]
    BY DEF ReadsAs
  <2>3. IsSmall(o) => m % 256 # 13
    BY <1>2, <2>2 DEF Described, StringType, HashType, ListType
  <2> HIDE DEF m
  <2>4. IsSmall(o) => u = <<AsInt8(m)>> /\ AsInt8(m) # CR
    BY <1>11, <2>1, <2>3, MarksDiffer DEF m
  <2>5. IsMiddle(o) => u = <<Dec(m)>> /\ Dec(m) # CR
    BY <1>11, <2>1, MarksDiffer DEF m
  <2>6. u[1] # CR
    BY <1>11, <2>4, <2>5
  <2>7. Back(o) = [o EXCEPT !.vals = <<u>>]
    <3>1. /\ IsSmall(o) => Back(o) = [o EXCEPT !.vals = <<<<AsInt8(m)>>>>]
          /\ IsMiddle(o) => Back(o) = [o EXCEPT !.vals = <<<<Dec(m)>>>>]
      BY <1>2, StringBack DEF m
    <3>2. CASE IsSmall(o)
      BY <2>4, <3>1, <3>2
    <3>3. CASE IsMiddle(o)
      BY <2>5, <3>1, <3>3
    <3> QED  BY <1>11, <3>2, <3>3
  <2> QED  BY <1>11, <2>6, <2>7
<1>13. ASSUME NEW z \in x..(h + 2) PROVE ~ExpiryAt(f, z)
  <2>1. h = e + 2
    <3> HIDE DEF k
    <3> QED  BY <1>6, <1>11
  <2>2. f[h] = CR /\ f[h + 1] = Dollar /\ f[h + 2] = LF
    BY <1>6 DEF ClosingAt
  <2>3. z = x \/ z = h \/ z = h + 1 \/ z = h + 2
    <3> HIDE DEF k
    <3> QED  BY <1>10, <1>13, <2>1
  <2>4. f[z] # E
    BY <1>10, <2>2, <2>3, MarksDiffer
  <2> QED  BY <2>4 DEF ExpiryAt
<1>14. Taking(f, k, e, h, saved[j].key, u, FALSE, FALSE, g, x, v) /\ ReadsAs(saved[j], u, FALSE)
       /\ e = k + Len(saved[j].key)
  BY <1>6, <1>9, <1>12 DEF o
<1>15. start[j] + 13 =< k /\ k \in Nat
  BY <1>2
<1>16. \A z \in (IF FALSE THEN g ELSE x)..(h + 2) : ~ExpiryAt(f, z)
  BY <1>13
<1> HIDE DEF k, y
<1> QED  BY <1>6, <1>14, <1>15, <1>16, TakenIn

(* The lines of a string that is written as it is. *)
LEMMA LengthHere ==
  ASSUME NEW f \in Text, NEW a \in Nat \ {0}, text = From(f, a + 6),
         LineAt(f, a + 5, CtpTag, StringType), LineAt(f, a + 9, EcTag, EncodingRaw),
         NEW m \in Int, LineAt(f, a + 13, YcTag, m)
  PROVE  LET y == PastTag(text, YcTag) IN
         /\ y = From(f, a + 14) /\ AtoI(Line(y, 1)) = m
         /\ \A c \in Int : LineAt(f, a + 17, XcTag, c) =>
              PastTag(y, XcTag) = From(f, a + 18) /\ AtoI(Line(From(f, a + 18), 1)) = c
<1>1. YcTag \in Symbol /\ XcTag \in Symbol
  BY SymbolIs
<1>2. /\ a + 5 + 1 = a + 6 /\ a + 5 + 2 = a + 7 /\ a + 5 + 3 = a + 8
      /\ a + 9 + 1 = a + 10 /\ a + 9 + 2 = a + 11 /\ a + 9 + 3 = a + 12
      /\ a + 13 + 1 = a + 14 /\ a + 13 + 2 = a + 15 /\ a + 13 + 3 = a + 16
      /\ a + 17 + 1 = a + 18
  OBVIOUS
<1>3. /\ f[a + 6] = Dec(StringType) /\ f[a + 7] = CR /\ f[a + 8] = LF
      /\ f[a + 9] = EcTag /\ f[a + 10] = Dec(EncodingRaw) /\ f[a + 11] = CR /\ f[a + 12] = LF
      /\ f[a + 14] = Dec(m) /\ f[a + 15] = CR /\ f[a + 16] = LF
  BY <1>2 DEF LineAt
<1>4. StringType \in Int /\ EncodingRaw \in Int /\ YcTag \in Tags /\ XcTag \in Tags
  BY DEF StringType, EncodingRaw, Tags
<1>5. ASSUME NEW x \in (a + 6)..(a + 13 - 1) PROVE f[x] # YcTag
  <2>1. \/ x = a + 6 \/ x = a + 7 \/ x = a + 8 \/ x = a + 9 \/ x = a + 10
        \/ x = a + 11 \/ x = a + 12
    OBVIOUS
  <2> QED  BY <1>3, <1>4, <2>1, MarksDiffer
<1>6. ASSUME NEW x \in (a + 14)..(a + 17 - 1) PROVE f[x] # XcTag
  <2>1. x = a + 14 \/ x = a + 15 \/ x = a + 16
    OBVIOUS
  <2> QED  BY <1>3, <1>4, <2>1, MarksDiffer
<1>7. /\ PastTag(From(f, a + 6), YcTag) = From(f, a + 14)
      /\ AtoI(Line(From(f, a + 14), 1)) = m
  <2>1. a + 6 \in Nat \ {0} /\ a + 13 \in Nat /\ a + 6 =< a + 13
    OBVIOUS
  <2>2. /\ PastTag(From(f, a + 6), YcTag) = From(f, a + 13 + 1)
        /\ AtoI(Line(From(f, a + 13 + 1), 1)) = m
    <3> DEFINE q == a + 6
               b == a + 13
    <3>1. LineAt(f, b, YcTag, m) /\ q \in Nat \ {0} /\ b \in Nat /\ q =< b
      BY <2>1
    <3>2. \A x \in q..(b - 1) : f[x] # YcTag
      BY <1>5
    <3> HIDE DEF q, b
    <3>3. PastTag(From(f, q), YcTag) = From(f, b + 1)
      <4>1. f[b] = YcTag /\ b =< Len(f)
        BY <3>1 DEF LineAt, Text
      <4> QED  BY <1>1, <3>1, <3>2, <4>1, TagHere
    <3>4. AtoI(Line(From(f, b + 1), 1)) = m
      BY <1>1, <3>1, <3>2, LineHere
    <3> QED  BY <3>3, <3>4 DEF q, b
  <2> QED  BY <1>2, <2>2
<1>8. ASSUME NEW c \in Int, LineAt(f, a + 17, XcTag, c)
      PROVE  /\ PastTag(From(f, a + 14), XcTag) = From(f, a + 18)
             /\ AtoI(Line(From(f, a + 18), 1)) = c
  <2>1. a + 14 \in Nat \ {0} /\ a + 17 \in Nat /\ a + 14 =< a + 17
    OBVIOUS
  <2>2. /\ PastTag(From(f, a + 14), XcTag) = From(f, a + 17 + 1)
        /\ AtoI(Line(From(f, a + 17 + 1), 1)) = c
    <3> DEFINE q == a + 14
               b == a + 17
    <3>1. LineAt(f, b, XcTag, c) /\ q \in Nat \ {0} /\ b \in Nat /\ q =< b
      BY <1>8, <2>1
    <3>2. \A x \in q..(b - 1) : f[x] # XcTag
      BY <1>6
    <3> HIDE DEF q, b
    <3>3. /\ PastTag(From(f, q), XcTag) = From(f, b + 1)
          /\ AtoI(Line(From(f, b + 1), 1)) = c
      BY <1>1, <3>1, <3>2, LineHere
    <3> QED  BY <3>3 DEF q, b
  <2> QED  BY <1>2, <2>2
<1> QED  BY <1>7, <1>8

(* How a string that is written as it is is read. *)
ReadsRaw(f, a, o, k, u) ==
  \E y \in Nat \ {0}, inflates \in BOOLEAN :
    /\ y =< k - 2 /\ k \in {a + 17, a + 21}
    /\ f[k - 2] = CR /\ f[k - 1] = LF /\ \A x \in y..(k - 3) : f[x] # CR
    /\ ReadPlainString(From(f, y), TRUE, inflates)
    /\ IsPlain(o)
    /\ (u = o.vals[1] /\ ~inflates) \/ (u \in Packed /\ Has(o.vals[1], Rep))

LEMMA RawRead ==
  ASSUME NEW f \in Text, NEW a \in Nat \ {0}, text = From(f, a + 6), ReadRaw,
         LineAt(f, a + 5, CtpTag, StringType), LineAt(f, a + 9, EcTag, EncodingRaw),
         NEW o \in Objects, o.vals[1] \in Text,
         NEW k \in Nat, NEW u \in Text, StringAs(f, a, o, EncodingRaw, k, u)
  PROVE  ReadsRaw(f, a, o, k, u)
<1> DEFINE m == Size(o.vals[1])
           Y == PastTag(text, YcTag)
           X == PastTag(Y, XcTag)
           length == AtoI(Line(Y, 1))
<1>1. m \in Int
  BY SizeType
<1>2. /\ IsPlain(o) /\ LineAt(f, a + 13, YcTag, m)
      /\ \/ k = a + 17 /\ u = o.vals[1] /\ m =< 20
         \/ /\ k = a + 21 /\ m > 20
            /\ \E c \in Int : /\ LineAt(f, a + 17, XcTag, c)
                              /\ (c = m /\ u = o.vals[1]) \/ (u \in Packed /\ Has(o.vals[1], Rep))
  BY DEF StringAs, EncodingInt, EncodingInt8, EncodingRaw, Has
<1> HIDE DEF m
<1>3. /\ Y = From(f, a + 14) /\ length = m
      /\ \A c \in Int : LineAt(f, a + 17, XcTag, c) =>
           X = From(f, a + 18) /\ AtoI(Line(From(f, a + 18), 1)) = c
  BY <1>1, <1>2, LengthHere
<1>4. IF length > 20 THEN ReadPlainString(X, TRUE, AtoI(Line(X, 1)) # length)
                     ELSE ReadPlainString(Y, TRUE, FALSE)
  BY Zenon DEF ReadRaw
<1> HIDE DEF X, Y, length
<1>5. CASE k = a + 17 /\ u = o.vals[1] /\ m =< 20
  <2> DEFINE y == a + 14
  <2>1. ReadPlainString(From(f, y), TRUE, FALSE)
    <3>1. ~(length > 20)
      BY <1>1, <1>3, <1>5
    <3>2. ReadPlainString(Y, TRUE, FALSE)
      BY <1>4, <3>1
    <3> QED  BY <1>3, <3>2
  <2>2. y \in Nat \ {0} /\ y =< k - 2
    BY <1>5
  <2>3. /\ a + 13 + 1 = a + 14 /\ a + 13 + 2 = k - 2 /\ a + 13 + 3 = k - 1 /\ k - 3 = a + 14
    BY <1>5
  <2>4. f[a + 14] = Dec(m) /\ f[k - 2] = CR /\ f[k - 1] = LF
    BY <1>2, <2>3 DEF LineAt
  <2>5. ASSUME NEW x \in y..(k - 3) PROVE f[x] # CR
    <3>1. x = a + 14
      BY <2>3
    <3> QED  BY <1>1, <2>4, <3>1, MarksDiffer
  <2> HIDE DEF y
  <2>6. FALSE \in BOOLEAN
    OBVIOUS
  <2> QED  BY <1>2, <1>5, <2>1, <2>2, <2>4, <2>5, <2>6 DEF ReadsRaw
<1>6. CASE /\ k = a + 21 /\ m > 20
           /\ \E c \in Int : /\ LineAt(f, a + 17, XcTag, c)
                             /\ (c = m /\ u = o.vals[1]) \/ (u \in Packed /\ Has(o.vals[1], Rep))
  <2>1. PICK c \in Int : /\ LineAt(f, a + 17, XcTag, c)
                         /\ (c = m /\ u = o.vals[1]) \/ (u \in Packed /\ Has(o.vals[1], Rep))
    BY <1>6
  <2> DEFINE y == a + 18
             i == (c # m)
  <2>2. X = From(f, y) /\ AtoI(Line(X, 1)) = c
    BY <1>3, <2>1
  <2>3. ReadPlainString(From(f, y), TRUE, i)
    <3>1. length > 20
      BY <1>3, <1>6
    <3>2. ReadPlainString(X, TRUE, AtoI(Line(X, 1)) # length)
      BY <1>4, <3>1
    <3>3. (AtoI(Line(X, 1)) # length) = i
      BY <1>3, <2>2
    <3> QED  BY <2>2, <3>2, <3>3
  <2>4. y \in Nat \ {0} /\ y =< k - 2 /\ i \in BOOLEAN
    BY <1>6
  <2>5. /\ a + 17 + 1 = a + 18 /\ a + 17 + 2 = k - 2 /\ a + 17 + 3 = k - 1 /\ k - 3 = a + 18
    BY <1>6
  <2>6. f[a + 18] = Dec(c) /\ f[k - 2] = CR /\ f[k - 1] = LF
    BY <2>1, <2>5 DEF LineAt
  <2>7. ASSUME NEW x \in y..(k - 3) PROVE f[x] # CR
    <3>1. x = a + 18
      BY <2>5
    <3> QED  BY <2>6, <3>1, MarksDiffer
  <2>8. (u = o.vals[1] /\ ~i) \/ (u \in Packed /\ Has(o.vals[1], Rep))
    BY <2>1
  <2> HIDE DEF y, i
  <2> QED  BY <1>2, <1>6, <2>3, <2>4, <2>6, <2>7, <2>8 DEF ReadsRaw
<1> QED  BY <1>2, <1>5, <1>6

(* At a string that is not confined the recovery may end. *)
LEMMA Misled ==
  ASSUME TypeInv, NEW f, NEW start, NEW n, NEW cut, Laid(saved, f, start, n, cut),
         NEW j \in 1..n, StringHere(f, start, n, j), ZeroByte(saved[j]) \/ Compressible(saved[j])
  PROVE  BackFrom(saved, db)
<1>1. saved \in Seq(Objects) /\ saved[j] \in Objects /\ saved[j].type = StringType /\ j \in Nat
  BY StringBegins
<1>2. j \in 1..Len(saved) /\ j - 1 \in 0..Len(saved) /\ j - 1 + 1 = j
  <2>1. n \in 0..Len(saved) /\ Len(saved) \in Nat
    BY <1>1, Placed
  <2> DEFINE m == Len(saved)
  <2> HIDE DEF m
  <2>2. n \in 0..m /\ m \in Nat
    BY <2>1 DEF m
  <2>3. j \in 1..m /\ j - 1 \in 0..m /\ j - 1 + 1 = j
    BY <2>2
  <2> QED  BY <2>3 DEF m
<1>3. ~Confined(saved[j])
  <2> DEFINE o == saved[j]
  <2>1. ZeroByte(o) => ~IsMiddle(o) /\ ~IsWide(o) /\ ~IsPlain(o)
    BY <1>1, KindsApart DEF ZeroByte
  <2>2. Compressible(o) => ~IsSmall(o) /\ ~IsMiddle(o) /\ ~IsWide(o)
    BY <1>1, KindsApart DEF Compressible
  <2>3. o.type # HashType /\ o.type # ListType /\ o.type \in StringType..ListType
    BY <1>1 DEF StringType, HashType, ListType
  <2>4. ZeroByte(o) \/ Compressible(o)
    OBVIOUS
  <2> HIDE DEF o
  <2>5. ~Confined(o)
    BY <2>1, <2>2, <2>3, <2>4 DEF Confined
  <2> QED  BY <2>5 DEF o
<1>4. ~Clear(saved, j)
  <2>1. j \in 1..j
    BY <1>1
  <2> QED  BY <1>3, <2>1 DEF Clear
<1>5. Recovered(saved, db, j - 1)
  BY DEF StringHere
<1> QED  BY <1>1, <1>2, <1>4, <1>5, Finishes

(* A string that is read as it is. *)
LEMMA RawTaken ==
  ASSUME TypeInv, Distinct, NEW f, NEW start, NEW n, NEW cut, Laid(saved, f, start, n, cut),
         NEW j \in 1..n, ~(cut /\ j = n), StringHere(f, start, n, j), ReadRaw,
         NEW k \in Nat, NEW u \in Text,
         StringAt(f, start[j], start[j + 1], saved[j], EncodingRaw, k, u)
  PROVE  ReadInv' /\ ComesBack' /\ EndsUnless'
<1> DEFINE a == start[j]
           o == saved[j]
<1>1. /\ f \in Text /\ o \in Objects /\ o.type = StringType
      /\ a \in Nat \ {0} /\ start[j + 1] \in Nat
      /\ LineAt(f, a + 5, CtpTag, StringType) /\ text = From(f, a + 6)
      /\ o.vals[1] \in Text /\ o.vals[1] \in Seq(Letter)
  BY StringBegins
<1>2. /\ StringAt(f, a, start[j + 1], o, EncodingRaw, k, u)
      /\ LineAt(f, a + 9, EcTag, EncodingRaw) /\ StringAs(f, a, o, EncodingRaw, k, u)
  BY DEF StringAt
<1> HIDE DEF a, o
<1>3. ReadsRaw(f, a, o, k, u)
  BY <1>1, <1>2, RawRead
<1>4. PICK y \in Nat \ {0}, i \in BOOLEAN :
        /\ y =< k - 2 /\ k \in {a + 17, a + 21}
        /\ f[k - 2] = CR /\ f[k - 1] = LF /\ \A x \in y..(k - 3) : f[x] # CR
        /\ ReadPlainString(From(f, y), TRUE, i)
        /\ IsPlain(o)
        /\ (u = o.vals[1] /\ ~i) \/ (u \in Packed /\ Has(o.vals[1], Rep))
  BY <1>3 DEF ReadsRaw
<1>5. PICK e, h \in Nat : StringEnds(f, start[j + 1], o.key, k, u, e, h)
  <2>1. EncodingRaw \in Int
    BY DEF EncodingRaw
  <2> QED  BY <1>1, <1>2, <2>1, StringPlaces
<1>6. /\ e = k + Len(o.key) /\ h = e + 1 + Len(u) /\ start[j + 1] = h + 3
      /\ o.key \in Text /\ o.key \in Seq(Letter) /\ Sits(f, k, o.key) /\ f[e] = Colon
      /\ Sits(f, e + 1, u)
      /\ h =< Len(f) /\ f[h] = CR /\ ClosingAt(f, h) /\ e < h
  BY <1>5 DEF StringEnds
<1>7. o.vals[1] \in Seq(Letter) => ~Has(o.vals[1], Wild)
  <2>1. SUFFICES ASSUME o.vals[1] \in Seq(Letter), Has(o.vals[1], Wild) PROVE FALSE
    OBVIOUS
  <2>2. ToSet(o.vals[1]) \subseteq Letter
    BY <2>1 DEF ToSet
  <2> QED  BY <2>1, <2>2, MarksDiffer DEF Has
<1>8. CASE Has(u, Wild) /\ stage' = "astray" /\ saved' = saved /\ db' = db
  <2>1. Compressible(o)
    <3>1. u # o.vals[1]
      BY <1>1, <1>7, <1>8
    <3> QED  BY <1>4, <3>1 DEF Compressible
  <2>2. o \in ToSet(saved)
    <3>1. saved \in Seq(Objects) /\ Len(saved) \in Nat
      BY StringBegins
    <3>2. n \in 0..Len(saved)
      BY <3>1, Placed
    <3> DEFINE m == Len(saved)
    <3> HIDE DEF m
    <3>3. j \in 1..m
      BY <3>1, <3>2 DEF m
    <3> QED  BY <3>1, <3>3 DEF ToSet, o, m
  <2>3. BackFrom(saved, db)
    BY <2>1, Misled DEF o
  <2> QED  BY <1>8, <2>1, <2>2, <2>3, Strays
<1>9. CASE \E g, x, v : Taking(f, k, e, h, o.key, u, TRUE, i, g, x, v)
  <2>1. PICK g, x, v : Taking(f, k, e, h, o.key, u, TRUE, i, g, x, v)
    BY <1>9
  <2>2. g \in k..e /\ f[g] = Colon
    BY <2>1 DEF Taking
  <2>3. ReadsAs(o, u, i)
    <3>1. SUFFICES ASSUME Described(o)
                   PROVE  /\ ~i /\ \A z \in 1..Len(u) : u[z] # CR
                          /\ Back(o) = [o EXCEPT !.vals = <<u>>]
      BY DEF ReadsAs
    <3>2. ~Has(o.vals[1], Rep)
      BY <1>1, <3>1 DEF Described, StringType, HashType, ListType
    <3>3. u = o.vals[1] /\ ~i
      BY <1>4, <3>2
    <3>4. Back(o) = [o EXCEPT !.vals = <<o.vals[1]>>]
      BY <1>1, <1>4, StringBack
    <3>5. \A z \in 1..Len(u) : u[z] # CR
      <4>1. ASSUME NEW z \in 1..Len(u) PROVE u[z] # CR
        <5>1. u[z] \in Letter
          BY <1>1, <3>3, ElementOfSeq
        <5> QED  BY <5>1, MarksDiffer
      <4> QED  BY <4>1
    <3> QED  BY <3>3, <3>4, <3>5
  <2>4. ASSUME Confined(o), NEW z \in g..(h + 2) PROVE ~ExpiryAt(f, z)
    <3>1. Quiet(o.key, o.vals[1])
      <4>1. ~IsSmall(o) /\ ~IsMiddle(o) /\ ~IsWide(o)
        BY <1>1, <1>4, KindsApart
      <4>2. o.type # HashType /\ o.type # ListType /\ o.type \in StringType..ListType
        BY <1>1 DEF StringType, HashType, ListType
      <4> QED  BY <2>4, <4>1, <4>2 DEF Confined, Quiet
    <3>2. h = e + 2 \/ (h = e + 1 + Len(o.vals[1]) /\ Sits(f, e + 1, o.vals[1]))
      <4>1. CASE u = o.vals[1]
        BY <1>6, <4>1
      <4>2. CASE u \in Packed
        <5>1. Len(u) = 1
          BY <4>2 DEF Packed
        <5> QED  BY <1>6, <5>1
      <4> QED  BY <1>4, <4>1, <4>2
    <3>3. k \in Nat \ {0}
      BY <1>1, <1>4
    <3> QED  BY <1>1, <1>6, <2>2, <2>4, <3>1, <3>2, <3>3, PlainQuiet
  <2>5. Taking(f, k, e, h, saved[j].key, u, TRUE, i, g, x, v) /\ ReadsAs(saved[j], u, i)
         /\ e = k + Len(saved[j].key)
    BY <1>6, <2>1, <2>3 DEF o
  <2>6. start[j] + 13 =< k
    <3>1. a + 13 =< k
      BY <1>1, <1>4
    <3> QED  BY <3>1 DEF a
  <2>7. Confined(saved[j]) => \A z \in (IF TRUE THEN g ELSE x)..(h + 2) : ~ExpiryAt(f, z)
    BY <2>4 DEF o
  <2> QED  BY <1>6, <2>5, <2>6, <2>7, TakenIn
<1> QED  BY <1>1, <1>4, <1>6, <1>8, <1>9, StringTaken

LEMMA LenIs ==
  ASSUME NEW t \in Text
  PROVE  Len(t) \in Nat
BY DEF Text

LEMMA ValueFirst ==
  ASSUME NEW f, NEW e \in Nat, NEW u, NEW s, u = <<s>>, Sits(f, e + 1, u)
  PROVE  f[e + 1] = s
<1>1. 1 \in 1..Len(u) /\ u[1] = s /\ e + 1 + 1 - 1 = e + 1
  OBVIOUS
<1>2. f[e + 1 + 1 - 1] = u[1]
  BY <1>1 DEF Sits
<1> QED  BY <1>1, <1>2

(* A wide number and what stands before it. *)
LEMMA WideHere ==
  ASSUME NEW f \in Text, NEW a \in Nat \ {0}, NEW enc \in Int, LineAt(f, a + 9, EcTag, enc),
         NEW key \in Text, Sits(f, a + 13, key),
         NEW e \in Nat, e = a + 13 + Len(key), f[e] = Colon, f[e + 1] # E,
         ClosingAt(f, e + 2), Find(key \o <<Colon>>, Expiry) = 0,
         NEW z \in (a + 10)..(e + 4)
  PROVE  ~ExpiryAt(f, z)
<1> DEFINE k == a + 13
<1>1. f[a + 10] = Dec(enc) /\ f[a + 11] = CR /\ f[a + 12] = LF
  <2>1. a + 9 + 1 = a + 10 /\ a + 9 + 2 = a + 11 /\ a + 9 + 3 = a + 12
    OBVIOUS
  <2> QED  BY <2>1 DEF LineAt
<1>2. f[e + 2] = CR /\ f[e + 3] = Dollar /\ f[e + 4] = LF
  <2>1. e + 2 + 1 = e + 3 /\ e + 2 + 2 = e + 4
    OBVIOUS
  <2> QED  BY <2>1 DEF ClosingAt
<1>3. k \in Nat \ {0} /\ e =< Len(f) /\ e = k + Len(key) /\ Len(key) \in Nat
  <2>1. Len(f) \in Nat /\ e + 2 + 2 =< Len(f) /\ Len(key) \in Nat
    BY DEF Text, ClosingAt
  <2> QED  BY <2>1
<1>4. ASSUME NEW y \in k..(e - 1) PROVE ~ExpiryAt(f, y)
  <2>1. Sits(f, k, key)
    OBVIOUS
  <2> HIDE DEF k
  <2> QED  BY <1>3, <1>4, <2>1, WideQuiet
<1>5. \/ z = a + 10 \/ z = a + 11 \/ z = a + 12 \/ z \in k..(e - 1)
      \/ z = e \/ z = e + 1 \/ z = e + 2 \/ z = e + 3 \/ z = e + 4
  BY <1>3
<1>6. f[z] # E \/ z \in k..(e - 1)
  BY <1>1, <1>2, <1>5, MarksDiffer, ZenonT(40)
<1> QED  BY <1>4, <1>6 DEF ExpiryAt

(* A wide number, of which no key and no value is read. *)
LEMMA OtherTaken ==
  ASSUME TypeInv, Distinct, NEW f, NEW start, NEW n, NEW cut, Laid(saved, f, start, n, cut),
         NEW j \in 1..n, ~(cut /\ j = n), StringHere(f, start, n, j), ReadOther,
         NEW u \in Text,
         StringAt(f, start[j], start[j + 1], saved[j], EncodingInt8, start[j] + 13, u)
  PROVE  ReadInv' /\ ComesBack' /\ EndsUnless'
<1> DEFINE a == start[j]
           b == start[j + 1]
           k == a + 13
           r == a + 10
           o == saved[j]
           p == [got EXCEPT !.vals = <<<<>>>>]
<1>1. /\ f \in Text /\ o \in Objects /\ o.type = StringType
      /\ a \in Nat \ {0} /\ b \in Nat /\ 8 =< a /\ j \in Nat
      /\ LineAt(f, a + 5, CtpTag, StringType) /\ text = From(f, a + 6)
      /\ o.vals[1] \in Text /\ EncodingInt8 \in Int
  BY StringBegins DEF EncodingInt8
<1>2. /\ StringAt(f, a, b, o, EncodingInt8, k, u)
      /\ LineAt(f, a + 9, EcTag, EncodingInt8) /\ StringAs(f, a, o, EncodingInt8, k, u)
  BY DEF StringAt
<1>3. IsWide(o) /\ u = <<Dec(AtoI(o.vals[1]))>>
  BY <1>2 DEF StringAs, EncodingInt, EncodingInt8, EncodingRaw
<1> HIDE DEF a, b, o
<1>4. AddObject(p) /\ text' = From(f, r)
  <2>1. PastTag(text, EcTag) = From(f, r)
    BY <1>1, <1>2, EncodingHere
  <2> QED  BY <2>1 DEF ReadOther
<1>5. PICK e, h \in Nat : StringEnds(f, b, o.key, k, u, e, h)
  <2>1. k \in Nat
    BY <1>1
  <2> HIDE DEF k
  <2> QED  BY <1>1, <1>2, <2>1, StringPlaces
<1>6. /\ e = k + Len(o.key) /\ h = e + 1 + Len(u) /\ b = h + 3
      /\ o.key \in Text /\ o.key \in Seq(Letter) /\ Sits(f, k, o.key) /\ f[e] = Colon
      /\ Sits(f, e + 1, u)
      /\ h =< Len(f) /\ f[h] = CR /\ ClosingAt(f, h) /\ e < h
  BY <1>5 DEF StringEnds
<1>13. h = e + 2 /\ b = e + 5 /\ a + 13 =< e
  <2> DEFINE l == Len(o.key)
             m == Len(u)
  <2>1. e = a + 13 + l /\ h = e + 1 + m /\ b = h + 3
    BY <1>6
  <2>2. l \in Nat
    BY <1>6, LenIs
  <2>3. m = 1
    BY <1>3
  <2> HIDE DEF l, m
  <2> QED  BY <1>1, <2>1, <2>2, <2>3
<1>7. Typed(o) /\ p.type = StringType /\ p.key = <<>>
  <2>1. got \in [type : Int, key : Text, end : Int, vals : Seq(Text)]
    BY DEF TypeInv
  <2> QED  BY <1>1, <2>1 DEF StringHere, Typed
<1>8. Source(saved, p, j)
  <2>1. j \in 1..j
    BY <1>1
  <2> HIDE DEF p
  <2> QED  BY <1>1, <1>7, <2>1 DEF Source, o
<1>9. ~Described(o)
  BY <1>1, <1>3 DEF Described, StringType, HashType, ListType
<1>10. ASSUME Confined(o), NEW z \in r..(b - 1) PROVE ~ExpiryAt(f, z)
  <2>1. Find(o.key \o <<Colon>>, Expiry) = 0
    <3>1. ~IsSmall(o) /\ ~IsMiddle(o) /\ ~IsPlain(o)
      BY <1>1, <1>3, KindsApart
    <3>2. o.type # HashType /\ o.type # ListType /\ o.type \in StringType..ListType
      BY <1>1 DEF StringType, HashType, ListType
    <3> QED  BY <1>10, <3>1, <3>2 DEF Confined
  <2>2. AtoI(o.vals[1]) \in Int
    BY <1>1, AtoIType
  <2>3. f[e + 1] # E
    <3>1. f[e + 1] = Dec(AtoI(o.vals[1]))
      BY <1>3, <1>6, ValueFirst
    <3> QED  BY <2>2, <3>1, MarksDiffer
  <2>4. h = e + 2 /\ b - 1 = e + 4
    BY <1>13
  <2> QED  BY <1>1, <1>2, <1>6, <1>10, <2>1, <2>3, <2>4, WideHere
<1>11. r \in Nat \ {0} /\ a + 5 < r /\ r =< b
  BY <1>1, <1>13
<1>12. Recovered(saved, db, j - 1)
  BY DEF StringHere
<1> HIDE DEF p, r
<1> QED  BY <1>4, <1>7, <1>8, <1>9, <1>10, <1>11, <1>12, ObjectAdded DEF a, b, o

(* A number whose byte is zero: the file ends with the colon before it.    *)
LEMMA CutTaken ==
  ASSUME TypeInv, NEW f, NEW start, NEW n, NEW cut, Laid(saved, f, start, n, cut),
         NEW j \in 1..n, cut, j = n, StringHere(f, start, n, j), ReadInt
  PROVE  ReadInv' /\ ComesBack' /\ EndsUnless'
<1> DEFINE a == start[j]
           o == saved[j]
           y == a + 10
           k == a + 13
           e == k + Len(o.key)
           key == o.key
           t == From(f, y)
           i == Find(t, Eol) + 2
           c == Until(t, i, Colon)
           r == Until(t, c + 1, CR)
<1>1. /\ f \in Text /\ o \in Objects /\ o.type = StringType
      /\ a \in Nat \ {0} /\ j \in Nat /\ saved \in Seq(Objects)
      /\ LineAt(f, a + 5, CtpTag, StringType) /\ text = From(f, a + 6)
      /\ o.vals[1] \in Text
  BY StringBegins
<1>2. /\ LineAt(f, a + 9, EcTag, EncodingInt) /\ Sits(f, k, o.key)
      /\ Len(f) = a + 13 + Len(o.key) /\ f[Len(f)] = Colon
      /\ ZeroByte(o)
  BY DEF Laid, CutAt, ZeroByte
<1>3. /\ key \in Text /\ key \in Seq(Letter) /\ Len(key) \in Nat /\ EncodingInt \in Int
  BY <1>1, ObjectType DEF Text, EncodingInt
<1>4. ReadPlainString(t, FALSE, FALSE)
  <2>1. PastTag(text, EcTag) = t
    BY <1>1, <1>2, <1>3, EncodingHere
  <2> QED  BY <2>1 DEF ReadInt
<1>5. /\ y \in Nat \ {0} /\ k \in Nat /\ y =< k - 2 /\ e \in Nat /\ e =< Len(f) /\ f[e] = Colon
      /\ e = k + Len(key) /\ e = Len(f) /\ Sits(f, k, key)
  <2>1. e = Len(f)
    BY <1>2
  <2>2. e \in Nat
    BY <1>1, <1>3, SMTT(30)
  <2> HIDE DEF e
  <2>3. f[e] = Colon
    BY <1>2, <2>1
  <2> HIDE DEF a
  <2>4. y \in Nat \ {0} /\ k \in Nat /\ y =< k - 2
    BY <1>1
  <2> QED  BY <1>2, <2>1, <2>2, <2>3, <2>4 DEF e
<1>6. f[k - 2] = CR /\ f[k - 1] = LF /\ \A x \in y..(k - 3) : f[x] # CR
  <2> HIDE DEF a
  <2>1. a + 9 + 1 = a + 10 /\ a + 9 + 2 = k - 2 /\ a + 9 + 3 = k - 1 /\ k - 3 = a + 10
    BY <1>1
  <2>2. f[a + 10] = Dec(EncodingInt) /\ f[k - 2] = CR /\ f[k - 1] = LF
    BY <1>2, <2>1 DEF LineAt
  <2>3. \A x \in y..(k - 3) : x = a + 10
    BY <1>1, <2>1
  <2>4. Dec(EncodingInt) # CR
    BY <1>3, MarksDiffer
  <2> QED  BY <2>1, <2>2, <2>3, <2>4
<1>7. PICK g \in Nat : KeyIs(f, y, k, e, key, g)
  <2> HIDE DEF y, k, e, key
  <2> QED  BY <1>1, <1>3, <1>5, <1>6, KeyFound
<1>8. g \in k..e /\ c = g - y + 1 /\ f[g] = Colon
  BY <1>7 DEF KeyIs
<1> HIDE DEF i, key
<1>9. r = 0
  <2>1. c + 1 \in Nat \ {0} /\ y + (c + 1) - 1 = g + 1
    <3> HIDE DEF c, k, e, y
    <3> QED  BY <1>5, <1>8
  <2>2. ASSUME NEW x \in (g + 1)..Len(f) PROVE f[x] # CR
    <3>1. x = e \/ x \in k..(k + Len(key) - 1)
      <4> HIDE DEF k, e
      <4> QED  BY <1>3, <1>5, <1>8, <2>2
    <3>2. x \in k..(k + Len(key) - 1) => f[x] \in Letter
      <4> HIDE DEF k, e
      <4> QED  BY <1>3, <1>5, WordClean
    <3> QED  BY <1>5, <3>1, <3>2, MarksDiffer
  <2>3. \A x \in (y + (c + 1) - 1)..Len(f) : f[x] # CR
    BY <2>1, <2>2
  <2> HIDE DEF c, y
  <2>4. y \in Nat \ {0}
    BY <1>5
  <2> QED  BY <1>1, <2>1, <2>3, <2>4, NoLine
<1>10. stage' = "astray" /\ saved' = saved /\ db' = db
  <2>1. r = 0
    BY <1>9
  <2> QED  BY <1>4, <2>1 DEF ReadPlainString, i
<1>11. o \in ToSet(saved)
  <2>1. n \in 0..Len(saved) /\ Len(saved) \in Nat
    BY <1>1, Placed
  <2> DEFINE m == Len(saved)
  <2> HIDE DEF m
  <2>2. j \in 1..m
    BY <2>1 DEF m
  <2> QED  BY <1>1, <2>2 DEF ToSet, m
<1>12. BackFrom(saved, db)
  BY <1>2, Misled
<1> QED  BY <1>2, <1>10, <1>11, <1>12, Strays

LEMMA EncodingsApart ==
  ASSUME NEW f, NEW a, NEW o, NEW enc, NEW k, NEW u, StringAs(f, a, o, enc, k, u)
  PROVE  \/ enc = EncodingInt /\ k = a + 13
         \/ enc = EncodingInt8 /\ k = a + 13
         \/ enc = EncodingRaw
BY DEF StringAs

LEMMA StringStep ==
  ASSUME TypeInv, Distinct, NEW f, NEW start, NEW n, NEW cut, NEW q \in Nat \ {0},
         Laid(saved, f, start, n, cut), text = From(f, q),
         AtObject(saved, start, n, db, got, q), ReadInt \/ ReadRaw \/ ReadOther
  PROVE  ReadInv' /\ ComesBack' /\ EndsUnless'
<1>1. got.type = StringType
  BY DEF ReadInt, ReadRaw, ReadOther, AtString
<1>2. PICK j \in 1..n :
        /\ Typed(saved[j]) /\ q = start[j] + 6
        /\ got.type = saved[j].type /\ got.key = <<>> /\ got.vals = <<>>
        /\ (Clear(saved, j) => got.end = Never) /\ Recovered(saved, db, j - 1)
  BY DEF AtObject
<1>3. StringHere(f, start, n, j)
  BY <1>1, <1>2 DEF StringHere
<1>4. /\ f \in Text /\ saved[j] \in Objects /\ saved[j].type = StringType
      /\ start[j] \in Nat \ {0} /\ text = From(f, start[j] + 6)
      /\ LineAt(f, start[j] + 5, CtpTag, StringType)
  BY <1>3, StringBegins
<1>5. EncodingInt # EncodingInt8 /\ EncodingInt # EncodingRaw /\ EncodingInt8 # EncodingRaw
      /\ EncodingInt \in Int
  BY DEF EncodingInt, EncodingInt8, EncodingRaw
<1>6. CASE cut /\ j = n
  <2>1. LineAt(f, start[j] + 9, EcTag, EncodingInt)
    BY <1>6 DEF Laid, CutAt
  <2>2. Encoding = EncodingInt
    BY <1>4, <1>5, <2>1, EncodingHere
  <2>3. ReadInt
    BY <1>5, <2>2 DEF ReadRaw, ReadOther
  <2> QED  BY <1>3, <1>6, <2>3, CutTaken
<1>7. CASE ~(cut /\ j = n)
  <2>1. ObjectAt(f, start[j], start[j + 1], saved[j])
    BY <1>7 DEF Laid
  <2>2. PICK enc \in Int, k \in Nat, u \in Text :
          StringAt(f, start[j], start[j + 1], saved[j], enc, k, u)
    BY <1>2, <1>4, <2>1 DEF ObjectAt
  <2>3. LineAt(f, start[j] + 9, EcTag, enc) /\ StringAs(f, start[j], saved[j], enc, k, u)
    BY <2>2 DEF StringAt
  <2>4. Encoding = enc
    BY <1>4, <2>3, EncodingHere
  <2>5. CASE enc = EncodingInt /\ k = start[j] + 13
    <3>1. ReadInt
      BY <1>5, <2>4, <2>5 DEF ReadRaw, ReadOther
    <3>2. StringAt(f, start[j], start[j + 1], saved[j], EncodingInt, start[j] + 13, u)
      BY <2>2, <2>5
    <3> QED  BY <1>3, <1>7, <3>1, <3>2, IntTaken
  <2>6. CASE enc = EncodingInt8 /\ k = start[j] + 13
    <3>1. ReadOther
      BY <1>5, <2>4, <2>6 DEF ReadInt, ReadRaw
    <3>2. StringAt(f, start[j], start[j + 1], saved[j], EncodingInt8, start[j] + 13, u)
      BY <2>2, <2>6
    <3> QED  BY <1>3, <1>7, <3>1, <3>2, OtherTaken
  <2>7. CASE enc = EncodingRaw
    <3>1. ReadRaw
      BY <1>5, <2>4, <2>7 DEF ReadInt, ReadOther
    <3>2. StringAt(f, start[j], start[j + 1], saved[j], EncodingRaw, k, u)
      BY <2>2, <2>7
    <3> QED  BY <1>3, <1>7, <3>1, <3>2, RawTaken
  <2> QED  BY <2>3, <2>5, <2>6, <2>7, EncodingsApart
<1> QED  BY <1>6, <1>7

(* The words of a hash or of a list. *)

(* The word w stands from q up to z. *)
WordIn(f, w, q, z) ==
  /\ q \in Nat \ {0} /\ z \in Nat /\ z = q + Len(w) /\ z =< Len(f) /\ Sits(f, q, w)
  /\ w \in Text /\ w \in Seq(Letter) /\ \A x \in q..(z - 1) : f[x] \in Letter

LineEnds(f, z) == z + 1 =< Len(f) /\ f[z] = CR /\ f[z + 1] = LF

LEMMA WordHere ==
  ASSUME NEW f \in Text, NEW q \in Nat \ {0}, NEW w \in Text, w \in Seq(Letter), Sits(f, q, w),
         NEW z \in Nat, z = q + Len(w), z =< Len(f)
  PROVE  WordIn(f, w, q, z)
<1>1. ASSUME NEW x \in q..(z - 1) PROVE f[x] \in Letter
  <2>1. x \in q..(q + Len(w) - 1)
    OBVIOUS
  <2> QED  BY <2>1, WordClean
<1> QED  BY <1>1 DEF WordIn

(* The parser is in the j-th object, which is no string. *)
WordsHere(f, start, n, cut, j) ==
  /\ saved \in Seq(Objects) /\ f \in Text /\ saved[j] \in Objects /\ j \in Nat \ {0}
  /\ start[j] \in Nat \ {0} /\ start[j + 1] \in Nat /\ start[j] + 12 =< start[j + 1]
  /\ Typed(saved[j]) /\ saved[j].type \in {HashType, ListType}
  /\ ~(cut /\ j = n) /\ LineAt(f, start[j] + 5, CtpTag, saved[j].type)
  /\ \E pos \in [1..(Len(saved[j].vals) + 1) -> Nat] :
       WordsAt(f, start[j], start[j + 1], saved[j], pos)

LEMMA WordsBegin ==
  ASSUME TypeInv, NEW f, NEW start, NEW n, NEW cut, Laid(saved, f, start, n, cut),
         NEW j \in 1..n, saved[j].type \in {HashType, ListType}
  PROVE  WordsHere(f, start, n, cut, j)
<1>1. saved \in Seq(Objects)
  BY DEF TypeInv
<1>2. j \in 1..(n + 1) /\ j + 1 \in 1..(n + 1) /\ j \in Nat \ {0}
  BY <1>1, Placed
<1>3. start[j] \in Nat /\ 8 =< start[j] /\ start[j + 1] \in Nat
  BY <1>1, <1>2, Placed
<1>4. f \in Text /\ saved[j] \in Objects /\ Marks(saved, f, start, n, cut)
  BY <1>1, Placed
<1>5. Typed(saved[j])
  BY DEF Typed
<1>6. LineAt(f, start[j] + 5, CtpTag, saved[j].type) /\ start[j] + 12 =< start[j + 1]
  BY <1>4, <1>5 DEF Marks
<1>7. ~(cut /\ j = n)
  <2>1. SUFFICES ASSUME cut, j = n PROVE FALSE
    OBVIOUS
  <2>2. IsSmall(saved[j])
    BY <2>1 DEF Laid, CutAt
  <2>3. saved[j].type = StringType
    BY <1>4, <2>2, KindsApart
  <2> QED  BY <2>3, TypesDiffer
<1>8. ObjectAt(f, start[j], start[j + 1], saved[j])
  BY <1>7 DEF Laid
<1>9. \E pos \in [1..(Len(saved[j].vals) + 1) -> Nat] :
        WordsAt(f, start[j], start[j + 1], saved[j], pos)
  BY <1>5, <1>8, TypesDiffer DEF ObjectAt
<1>10. start[j] \in Nat \ {0}
  BY <1>3
<1> QED  BY <1>1, <1>2, <1>3, <1>4, <1>5, <1>6, <1>7, <1>9, <1>10 DEF WordsHere

LEMMA ReturnHere ==
  ASSUME NEW f \in Text, NEW q \in Nat \ {0}, NEW i \in Nat \ {0}, NEW a \in Nat,
         NEW b \in Nat, b = q + i - 1,
         b =< a, a =< Len(f), f[a] = CR, \A x \in b..(a - 1) : f[x] # CR
  PROVE  Until(From(f, q), i, CR) = a - q + 1
<1>1. PICK x \in Nat : FirstIs(f, q, i, CR, b, a, x)
  <2>1. CR \in Symbol
    BY SymbolIs
  <2>2. HasFirst(f, q, i, CR, b, a)
    BY <2>1, FirstHere
  <2> QED  BY <2>2 DEF HasFirst
<1>2. x \in b..a /\ f[x] = CR /\ Until(From(f, q), i, CR) = x - q + 1
  BY <1>1 DEF FirstIs
<1>3. ~(x \in b..(a - 1))
  BY <1>2
<1>4. x = a
  BY <1>2, <1>3
<1> QED  BY <1>2, <1>4

(* The key of a hash or a list ends with its line. *)
LEMMA KeyRead ==
  ASSUME NEW f \in Text, NEW a \in Nat \ {0}, NEW m \in Int, LineAt(f, a + 5, CtpTag, m),
         NEW key \in Text, key \in Seq(Letter), Sits(f, a + 9, key),
         NEW e \in Nat, e = a + 9 + Len(key), LineEnds(f, e)
  PROVE  LET t == From(f, a + 6)
             k == Find(t, Eol) + 2
             r == Until(t, k, CR)
         IN /\ SubSeq(t, k, r - 1) = key
            /\ From(t, r + 2) = From(f, e + 2)
<1> DEFINE q == a + 6
           t == From(f, q)
           k == Find(t, Eol) + 2
           r == Until(t, k, CR)
<1>1. f[a + 6] = Dec(m) /\ f[a + 7] = CR /\ f[a + 8] = LF
  <2>1. a + 5 + 1 = a + 6 /\ a + 5 + 2 = a + 7 /\ a + 5 + 3 = a + 8
    OBVIOUS
  <2> QED  BY <2>1 DEF LineAt
<1>2. Len(f) \in Nat /\ Len(key) \in Nat /\ f[e] = CR /\ e + 1 =< Len(f)
  BY DEF LineEnds, Text
<1>3. e >= a + 9
  BY <1>2
<1>4. Find(t, Eol) = 2
  <2>1. \A x \in q..(a + 7 - 1) : f[x] # CR
    <3>1. \A x \in q..(a + 7 - 1) : x = a + 6
      OBVIOUS
    <3> QED  BY <1>1, <3>1, MarksDiffer, SMTT(30)
  <2>2. a + 7 \in Nat /\ q =< a + 7 /\ a + 7 + 1 =< Len(f) /\ a + 7 - q + 1 = 2 /\ q \in Nat \ {0}
        /\ a + 7 + 1 = a + 8
    BY <1>2, <1>3
  <2> DEFINE b == a + 7
  <2>3. f[b] = CR /\ f[b + 1] = LF /\ b \in Nat /\ q =< b /\ b + 1 =< Len(f)
        /\ \A x \in q..(b - 1) : f[x] # CR
    BY <1>1, <2>1, <2>2
  <2> HIDE DEF q, b
  <2>4. Find(From(f, q), Eol) = b - q + 1
    BY <2>2, <2>3, EolHere
  <2> QED  BY <2>2, <2>4 DEF b
<1>5. k = 4
  BY <1>4
<1> HIDE DEF k
<1>6. r = e - q + 1
  <2>1. \A x \in (q + 4 - 1)..(e - 1) : f[x] # CR
    <3>1. ASSUME NEW x \in (q + 4 - 1)..(e - 1) PROVE f[x] # CR
      <4>1. x \in (a + 9)..(a + 9 + Len(key) - 1)
        BY <1>2
      <4>2. f[x] \in Letter
        BY <4>1, WordClean
      <4> QED  BY <4>2, MarksDiffer
    <3> QED  BY <3>1
  <2>2. q \in Nat \ {0} /\ q + 4 - 1 =< e /\ e =< Len(f)
    BY <1>2, <1>3
  <2> DEFINE i == 4
  <2>4. i \in Nat \ {0} /\ q + i - 1 =< e /\ \A x \in (q + i - 1)..(e - 1) : f[x] # CR
    BY <2>1, <2>2
  <2> HIDE DEF q, i
  <2>5. Until(From(f, q), i, CR) = e - q + 1
    <3>1. q \in Nat \ {0} /\ i \in Nat \ {0} /\ q + i - 1 =< e /\ e =< Len(f) /\ f[e] = CR
      BY <1>2, <2>2, <2>4
    <3>2. \A x \in (q + i - 1)..(e - 1) : f[x] # CR
      BY <2>4
    <3> DEFINE b == q + i - 1
    <3>3. b \in Nat /\ b =< e /\ \A x \in b..(e - 1) : f[x] # CR
      BY <3>1, <3>2
    <3>4. b = q + i - 1
      OBVIOUS
    <3> HIDE DEF b
    <3> QED  BY <3>1, <3>3, <3>4, ReturnHere
  <2>3. Until(From(f, q), 4, CR) = e - q + 1
    BY <2>5 DEF i
  <2> QED  BY <1>5, <2>3
<1> HIDE DEF r
<1>7. SubSeq(t, k, r - 1) = key
  <2>1. Len(t) = Len(f) - q + 1
    <3>1. q \in Nat \ {0} /\ q =< Len(f)
      BY <1>2, <1>3
    <3> HIDE DEF q
    <3> QED  BY <3>1, RestIs
  <2>2. r - 1 \in Int /\ r - 1 =< Len(t) /\ 4 \in Nat \ {0} /\ q \in Nat \ {0}
        /\ q + 4 - 1 = a + 9 /\ q + (r - 1) - 1 = e - 1
    <3> HIDE DEF t
    <3> QED  BY <1>2, <1>3, <1>6, <2>1
  <2>3. SubSeq(t, 4, r - 1) = SubSeq(f, q + 4 - 1, q + (r - 1) - 1)
    <3> HIDE DEF q
    <3> QED  BY <2>2, SliceOfRest
  <2>4. SubSeq(f, a + 9, a + 9 + Len(key) - 1) = key
    BY SliceIs
  <2>5. a + 9 + Len(key) - 1 = e - 1
    BY <1>2
  <2> HIDE DEF t, q
  <2> QED  BY <1>5, <2>2, <2>3, <2>4, <2>5
<1>8. From(t, r + 2) = From(f, e + 2)
  <2>1. r + 2 \in Nat \ {0} /\ q + (r + 2) - 1 = e + 2 /\ q \in Nat \ {0}
    BY <1>2, <1>3, <1>6
  <2> HIDE DEF q
  <2>2. From(From(f, q), r + 2) = From(f, q + (r + 2) - 1)
    BY <2>1, RestOfRest
  <2> QED  BY <2>1, <2>2
<1> QED  BY <1>7, <1>8 DEF r, k

LEMMA KeyStep ==
  ASSUME TypeInv, NEW f, NEW start, NEW n, NEW cut, NEW q \in Nat \ {0},
         Laid(saved, f, start, n, cut), text = From(f, q),
         AtObject(saved, start, n, db, got, q), ReadKey
  PROVE  ReadInv' /\ ComesBack' /\ EndsUnless'
<1>1. PICK j \in 1..n :
        /\ Typed(saved[j]) /\ q = start[j] + 6
        /\ got.type = saved[j].type /\ got.key = <<>> /\ got.vals = <<>>
        /\ (Clear(saved, j) => got.end = Never) /\ Recovered(saved, db, j - 1)
  BY DEF AtObject
<1>2. WordsHere(f, start, n, cut, j)
  BY <1>1, WordsBegin DEF ReadKey
<1> DEFINE o == saved[j]
           a == start[j]
           e == a + 9 + Len(o.key)
           t == From(f, a + 6)
           k == Find(t, Eol) + 2
           r == Until(t, k, CR)
<1>3. /\ f \in Text /\ o \in Objects /\ a \in Nat \ {0} /\ LineAt(f, a + 5, CtpTag, o.type)
      /\ ~(cut /\ j = n) /\ o.type \in {HashType, ListType}
  BY <1>2 DEF WordsHere
<1>4. PICK pos \in [1..(Len(o.vals) + 1) -> Nat] : WordsAt(f, a, start[j + 1], o, pos)
  BY <1>2 DEF WordsHere
<1>5. Sits(f, a + 9, o.key) /\ LineEnds(f, e) /\ pos[1] = e + 2
  BY <1>4 DEF WordsAt, LineEnds
<1>6. o.key \in Text /\ o.key \in Seq(Letter) /\ o.type \in Int /\ o.vals \in Seq(Text)
      /\ Len(o.vals) \in Nat
  BY <1>3, ObjectType
<1>7. e \in Nat
  BY <1>3, <1>6, LenIs, SMTT(30)
<1>8. SubSeq(t, k, r - 1) = o.key /\ From(t, r + 2) = From(f, e + 2)
  <2> HIDE DEF a, e, o
  <2>1. e = a + 9 + Len(o.key)
    BY DEF e
  <2> QED  BY <1>3, <1>5, <1>6, <1>7, <2>1, KeyRead
<1>9. text = t
  BY <1>1
<1> HIDE DEF t
<1>10. /\ got' = [got EXCEPT !.key = o.key,
                             !.end = IF got.type = ListType THEN Never ELSE @]
       /\ text' = From(f, e + 2)
       /\ stage' = IF got.type = HashType THEN "fields" ELSE "values"
       /\ saved' = saved /\ db' = db
  BY <1>8, <1>9 DEF ReadKey
<1> HIDE DEF k, r
<1>11. /\ got'.type = o.type /\ got'.key = o.key /\ got'.vals = <<>>
       /\ Clear(saved, j) => got'.end = Never
  <2>1. got \in [type : Int, key : Text, end : Int, vals : Seq(Text)]
    BY DEF TypeInv
  <2> HIDE DEF o
  <2>2. got.type = o.type
    BY <1>1 DEF o
  <2> QED  BY <1>1, <1>10, <2>1, <2>2
<1>12. InWords(o, pos, 0, got', pos[1])
  <2>1. SubSeq(o.vals, 1, 0) = <<>>
    BY <1>6
  <2>2. 0 + 1 = 1 /\ 0 % 2 = 0
    OBVIOUS
  <2> QED  BY <1>3, <1>11, <2>1, <2>2 DEF InWords
<1>13. AtWords(saved, f, start, n, cut, db', got', e + 2)
  <2>1. 0 \in 0..Len(o.vals)
    BY <1>6
  <2>2. Recovered(saved, db', j - 1)
    BY <1>1, <1>10
  <2>3. WordsAt(f, start[j], start[j + 1], saved[j], pos) /\ InWords(saved[j], pos, 0, got', e + 2)
    BY <1>4, <1>5, <1>12
  <2> HIDE DEF e
  <2> QED  BY <1>3, <1>11, <2>1, <2>2, <2>3 DEF AtWords
<1>14. stage' \in {"fields", "values"}
  BY <1>10
<1>15. stage' \in Stages /\ Stands(stage', saved, f, start, n, cut, db', got', e + 2)
  <2> HIDE DEF e
  <2> QED  BY <1>13, <1>14 DEF Stages, Stands
<1>16. e + 2 \in Nat \ {0}
  BY <1>7
<1> HIDE DEF e
<1> QED  BY <1>10, <1>15, <1>16, GoesOn

LEMMA SliceEmpty ==
  ASSUME NEW f \in Text, NEW a \in Nat \ {0}, NEW b \in Int, b =< Len(f)
  PROVE  SubSeq(f, a, b) \in Text /\ (SubSeq(f, a, b) = <<>> <=> b < a)
<1>1. Len(f) \in Nat
  BY DEF Text
<1>2. \A i \in a..b : f[i] \in Symbol
  <2>1. ASSUME NEW i \in a..b PROVE f[i] \in Symbol
    <3>1. i \in 1..Len(f)
      BY <1>1
    <3> QED  BY <3>1, ElementOfSeq DEF Text
  <2> QED  BY <2>1
<1>3. SubSeq(f, a, b) \in Text /\ Len(SubSeq(f, a, b)) = IF a =< b THEN b - a + 1 ELSE 0
  BY <1>2, SubSeqProperties DEF Text
<1>4. SubSeq(f, a, b) = <<>> <=> Len(SubSeq(f, a, b)) = 0
  <2> DEFINE s == SubSeq(f, a, b)
  <2>1. s \in Seq(Symbol)
    BY <1>3 DEF Text
  <2> HIDE DEF s
  <2>2. s = <<>> <=> Len(s) = 0
    BY <2>1, EmptySeq
  <2> QED  BY <2>2 DEF s
<1>5. Len(SubSeq(f, a, b)) = 0 <=> b < a
  <2> DEFINE l == Len(SubSeq(f, a, b))
  <2>1. l = IF a =< b THEN b - a + 1 ELSE 0
    BY <1>3
  <2> HIDE DEF l
  <2>2. l = 0 <=> b < a
    BY <2>1
  <2> QED  BY <2>2 DEF l
<1> QED  BY <1>3, <1>4, <1>5

LEMMA WordsWithin ==
  ASSUME NEW f \in Text, NEW a \in Nat \ {0}, NEW o \in Objects, NEW b \in Nat,
         o.type \in {HashType, ListType},
         NEW pos \in [1..(Len(o.vals) + 1) -> Nat], WordsAt(f, a, b, o, pos)
  PROVE  ClosingAt(f, b - 3) /\ WordsLie(a, b, o, pos)
  BY WordsSection, Zenon

(* The i-th word ends at z, before a colon or the end of a line. *)
NextIs(f, o, pos, i, z) ==
  /\ WordIn(f, o.vals[i], pos[i], z)
  /\ IF o.type = HashType /\ i % 2 = 1
       THEN pos[i + 1] = z + 1 /\ f[z] = Colon
       ELSE pos[i + 1] = z + 2 /\ LineEnds(f, z)

LEMMA NextWord ==
  ASSUME NEW f \in Text, NEW a \in Nat \ {0}, NEW b \in Nat, NEW o \in Objects,
         o.type \in {HashType, ListType},
         NEW pos \in [1..(Len(o.vals) + 1) -> Nat], WordsAt(f, a, b, o, pos),
         NEW i \in 1..Len(o.vals)
  PROVE  \E z \in Nat : NextIs(f, o, pos, i, z)
<1> DEFINE w == o.vals[i]
           q == pos[i]
           z == q + Len(w)
<1>1. Len(o.vals) \in Nat /\ w \in Text /\ w \in Seq(Letter) /\ Len(w) \in Nat /\ Len(f) \in Nat
      /\ i \in 1..(Len(o.vals) + 1)
  BY ObjectType, LenIs
<1>2. q \in Nat \ {0}
  <2>1. a + 11 =< pos[i] /\ pos[i] \in Nat
    <3>1. \A y \in 1..(Len(o.vals) + 1) : a + 11 =< pos[y]
      BY WordsWithin DEF WordsLie
    <3> QED  BY <1>1, <3>1
  <2> HIDE DEF w
  <2> QED  BY <2>1
<1>3. /\ Sits(f, q, w)
      /\ IF o.type = HashType /\ i % 2 = 1
           THEN pos[i + 1] = z + 1 /\ f[z] = Colon /\ z =< Len(f)
           ELSE pos[i + 1] = z + 2 /\ f[z] = CR /\ f[z + 1] = LF /\ z + 1 =< Len(f)
  BY DEF WordsAt
<1> HIDE DEF w, q
<1>4. z \in Nat /\ z =< Len(f)
  BY <1>1, <1>2, <1>3
<1>5. WordIn(f, w, q, z)
  BY <1>1, <1>2, <1>3, <1>4, WordHere
<1>6. IF o.type = HashType /\ i % 2 = 1
        THEN pos[i + 1] = z + 1 /\ f[z] = Colon
        ELSE pos[i + 1] = z + 2 /\ LineEnds(f, z)
  BY <1>3 DEF LineEnds
<1>7. NextIs(f, o, pos, i, z)
  <2> HIDE DEF z
  <2> QED  BY <1>5, <1>6 DEF NextIs, w, q
<1> HIDE DEF z
<1> QED  BY <1>4, <1>7

(* A field, up to the first colon in it or behind it, and its value. *)
FieldIs(f, q, w, v, x) ==
  LET t == From(f, q)
      c == Until(t, 1, Colon)
      s == From(t, c + 1)
      r == Find(s, Eol)
      F == SubSeq(t, 1, c - 1)
      V == SubSeq(s, 1, r - 1)
  IN /\ Find(t, Closing) # 1 /\ c # 0 /\ r # 0 /\ From(s, r + 2) = From(f, x + 2)
     /\ F \in Text /\ V \in Text
     /\ ~Has(w, Colon) => F = w /\ V = v
     /\ F = <<>> => w = <<>> \/ w[1] = Colon
     /\ V = <<>> => v = <<>>

LEMMA FieldRead ==
  ASSUME NEW f \in Text, NEW q \in Nat, NEW w, NEW z \in Nat, WordIn(f, w, q, z), f[z] = Colon,
         NEW v, NEW x \in Nat, WordIn(f, v, z + 1, x), LineEnds(f, x)
  PROVE  FieldIs(f, q, w, v, x)
<1> DEFINE t == From(f, q)
           c == Until(t, 1, Colon)
           s == From(t, c + 1)
           r == Find(s, Eol)
<1>1. /\ q \in Nat \ {0} /\ z = q + Len(w) /\ z =< Len(f) /\ Sits(f, q, w)
      /\ w \in Text /\ w \in Seq(Letter) /\ Len(w) \in Nat
      /\ \A y \in q..(z - 1) : f[y] \in Letter
  BY LenIs DEF WordIn
<1>2. /\ x = z + 1 + Len(v) /\ Sits(f, z + 1, v) /\ v \in Text /\ Len(v) \in Nat
      /\ \A y \in (z + 1)..(x - 1) : f[y] \in Letter
  BY LenIs DEF WordIn
<1>3. f[x] = CR /\ f[x + 1] = LF /\ x + 1 =< Len(f) /\ Len(f) \in Nat
  BY LenIs DEF LineEnds
<1>4. q =< z /\ z < x
  BY <1>1, <1>2
<1>5. PICK g \in Nat : FirstIs(f, q, 1, Colon, q, z, g)
  <2>1. 1 \in Nat \ {0} /\ q = q + 1 - 1 /\ Colon \in Symbol
    BY SymbolIs
  <2>2. HasFirst(f, q, 1, Colon, q, z)
    BY <1>1, <1>4, <2>1, FirstHere
  <2> QED  BY <2>2 DEF HasFirst
<1>6. g \in q..z /\ f[g] = Colon /\ c = g - q + 1 /\ \A y \in q..(g - 1) : f[y] # Colon
  BY <1>5 DEF FirstIs
<1>7. c \in Nat \ {0} /\ c + 1 \in Nat \ {0} /\ q + (c + 1) - 1 = g + 1 /\ g + 1 \in Nat \ {0}
  <2> HIDE DEF c
  <2> QED  BY <1>1, <1>6
<1>8. s = From(f, g + 1)
  <2> HIDE DEF c
  <2>1. From(From(f, q), c + 1) = From(f, q + (c + 1) - 1)
    BY <1>1, <1>7, RestOfRest
  <2> QED  BY <1>7, <2>1
<1>9. \A y \in (g + 1)..(x - 1) : f[y] # CR
  <2>1. ASSUME NEW y \in (g + 1)..(x - 1) PROVE f[y] # CR
    <3>1. y \in q..(z - 1) \/ y = z \/ y \in (z + 1)..(x - 1)
      BY <1>1, <1>4, <1>6
    <3>2. f[y] \in Letter \/ f[y] = Colon
      BY <1>1, <1>2, <3>1
    <3> QED  BY <3>2, MarksDiffer
  <2> QED  BY <2>1
<1>10. r = x - (g + 1) + 1
  <2>1. g + 1 =< x
    BY <1>1, <1>4, <1>6
  <2> DEFINE b == g + 1
  <2>2. b \in Nat \ {0} /\ b =< x /\ \A y \in b..(x - 1) : f[y] # CR
    BY <1>7, <1>9, <2>1
  <2> HIDE DEF b, c
  <2>3. Find(From(f, b), Eol) = x - b + 1
    BY <1>3, <2>2, EolHere
  <2> QED  BY <1>8, <2>3 DEF b
<1>11. Find(t, Closing) # 1
  <2>1. SUFFICES ASSUME Find(t, Closing) = 1 PROVE FALSE
    OBVIOUS
  <2>2. t \in Text
    BY <1>1, FromText
  <2>3. Sits(t, 1, Closing)
    <3> HIDE DEF t
    <3>1. /\ Find(t, Closing) # 0 => Sits(t, Find(t, Closing), Closing)
      BY <2>2, FindIn, MarksText
    <3> QED  BY <2>1, <3>1
  <2>4. Sits(f, q + 1 - 1, Closing)
    <3>1. 1 \in Nat \ {0}
      OBVIOUS
    <3> QED  BY <1>1, <2>3, <3>1, SitsRest, MarksText
  <2>5. q + 1 - 1 = q
    BY <1>1
  <2>6. f[q] = CR
    BY <1>1, <2>4, <2>5, ClosingSits DEF ClosingAt
  <2>7. f[q] \in Letter \/ f[q] = Colon
    BY <1>1, <1>4
  <2> QED  BY <2>6, <2>7, MarksDiffer
<1>12. From(s, r + 2) = From(f, x + 2)
  <2>1. r + 2 \in Nat \ {0} /\ g + 1 + (r + 2) - 1 = x + 2
    <3> HIDE DEF r
    <3> QED  BY <1>1, <1>4, <1>6, <1>10
  <2> HIDE DEF r, s, c
  <2>2. From(From(f, g + 1), r + 2) = From(f, g + 1 + (r + 2) - 1)
    BY <1>7, <2>1, RestOfRest
  <2> QED  BY <1>8, <2>1, <2>2
<1> DEFINE F == SubSeq(t, 1, c - 1)
           V == SubSeq(s, 1, r - 1)
<1>13. F = SubSeq(f, q, g - 1) /\ V = SubSeq(f, g + 1, x - 1)
  <2>1. Len(t) = Len(f) - q + 1 /\ Len(s) = Len(f) - (g + 1) + 1
    <3>1. q =< Len(f) /\ g + 1 =< Len(f)
      BY <1>1, <1>3, <1>4, <1>6
    <3> HIDE DEF s, c
    <3> QED  BY <1>1, <1>7, <1>8, <3>1, RestIs
  <2> HIDE DEF t, c, s, r
  <2>2. c - 1 \in Int /\ c - 1 =< Len(t) /\ q + 1 - 1 = q /\ q + (c - 1) - 1 = g - 1
        /\ 1 \in Nat \ {0}
    BY <1>1, <1>3, <1>4, <1>6, <2>1
  <2>3. r - 1 \in Int /\ r - 1 =< Len(s) /\ g + 1 + 1 - 1 = g + 1 /\ g + 1 + (r - 1) - 1 = x - 1
    BY <1>1, <1>3, <1>4, <1>6, <1>10, <2>1
  <2>4. SubSeq(t, 1, c - 1) = SubSeq(f, q + 1 - 1, q + (c - 1) - 1)
    BY <1>1, <2>2, SliceOfRest DEF t
  <2>5. SubSeq(From(f, g + 1), 1, r - 1) = SubSeq(f, g + 1 + 1 - 1, g + 1 + (r - 1) - 1)
    BY <1>7, <1>8, <2>2, <2>3, SliceOfRest
  <2> QED  BY <1>8, <2>2, <2>3, <2>4, <2>5
<1> HIDE DEF F, V
<1>14. /\ F \in Text /\ (F = <<>> <=> g - 1 < q)
       /\ V \in Text /\ (V = <<>> <=> x - 1 < g + 1)
  <2>1. g - 1 \in Int /\ g - 1 =< Len(f) /\ x - 1 \in Int /\ x - 1 =< Len(f)
    BY <1>1, <1>3, <1>4, <1>6
  <2> QED  BY <1>1, <1>7, <1>13, <2>1, SliceEmpty
<1>15. ASSUME ~Has(w, Colon) PROVE F = w /\ V = v
  <2>1. g = z
    <3>1. SUFFICES ASSUME g < z PROVE FALSE
      BY <1>1, <1>6
    <3>2. g - q + 1 \in 1..Len(w) /\ q + (g - q + 1) - 1 = g
      BY <1>1, <1>6, <3>1
    <3> DEFINE i == g - q + 1
    <3>3. f[g] = w[i]
      <4> HIDE DEF i
      <4> QED  BY <1>1, <3>2 DEF Sits, i
    <3>4. w[i] \in ToSet(w)
      BY <1>1, <3>2 DEF ToSet, Text
    <3> QED  BY <1>6, <1>15, <3>3, <3>4 DEF Has
  <2>2. SubSeq(f, q, q + Len(w) - 1) = w /\ SubSeq(f, z + 1, z + 1 + Len(v) - 1) = v
    BY <1>1, <1>2, SliceIs
  <2>3. q + Len(w) - 1 = g - 1 /\ z + 1 + Len(v) - 1 = x - 1
    BY <1>1, <1>2, <2>1
  <2> QED  BY <1>13, <2>1, <2>2, <2>3
<1>16. ASSUME F = <<>> PROVE w = <<>> \/ w[1] = Colon
  <2>1. g = q
    BY <1>1, <1>6, <1>14, <1>16
  <2>2. CASE Len(w) = 0
    BY <1>1, <2>2, EmptySeq DEF Text
  <2>3. CASE Len(w) # 0
    <3>1. 1 \in 1..Len(w) /\ q + 1 - 1 = q
      BY <1>1, <2>3
    <3> QED  BY <1>1, <1>6, <2>1, <3>1 DEF Sits
  <2> QED  BY <2>2, <2>3
<1>17. ASSUME V = <<>> PROVE v = <<>>
  <2>1. Len(v) = 0
    BY <1>1, <1>2, <1>4, <1>6, <1>14, <1>17
  <2> QED  BY <1>2, <2>1, EmptySeq DEF Text
<1>18. c # 0 /\ r # 0
  <2> HIDE DEF c, r
  <2> QED  BY <1>1, <1>4, <1>6, <1>7, <1>10
<1> QED  BY <1>11, <1>12, <1>14, <1>15, <1>16, <1>17, <1>18 DEF FieldIs, F, V

(* It has read p words of the j-th object. *)
Reading(f, start, n, cut, j, pos, p, q) ==
  /\ WordsHere(f, start, n, cut, j)
  /\ (Clear(saved, j) => got.end = Never) /\ Recovered(saved, db, j - 1)
  /\ pos \in [1..(Len(saved[j].vals) + 1) -> Nat] /\ p \in 0..Len(saved[j].vals)
  /\ WordsAt(f, start[j], start[j + 1], saved[j], pos) /\ InWords(saved[j], pos, p, got, q)

LEMMA ReadingNow ==
  ASSUME TypeInv, NEW f, NEW start, NEW n, NEW cut, NEW q, Laid(saved, f, start, n, cut),
         AtWords(saved, f, start, n, cut, db, got, q), stage \in {"fields", "values"}
  PROVE  \E j \in 1..n : \E pos, p :
           /\ Reading(f, start, n, cut, j, pos, p, q)
           /\ saved[j].type = IF stage = "fields" THEN HashType ELSE ListType
<1>1. PICK j \in 1..n :
        /\ ~(cut /\ j = n) /\ (Clear(saved, j) => got.end = Never) /\ Recovered(saved, db, j - 1)
        /\ \E pos \in [1..(Len(saved[j].vals) + 1) -> Nat] : \E p \in 0..Len(saved[j].vals) :
             /\ WordsAt(f, start[j], start[j + 1], saved[j], pos)
             /\ InWords(saved[j], pos, p, got, q)
  BY DEF AtWords
<1>2. PICK pos \in [1..(Len(saved[j].vals) + 1) -> Nat], p \in 0..Len(saved[j].vals) :
        WordsAt(f, start[j], start[j + 1], saved[j], pos) /\ InWords(saved[j], pos, p, got, q)
  BY <1>1
<1>3. saved[j].type = got.type
  BY <1>2 DEF InWords
<1>4. got.type = IF stage = "fields" THEN HashType ELSE ListType
  BY DEF TypeInv
<1>5. WordsHere(f, start, n, cut, j)
  BY <1>3, <1>4, WordsBegin
<1> QED  BY <1>1, <1>2, <1>3, <1>4, <1>5 DEF Reading

(* What comes back of a hash or of a list is what it is. *)
LEMMA WordsBack ==
  ASSUME NEW o \in Objects, o.type \in {HashType, ListType}
  PROVE  /\ Back(o) = o
         /\ Confined(o) => o.end = Never
         /\ Confined(o) /\ o.type = HashType =>
              \A i \in DOMAIN o.vals : o.vals[i] # <<>> /\ (i % 2 = 1 => o.vals[i][1] # Colon)
         /\ Confined(o) /\ o.type = ListType =>
              \A i \in DOMAIN o.vals : o.vals[i] # <<>> /\ ~Has(o.vals[i], Dollar)
<1>1. ~IsSmall(o) /\ ~IsMiddle(o) /\ ~IsWide(o) /\ ~IsPlain(o)
  BY KindsApart, TypesDiffer
<1>2. o.type \in StringType..ListType
  BY TypedIs DEF Typed
<1> QED  BY <1>1, <1>2, TypesDiffer DEF Back, Confined

(* A hash or a list goes into the database; what is left of it begins at r. *)
LEMMA WordsTaken ==
  ASSUME TypeInv, Distinct, NEW f, NEW start, NEW n, NEW cut, Laid(saved, f, start, n, cut),
         NEW j \in 1..n, NEW pos, NEW p, NEW q, Reading(f, start, n, cut, j, pos, p, q),
         AddObject(got), Confined(saved[j]) => p = Len(saved[j].vals),
         NEW r \in Nat \ {0}, start[j] + 5 < r, r =< start[j + 1],
         Confined(saved[j]) => \A x \in r..(start[j + 1] - 1) : ~ExpiryAt(f, x),
         text' = From(f, r)
  PROVE  ReadInv' /\ ComesBack' /\ EndsUnless'
<1> DEFINE o == saved[j]
<1>1. /\ o \in Objects /\ o.type \in {HashType, ListType} /\ Typed(o) /\ ~(cut /\ j = n)
      /\ j \in Nat \ {0} /\ Recovered(saved, db, j - 1)
      /\ (Clear(saved, j) => got.end = Never) /\ InWords(o, pos, p, got, q)
  BY DEF Reading, WordsHere
<1>2. got.type = o.type /\ got.key = o.key
  BY <1>1 DEF InWords
<1>3. Source(saved, got, j)
  BY <1>1, <1>2 DEF Source
<1>4. ASSUME Confined(o), Clear(saved, j), Described(o) PROVE got = Back(o)
  <2>1. Back(o) = o /\ o.end = Never
    BY <1>1, <1>4, WordsBack
  <2>2. o.vals \in Seq(Text) /\ Len(o.vals) \in Nat
    BY <1>1, ObjectType
  <2>3. SubSeq(o.vals, 1, Len(o.vals)) = o.vals
    BY <2>2
  <2>4. o.type = ListType => ~DollarInside(o)
    <3>1. SUFFICES ASSUME o.type = ListType, DollarInside(o) PROVE FALSE
      OBVIOUS
    <3>2. PICK i \in DOMAIN o.vals : \E k \in 2..Len(o.vals[i]) : o.vals[i][k] = Dollar
      BY <3>1 DEF DollarInside
    <3>3. ~Has(o.vals[i], Dollar)
      BY <1>1, <1>4, <3>1, <3>2, WordsBack
    <3>4. o.vals[i] \in Text
      BY <1>1, <3>2, ObjectType
    <3> DEFINE w == o.vals[i]
    <3>5. PICK k \in 2..Len(w) : w[k] = Dollar
      BY <3>2
    <3> HIDE DEF w, o
    <3>6. k \in DOMAIN w
      BY <3>4, <3>5 DEF Text, w
    <3> QED  BY <3>3, <3>5, <3>6 DEF Has, ToSet, w
  <2>5. got.vals = o.vals
    BY <1>1, <1>4, <2>3, <2>4, TypesDiffer DEF InWords
  <2>6. got.end = o.end
    BY <1>1, <1>4, <2>1
  <2>7. got \in [type : Int, key : Text, end : Int, vals : Seq(Text)]
        /\ o \in [type : Int, key : Seq(Letter), end : Int, vals : Seq(Seq(Letter))]
    BY <1>1, ObjectsAssumption DEF TypeInv
  <2> HIDE DEF o
  <2>8. got = o
    BY <1>2, <2>5, <2>6, <2>7
  <2> QED  BY <2>1, <2>8
<1> QED  BY <1>1, <1>3, <1>4, ObjectAdded

(* The fields end with the object's closing. *)
LEMMA FieldsEnd ==
  ASSUME TypeInv, Distinct, NEW f, NEW start, NEW n, NEW cut, Laid(saved, f, start, n, cut),
         NEW j \in 1..n, NEW pos, NEW p, NEW q \in Nat \ {0},
         Reading(f, start, n, cut, j, pos, p, q), p = Len(saved[j].vals), text = From(f, q),
         ReadField
  PROVE  ReadInv' /\ ComesBack' /\ EndsUnless'
<1> DEFINE o == saved[j]
           b == start[j + 1]
<1>1. /\ o \in Objects /\ o.type \in {HashType, ListType} /\ f \in Text
      /\ start[j] \in Nat \ {0} /\ b \in Nat /\ start[j] + 12 =< b
      /\ pos \in [1..(Len(o.vals) + 1) -> Nat] /\ WordsAt(f, start[j], b, o, pos)
      /\ InWords(o, pos, p, got, q)
  BY DEF Reading, WordsHere
<1>2. ClosingAt(f, b - 3) /\ pos[p + 1] = b - 3
  BY <1>1 DEF WordsAt
<1>3. q = b - 3
  BY <1>1, <1>2 DEF InWords
<1>4. Find(text, Closing) = 1
  <2> HIDE DEF b, o
  <2>1. Sits(f, q, Closing)
    BY <1>1, <1>2, <1>3, ClosingSits
  <2>2. Find(From(f, q), Closing) = q - q + 1
    <3>1. \A x \in q..(q - 1) : ~Sits(f, x, Closing)
      OBVIOUS
    <3> QED  BY <1>1, <2>1, <3>1, FoundHere, MarksText
  <2> QED  BY <2>2
<1>5. AddObject(got) /\ text' = From(f, q)
  BY <1>4 DEF ReadField
<1>6. start[j] + 5 < q /\ q =< b
  BY <1>1, <1>3
<1>7. \A x \in q..(b - 1) : ~ExpiryAt(f, x)
  <2>1. ASSUME NEW x \in q..(b - 1) PROVE f[x] # E
    <3>1. x \in (b - 3)..(b - 1)
      BY <1>3
    <3>2. x = b - 3 \/ x = b - 2 \/ x = b - 1
      BY <1>1, <3>1, SMTT(30)
    <3>3. f[b - 1] = LF /\ f[b - 2] = Dollar /\ f[b - 3] = CR
      BY <1>1, <1>2, <3>1, EndsClean
    <3> QED  BY <3>2, <3>3, MarksDiffer
  <2> QED  BY <2>1 DEF ExpiryAt
<1> HIDE DEF b
<1> QED  BY <1>5, <1>6, <1>7, WordsTaken DEF b

LEMMA FieldAfter ==
  ASSUME NEW s \in Seq(Text), NEW p \in Nat, p + 2 =< Len(s), NEW w, NEW v,
         w = s[p + 1], v = s[p + 2], p % 2 = 0,
         \A i, k \in DOMAIN s : i % 2 = 1 /\ k % 2 = 1 /\ s[i] = s[k] => i = k
  PROVE  WithField(SubSeq(s, 1, p), w, v) = SubSeq(s, 1, p + 2)
<1> DEFINE t == SubSeq(s, 1, p)
<1>1. t \in Seq(Text) /\ Len(t) = p /\ DOMAIN t = 1..p /\ \A i \in 1..p : t[i] = s[i]
  OBVIOUS
<1>2. ~\E i \in DOMAIN t : i % 2 = 1 /\ t[i] = w
  <2>1. SUFFICES ASSUME NEW i \in 1..p, i % 2 = 1, s[i] = w PROVE FALSE
    BY <1>1
  <2>2. i \in DOMAIN s /\ p + 1 \in DOMAIN s /\ (p + 1) % 2 = 1
    OBVIOUS
  <2>3. i = p + 1
    BY <2>1, <2>2
  <2> QED  BY <2>3
<1>3. WithField(t, w, v) = t \o <<w, v>>
  BY <1>2 DEF WithField
<1>4. t \o <<w, v>> = SubSeq(s, 1, p + 2)
  <2>1. w \in Text /\ v \in Text
    OBVIOUS
  <2>2. t \o <<w, v>> \in Seq(Text) /\ Len(t \o <<w, v>>) = p + 2
        /\ SubSeq(s, 1, p + 2) \in Seq(Text) /\ Len(SubSeq(s, 1, p + 2)) = p + 2
    BY <1>1, <2>1
  <2>3. \A i \in 1..(p + 2) : (t \o <<w, v>>)[i] = SubSeq(s, 1, p + 2)[i]
    BY <1>1, <2>1
  <2> HIDE DEF t
  <2> QED  BY <2>2, <2>3, SeqEqual
<1> QED  BY <1>3, <1>4

(* Where the next words of the object stand. *)
LEMMA ReadingAt ==
  ASSUME NEW f, NEW start, NEW n, NEW cut, NEW j, NEW pos, NEW p, NEW q,
         Reading(f, start, n, cut, j, pos, p, q)
  PROVE  LET o == saved[j] IN
         /\ o \in Objects /\ o.type \in {HashType, ListType} /\ f \in Text
         /\ start[j] \in Nat \ {0} /\ start[j + 1] \in Nat /\ start[j] + 12 =< start[j + 1]
         /\ p \in Nat /\ p =< Len(o.vals) /\ Len(o.vals) \in Nat /\ o.vals \in Seq(Text)
         /\ DOMAIN o.vals = 1..Len(o.vals)
         /\ pos \in [1..(Len(o.vals) + 1) -> Nat]
         /\ WordsAt(f, start[j], start[j + 1], o, pos) /\ InWords(o, pos, p, got, q) /\ q = pos[p + 1]
         /\ \A i \in 1..(Len(o.vals) + 1) :
              pos[i] \in Nat \ {0} /\ start[j] + 5 < pos[i] /\ pos[i] =< start[j + 1]
<1> DEFINE o == saved[j]
           a == start[j]
           b == start[j + 1]
<1>1. /\ o \in Objects /\ o.type \in {HashType, ListType} /\ f \in Text
      /\ a \in Nat \ {0} /\ b \in Nat /\ a + 12 =< b
      /\ pos \in [1..(Len(o.vals) + 1) -> Nat] /\ p \in 0..Len(o.vals)
      /\ WordsAt(f, a, b, o, pos) /\ InWords(o, pos, p, got, q)
  BY DEF Reading, WordsHere
<1>2. o.vals \in Seq(Text) /\ Len(o.vals) \in Nat /\ DOMAIN o.vals = 1..Len(o.vals)
  BY <1>1, ObjectType
<1> HIDE DEF o, a, b
<1>3. WordsLie(a, b, o, pos)
  BY <1>1, WordsWithin
<1>4. ASSUME NEW i \in 1..(Len(o.vals) + 1)
      PROVE  pos[i] \in Nat \ {0} /\ a + 5 < pos[i] /\ pos[i] =< b
  <2>1. a + 11 =< pos[i] /\ pos[i] =< b - 3 /\ pos[i] \in Nat
    BY <1>1, <1>3 DEF WordsLie
  <2> QED  BY <1>1, <2>1
<1>5. q = pos[p + 1]
  BY <1>1 DEF InWords
<1>6. p \in Nat /\ p =< Len(o.vals)
  BY <1>1, <1>2
<1> QED  BY <1>1, <1>2, <1>4, <1>5, <1>6 DEF o, a, b

(* The next field and its value as they are read. *)
LEMMA FieldHere ==
  ASSUME NEW f, NEW start, NEW n, NEW cut, NEW j, NEW pos, NEW p, NEW q \in Nat,
         Reading(f, start, n, cut, j, pos, p, q), saved[j].type = HashType,
         p # Len(saved[j].vals)
  PROVE  LET o == saved[j] IN
         /\ p + 2 =< Len(o.vals) /\ p % 2 = 0
         /\ \E x \in Nat : /\ pos[p + 3] = x + 2
                           /\ FieldIs(f, q, o.vals[p + 1], o.vals[p + 2], x)
<1> DEFINE o == saved[j]
           a == start[j]
           b == start[j + 1]
           m == Len(o.vals)
<1>1. /\ o \in Objects /\ o.type \in {HashType, ListType} /\ f \in Text
      /\ a \in Nat \ {0} /\ b \in Nat
      /\ p \in Nat /\ p =< m /\ m \in Nat
      /\ pos \in [1..(Len(o.vals) + 1) -> Nat]
      /\ WordsAt(f, a, b, o, pos) /\ InWords(o, pos, p, got, q) /\ q = pos[p + 1]
  BY ReadingAt
<1>2. p % 2 = 0 /\ m % 2 = 0
  <2>1. p % 2 = 0
    BY <1>1, TypesDiffer DEF InWords
  <2> QED  BY <1>1, <2>1, ObjectsAssumption
<1>3. p + 2 =< m /\ p + 1 \in 1..m /\ p + 2 \in 1..m /\ (p + 1) % 2 = 1 /\ (p + 2) % 2 = 0
  <2>1. p # m
    OBVIOUS
  <2> HIDE DEF m
  <2>2. p + 2 =< m
    BY <1>1, <1>2, <2>1
  <2> QED  BY <1>1, <1>2, <2>2
<1>4. p + 1 + 1 = p + 2 /\ p + 2 + 1 = p + 3
  BY <1>1
<1> DEFINE i == p + 1
           k == p + 2
<1>5. i \in 1..m /\ k \in 1..m /\ i % 2 = 1 /\ k % 2 # 1 /\ i + 1 = k /\ k + 1 = p + 3 /\ q = pos[i]
  BY <1>1, <1>3, <1>4
<1> HIDE DEF i, k, o, a, b
<1>6. PICK z \in Nat : WordIn(f, o.vals[i], pos[i], z) /\ pos[i + 1] = z + 1 /\ f[z] = Colon
  <2>1. \E z \in Nat : NextIs(f, o, pos, i, z)
    <3>1. pos \in [1..(Len(o.vals) + 1) -> Nat] /\ i \in 1..Len(o.vals)
      BY <1>1, <1>5
    <3> QED  BY <1>1, <3>1, NextWord, Zenon
  <2>2. o.type = HashType
    BY DEF o
  <2> QED  BY <1>5, <2>1, <2>2 DEF NextIs
<1>7. PICK x \in Nat : WordIn(f, o.vals[k], pos[k], x) /\ pos[k + 1] = x + 2 /\ LineEnds(f, x)
  <2>1. \E x \in Nat : NextIs(f, o, pos, k, x)
    <3>1. pos \in [1..(Len(o.vals) + 1) -> Nat] /\ k \in 1..Len(o.vals)
      BY <1>1, <1>5
    <3> QED  BY <1>1, <3>1, NextWord, Zenon
  <2> QED  BY <1>5, <2>1 DEF NextIs
<1>8. FieldIs(f, q, o.vals[i], o.vals[k], x)
  <2>1. WordIn(f, o.vals[i], q, z) /\ WordIn(f, o.vals[k], z + 1, x)
    BY <1>5, <1>6, <1>7
  <2> QED  BY <1>1, <1>6, <1>7, <2>1, FieldRead
<1>9. pos[p + 3] = x + 2
  BY <1>5, <1>7
<1> QED  BY <1>2, <1>3, <1>8, <1>9 DEF o, i, k

LEMMA FieldStep ==
  ASSUME TypeInv, Distinct, NEW f, NEW start, NEW n, NEW cut, NEW q \in Nat \ {0},
         Laid(saved, f, start, n, cut), text = From(f, q),
         AtWords(saved, f, start, n, cut, db, got, q), ReadField
  PROVE  ReadInv' /\ ComesBack' /\ EndsUnless'
<1>1. stage = "fields"
  BY DEF ReadField
<1>0. PICK j \in 1..n : \E pos, p :
        Reading(f, start, n, cut, j, pos, p, q) /\ saved[j].type = HashType
  BY <1>1, ReadingNow
<1>2. PICK pos, p : Reading(f, start, n, cut, j, pos, p, q) /\ saved[j].type = HashType
  BY <1>0
<1>3. CASE p = Len(saved[j].vals)
  BY <1>2, <1>3, FieldsEnd
<1>4. CASE p # Len(saved[j].vals)
  <2> DEFINE o == saved[j]
             w == o.vals[p + 1]
             v == o.vals[p + 2]
  <2>1. PICK x \in Nat : pos[p + 3] = x + 2 /\ FieldIs(f, q, w, v, x)
    BY <1>2, <1>4, FieldHere
  <2>2. p + 2 =< Len(o.vals) /\ p % 2 = 0
    BY <1>2, <1>4, FieldHere
  <2>3. /\ o \in Objects /\ f \in Text
        /\ start[j] \in Nat \ {0} /\ start[j + 1] \in Nat /\ start[j] + 12 =< start[j + 1]
        /\ p \in Nat /\ Len(o.vals) \in Nat /\ o.vals \in Seq(Text)
        /\ DOMAIN o.vals = 1..Len(o.vals)
        /\ pos \in [1..(Len(o.vals) + 1) -> Nat]
        /\ WordsAt(f, start[j], start[j + 1], o, pos) /\ InWords(o, pos, p, got, q)
        /\ \A i \in 1..(Len(o.vals) + 1) :
             pos[i] \in Nat \ {0} /\ start[j] + 5 < pos[i] /\ pos[i] =< start[j + 1]
    BY <1>2, ReadingAt
  <2> DEFINE t == From(f, q)
             c == Until(t, 1, Colon)
             s == From(t, c + 1)
             r == Find(s, Eol)
             F == SubSeq(t, 1, c - 1)
             V == SubSeq(s, 1, r - 1)
             y == pos[p + 3]
  <2>4. /\ Find(t, Closing) # 1 /\ c # 0 /\ r # 0 /\ From(s, r + 2) = From(f, y)
        /\ F \in Text /\ V \in Text
        /\ ~Has(w, Colon) => F = w /\ V = v
        /\ F = <<>> => w = <<>> \/ w[1] = Colon
        /\ V = <<>> => v = <<>>
    <3> HIDE DEF w, v
    <3> QED  BY <2>1 DEF FieldIs
  <2>5. /\ text' = From(f, y)
        /\ IF F = <<>> \/ V = <<>>
             THEN AddObject(got)
             ELSE /\ got' = [got EXCEPT !.vals = WithField(@, F, V)]
                  /\ UNCHANGED <<saved, stage, db>>
    BY <2>4 DEF ReadField
  <2>6. p + 3 \in 1..(Len(o.vals) + 1) /\ p + 1 \in DOMAIN o.vals /\ p + 2 \in DOMAIN o.vals
        /\ (p + 1) % 2 = 1 /\ (p + 2) % 2 = 0
    <3> DEFINE m == Len(o.vals)
    <3>1. m \in Nat /\ p \in Nat /\ p + 2 =< m /\ p % 2 = 0 /\ DOMAIN o.vals = 1..m
      BY <2>2, <2>3
    <3> HIDE DEF m, o
    <3>2. p + 3 \in 1..(m + 1) /\ p + 1 \in 1..m /\ p + 2 \in 1..m
      BY <3>1
    <3>3. (p + 1) % 2 = 1 /\ (p + 2) % 2 = 0
      BY <3>1
    <3> QED  BY <3>1, <3>2, <3>3 DEF m
  <2>7. y \in Nat \ {0} /\ start[j] + 5 < y /\ y =< start[j + 1]
    <3> HIDE DEF o
    <3> QED  BY <2>3, <2>6
  <2> HIDE DEF t, c, s, r, F, V, w, v
  <2>8. CASE F = <<>> \/ V = <<>>
    <3>1. ~Confined(o)
      <4>1. SUFFICES ASSUME Confined(o) PROVE FALSE
        OBVIOUS
      <4>2. w # <<>> /\ w[1] # Colon /\ v # <<>>
        <5>1. \A i \in DOMAIN o.vals : o.vals[i] # <<>> /\ (i % 2 = 1 => o.vals[i][1] # Colon)
          BY <1>2, <2>3, <4>1, WordsBack
        <5> QED  BY <2>6, <5>1 DEF w, v
      <4> QED  BY <2>4, <2>8, <4>2
    <3> HIDE DEF y
    <3> QED  BY <1>2, <2>5, <2>7, <2>8, <3>1, WordsTaken
  <2>9. CASE ~(F = <<>> \/ V = <<>>)
    <3>1. /\ got' = [got EXCEPT !.vals = WithField(@, F, V)]
          /\ saved' = saved /\ stage' = stage /\ db' = db
      BY <2>5, <2>9
    <3>2. /\ got'.type = got.type /\ got'.key = got.key /\ got'.end = got.end
          /\ got'.vals = WithField(got.vals, F, V)
      <4>1. got \in [type : Int, key : Text, end : Int, vals : Seq(Text)]
        BY DEF TypeInv
      <4> QED  BY <3>1, <4>1
    <3>3. ASSUME Confined(o), Described(o) PROVE got'.vals = SubSeq(o.vals, 1, p + 2)
      <4>1. got.vals = SubSeq(o.vals, 1, p)
        BY <1>2, <2>3, <3>3, TypesDiffer DEF InWords
      <4>2. ~Has(w, Colon)
        <5>1. \A i \in DOMAIN o.vals : i % 2 = 1 => ~Has(o.vals[i], Colon)
          BY <1>2, <3>3, TypesDiffer DEF Described
        <5> QED  BY <2>6, <5>1 DEF w
      <4>3. F = w /\ V = v
        BY <2>4, <4>2
      <4>4. \A i, k \in DOMAIN o.vals : i % 2 = 1 /\ k % 2 = 1 /\ o.vals[i] = o.vals[k] => i = k
        BY <1>2, <2>3, ObjectsAssumption
      <4>5. WithField(SubSeq(o.vals, 1, p), w, v) = SubSeq(o.vals, 1, p + 2)
        <5> DEFINE ws == o.vals
        <5>1. /\ ws \in Seq(Text) /\ p \in Nat /\ p + 2 =< Len(ws)
              /\ w = ws[p + 1] /\ v = ws[p + 2] /\ p % 2 = 0
              /\ \A i, k \in DOMAIN ws : i % 2 = 1 /\ k % 2 = 1 /\ ws[i] = ws[k] => i = k
          BY <2>2, <2>3, <4>4 DEF w, v
        <5> HIDE DEF ws
        <5>2. WithField(SubSeq(ws, 1, p), w, v) = SubSeq(ws, 1, p + 2)
          BY <5>1, FieldAfter
        <5> QED  BY <5>2 DEF ws
      <4> QED  BY <3>2, <4>1, <4>3, <4>5
    <3>4. InWords(o, pos, p + 2, got', y)
      <4>1. p + 2 + 1 = p + 3
        BY <2>3
      <4>2. got.type = o.type /\ got.key = o.key
        BY <2>3 DEF InWords
      <4> QED  BY <1>2, <2>6, <3>2, <3>3, <4>1, <4>2 DEF InWords
    <3>5. AtWords(saved, f, start, n, cut, db', got', y)
      <4>1. ~(cut /\ j = n) /\ (Clear(saved, j) => got'.end = Never) /\ Recovered(saved, db', j - 1)
        BY <1>2, <3>1, <3>2 DEF Reading, WordsHere
      <4>2. p + 2 \in 0..Len(o.vals)
        BY <2>2, <2>3
      <4> HIDE DEF y
      <4> QED  BY <2>3, <3>4, <4>1, <4>2 DEF AtWords
    <3>6. stage' \in Stages /\ Stands(stage', saved, f, start, n, cut, db', got', y)
      <4> HIDE DEF y
      <4> QED  BY <1>1, <3>1, <3>5 DEF Stages, Stands
    <3> HIDE DEF y
    <3> QED  BY <2>5, <2>7, <3>1, <3>6, GoesOn
  <2> QED  BY <2>8, <2>9
<1> QED  BY <1>3, <1>4

(* Where getListValues stops. *)
Stop(t) == SelectInSeq(t, LAMBDA s : s \in {CR, LF, Dollar})

LEMMA StopIn ==
  ASSUME NEW t \in Text
  PROVE  /\ Stop(t) # 0 => /\ Stop(t) \in 1..Len(t)
                           /\ t[Stop(t)] \in {CR, LF, Dollar}
                           /\ \A j \in 1..(Stop(t) - 1) : t[j] \notin {CR, LF, Dollar}
         /\ Stop(t) = 0 => \A j \in 1..Len(t) : t[j] \notin {CR, LF, Dollar}
<1> DEFINE I == {j \in 1..Len(t) : t[j] \in {CR, LF, Dollar}}
<1>1. Stop(t) = IF I # {} THEN Min(I) ELSE 0
  BY DEF Stop, SelectInSeq
<1>2. I # {} => Min(I) \in I /\ \A j \in I : Min(I) =< j
  <2> I \subseteq Nat  OBVIOUS
  <2> HIDE DEF I
  <2> QED  BY Least1
<1>3. \A j \in 1..Len(t) : j \in I <=> t[j] \in {CR, LF, Dollar}
  OBVIOUS
<1>4. \A j \in I : j \in 1..Len(t) /\ j # 0 /\ t[j] \in {CR, LF, Dollar}
  OBVIOUS
<1>5. Len(t) \in Nat
  BY DEF Text
<1> HIDE DEF I
<1>6. CASE I = {}
  BY <1>1, <1>3, <1>6
<1>7. CASE I # {}
  <2>1. \A j \in 1..(Min(I) - 1) : j \in 1..Len(t) /\ j \notin I
    BY <1>2, <1>4, <1>5, <1>7
  <2> QED  BY <1>1, <1>2, <1>3, <1>4, <1>7, <2>1
<1> QED
  BY <1>6, <1>7

(* It stops at g, between q and w. *)
StopIs(f, q, w, g) ==
  LET t == From(f, q)
      r == Stop(t)
  IN /\ g \in q..w /\ f[g] \in {CR, LF, Dollar} /\ t[r] = f[g]
     /\ SubSeq(t, 1, r - 1) = SubSeq(f, q, g - 1)
     /\ From(t, r + 2) = From(f, g + 2)

LEMMA StopHere ==
  ASSUME NEW f \in Text, NEW q \in Nat \ {0}, NEW w \in Nat, q =< w, w =< Len(f),
         f[w] \in {CR, LF, Dollar}
  PROVE  \E g \in Nat : StopIs(f, q, w, g)
<1> DEFINE t == From(f, q)
           r == Stop(t)
           g == q + r - 1
<1>1. /\ t \in Text /\ Len(t) = Len(f) - q + 1 /\ Len(f) \in Nat
      /\ \A k \in 1..Len(t) : t[k] = f[q + k - 1]
  <2>1. Len(f) \in Nat /\ q =< Len(f)
    BY LenIs
  <2> QED  BY <2>1, RestIs
<1>2. /\ r # 0 => /\ r \in 1..Len(t) /\ t[r] \in {CR, LF, Dollar}
                  /\ \A j \in 1..(r - 1) : t[j] \notin {CR, LF, Dollar}
      /\ r = 0 => \A j \in 1..Len(t) : t[j] \notin {CR, LF, Dollar}
  BY <1>1, StopIn
<1> HIDE DEF t, r
<1>3. w - q + 1 \in 1..Len(t) /\ t[w - q + 1] = f[w]
  <2>1. w - q + 1 \in 1..Len(t) /\ q + (w - q + 1) - 1 = w
    BY <1>1
  <2> QED  BY <1>1, <2>1
<1>4. r # 0 /\ r \in 1..Len(t)
  BY <1>2, <1>3
<1>5. w - q + 1 \notin 1..(r - 1)
  BY <1>2, <1>3, <1>4
<1>6. g \in q..w /\ g \in Nat
  BY <1>1, <1>3, <1>4, <1>5
<1>7. t[r] = f[g] /\ f[g] \in {CR, LF, Dollar}
  BY <1>1, <1>2, <1>4
<1>8. SubSeq(t, 1, r - 1) = SubSeq(f, q, g - 1)
  <2>1. r - 1 \in Int /\ r - 1 =< Len(t) /\ q + 1 - 1 = q /\ q + (r - 1) - 1 = g - 1
        /\ 1 \in Nat \ {0}
    BY <1>1, <1>4
  <2> HIDE DEF g
  <2>2. SubSeq(t, 1, r - 1) = SubSeq(f, q + 1 - 1, q + (r - 1) - 1)
    BY <2>1, SliceOfRest DEF t
  <2> QED  BY <2>1, <2>2
<1>9. From(t, r + 2) = From(f, g + 2)
  <2>1. r + 2 \in Nat \ {0} /\ q + (r + 2) - 1 = g + 2
    BY <1>1, <1>4
  <2> HIDE DEF g
  <2>2. From(From(f, q), r + 2) = From(f, q + (r + 2) - 1)
    BY <2>1, RestOfRest
  <2> QED  BY <2>1, <2>2 DEF t
<1> HIDE DEF g
<1> QED  BY <1>6, <1>7, <1>8, <1>9 DEF StopIs, t, r

(* The value that ends at g. *)
LEMMA ValueRead ==
  ASSUME NEW f, NEW q, NEW w, NEW g, StopIs(f, q, w, g), text = From(f, q), ReadValue
  PROVE  LET v == SubSeq(f, q, g - 1) IN
         /\ text' = IF f[g] = Dollar THEN text ELSE From(f, g + 2)
         /\ IF v = <<>> THEN AddObject(got)
                        ELSE /\ got' = [got EXCEPT !.vals = Append(@, v)]
                             /\ UNCHANGED <<saved, stage, db>>
BY DEF StopIs, ReadValue, Stop

(* It reads on, at the word behind the first p of them. *)
LEMMA WordsGoOn ==
  ASSUME NEW f, NEW start, NEW n, NEW cut, Laid(saved, f, start, n, cut), NEW j \in 1..n,
         NEW pos, NEW i, NEW q, Reading(f, start, n, cut, j, pos, i, q),
         UNCHANGED <<saved, stage, db>>, stage \in {"fields", "values"}, got'.end = got.end,
         NEW p \in 0..Len(saved[j].vals), NEW r \in Nat \ {0},
         InWords(saved[j], pos, p, got', r), text' = From(f, r)
  PROVE  ReadInv' /\ ComesBack' /\ EndsUnless'
<1>1. /\ ~(cut /\ j = n) /\ (Clear(saved, j) => got'.end = Never) /\ Recovered(saved, db', j - 1)
      /\ pos \in [1..(Len(saved[j].vals) + 1) -> Nat]
      /\ WordsAt(f, start[j], start[j + 1], saved[j], pos)
  BY DEF Reading, WordsHere
<1>2. AtWords(saved, f, start, n, cut, db', got', r)
  BY <1>1 DEF AtWords
<1>3. stage' \in Stages /\ Stands(stage', saved, f, start, n, cut, db', got', r)
  BY <1>2 DEF Stages, Stands
<1> QED  BY <1>3, GoesOn

LEMMA ValueAfter ==
  ASSUME NEW s \in Seq(Text), NEW p \in Nat, p + 1 =< Len(s)
  PROVE  Append(SubSeq(s, 1, p), s[p + 1]) = SubSeq(s, 1, p + 1)
<1> DEFINE t == SubSeq(s, 1, p)
<1>1. t \in Seq(Text) /\ Len(t) = p /\ \A i \in 1..p : t[i] = s[i]
  OBVIOUS
<1>2. s[p + 1] \in Text
  OBVIOUS
<1>3. Append(t, s[p + 1]) \in Seq(Text) /\ Len(Append(t, s[p + 1])) = p + 1
      /\ SubSeq(s, 1, p + 1) \in Seq(Text) /\ Len(SubSeq(s, 1, p + 1)) = p + 1
  BY <1>1, <1>2
<1>4. \A i \in 1..(p + 1) : Append(t, s[p + 1])[i] = SubSeq(s, 1, p + 1)[i]
  BY <1>1
<1> HIDE DEF t
<1> QED  BY <1>3, <1>4, SeqEqual DEF t

(* The values end with the object's closing. *)
LEMMA ValuesEnd ==
  ASSUME TypeInv, Distinct, NEW f, NEW start, NEW n, NEW cut, Laid(saved, f, start, n, cut),
         NEW j \in 1..n, NEW pos, NEW p, NEW q \in Nat \ {0},
         Reading(f, start, n, cut, j, pos, p, q), p = Len(saved[j].vals), text = From(f, q),
         ReadValue
  PROVE  ReadInv' /\ ComesBack' /\ EndsUnless'
<1> DEFINE o == saved[j]
           b == start[j + 1]
<1>1. /\ o \in Objects /\ o.type \in {HashType, ListType} /\ f \in Text
      /\ start[j] \in Nat \ {0} /\ b \in Nat /\ start[j] + 12 =< b
      /\ WordsAt(f, start[j], b, o, pos) /\ q = pos[p + 1]
  BY ReadingAt
<1>2. ClosingAt(f, b - 3) /\ q = b - 3
  BY <1>1 DEF WordsAt
<1>3. f[q] = CR /\ q =< Len(f)
  BY <1>1, <1>2, LenIs DEF ClosingAt
<1>4. PICK g \in Nat : StopIs(f, q, q, g)
  <2>1. q =< q /\ f[q] \in {CR, LF, Dollar}
    BY <1>3
  <2> QED  BY <1>1, <1>3, <2>1, StopHere
<1>5. g = q
  BY <1>4 DEF StopIs
<1> DEFINE v == SubSeq(f, q, g - 1)
<1>6. /\ text' = IF f[g] = Dollar THEN text ELSE From(f, g + 2)
      /\ IF v = <<>> THEN AddObject(got)
                     ELSE /\ got' = [got EXCEPT !.vals = Append(@, v)]
                          /\ UNCHANGED <<saved, stage, db>>
  BY <1>4, ValueRead
<1>7. v = <<>>
  <2>1. g - 1 < q /\ f \in Seq(Symbol) /\ g - 1 \in Int
    BY <1>1, <1>5 DEF Text
  <2> HIDE DEF b, o
  <2> QED  BY <1>1, <2>1, SubSeqEmpty
<1> DEFINE r == b - 1
<1>8. AddObject(got) /\ text' = From(f, r)
  <2>1. q + 2 = b - 1
    BY <1>1, <1>2
  <2> QED  BY <1>3, <1>5, <1>6, <1>7, <2>1, MarksDiffer
<1>9. start[j] + 5 < r /\ r =< b /\ r \in Nat \ {0}
  BY <1>1, SMTT(30)
<1>10. \A x \in r..(b - 1) : ~ExpiryAt(f, x)
  <2>1. ASSUME NEW x \in r..(b - 1) PROVE f[x] # E
    <3>1. x = b - 1 /\ x \in (b - 3)..(b - 1)
      BY <1>1
    <3>2. f[b - 1] = LF
      BY <1>1, <1>2, <3>1, EndsClean
    <3> QED  BY <3>1, <3>2, MarksDiffer
  <2> QED  BY <2>1 DEF ExpiryAt
<1> HIDE DEF b, r
<1> QED  BY <1>8, <1>9, <1>10, WordsTaken DEF b

(* The next value as it stands. *)
LEMMA ValueHere ==
  ASSUME NEW f, NEW start, NEW n, NEW cut, NEW j, NEW pos, NEW p, NEW q \in Nat \ {0},
         Reading(f, start, n, cut, j, pos, p, q), saved[j].type = ListType,
         p # Len(saved[j].vals)
  PROVE  LET o == saved[j]
             w == o.vals[p + 1]
         IN \E z, g \in Nat :
              /\ pos[p + 2] = z + 2 /\ f[z] = CR /\ WordIn(f, w, q, z) /\ StopIs(f, q, z, g)
              /\ g < z => f[g] = Dollar /\ Has(w, Dollar) /\ (q < g => DollarInside(o))
<1> DEFINE o == saved[j]
           a == start[j]
           b == start[j + 1]
           m == Len(o.vals)
           i == p + 1
<1>1. /\ o \in Objects /\ o.type \in {HashType, ListType} /\ f \in Text
      /\ a \in Nat \ {0} /\ b \in Nat
      /\ p \in Nat /\ p =< m /\ m \in Nat /\ DOMAIN o.vals = 1..m
      /\ pos \in [1..(Len(o.vals) + 1) -> Nat]
      /\ WordsAt(f, a, b, o, pos) /\ q = pos[p + 1]
  BY ReadingAt
<1>2. p # m
  OBVIOUS
<1>3. i \in 1..m /\ i + 1 = p + 2 /\ q = pos[i]
  <2> HIDE DEF m, o, a, b
  <2> QED  BY <1>1, <1>2
<1> HIDE DEF i, o, a, b
<1>4. PICK z \in Nat : NextIs(f, o, pos, i, z)
  <2>1. pos \in [1..(Len(o.vals) + 1) -> Nat] /\ i \in 1..Len(o.vals)
    BY <1>1, <1>3
  <2> QED  BY <1>1, <2>1, NextWord, Zenon
<1> DEFINE w == o.vals[i]
<1>5. WordIn(f, w, q, z) /\ pos[i + 1] = z + 2 /\ LineEnds(f, z)
  <2>1. o.type # HashType
    BY TypesDiffer DEF o
  <2> QED  BY <1>3, <1>4, <2>1 DEF NextIs
<1> HIDE DEF w
<1>6. /\ z = q + Len(w) /\ z =< Len(f) /\ Sits(f, q, w) /\ w \in Text /\ Len(w) \in Nat
      /\ \A x \in q..(z - 1) : f[x] \in Letter
  BY <1>5, LenIs DEF WordIn
<1>7. f[z] = CR
  BY <1>5 DEF LineEnds
<1>8. PICK g \in Nat : StopIs(f, q, z, g)
  <2>1. q =< z /\ f[z] \in {CR, LF, Dollar}
    BY <1>6, <1>7
  <2> QED  BY <1>1, <1>6, <2>1, StopHere
<1>9. g \in q..z /\ f[g] \in {CR, LF, Dollar}
  BY <1>8 DEF StopIs
<1>10. ASSUME g < z PROVE f[g] = Dollar /\ Has(w, Dollar) /\ (q < g => DollarInside(o))
  <2> DEFINE k == g - q + 1
  <2>1. k \in 1..Len(w) /\ q + k - 1 = g
    BY <1>6, <1>9, <1>10
  <2>2. f[g] = w[k]
    <3> HIDE DEF k
    <3> QED  BY <1>6, <2>1 DEF Sits
  <2>3. f[g] \in ToSet(w) /\ f[g] \in Letter
    <3>1. DOMAIN w = 1..Len(w)
      BY <1>6 DEF Text
    <3>2. f[g] \in ToSet(w)
      <4> HIDE DEF k
      <4> QED  BY <2>1, <2>2, <3>1 DEF ToSet
    <3> QED  BY <1>6, <1>9, <1>10, <3>2
  <2>4. f[g] # CR
    BY <2>3, MarksDiffer
  <2>5. LF \notin ToSet(w)
    <3>1. \A y \in DOMAIN o.vals : LF \notin ToSet(o.vals[y])
      BY <1>1, ObjectsAssumption DEF o
    <3> QED  BY <1>1, <1>3, <3>1 DEF w
  <2>6. f[g] = Dollar
    BY <1>9, <2>3, <2>4, <2>5
  <2>7. ASSUME q < g PROVE DollarInside(o)
    <3>1. k \in 2..Len(w)
      BY <1>9, <2>1, <2>7
    <3> HIDE DEF k
    <3>2. w[k] = Dollar
      BY <2>2, <2>6
    <3>3. i \in DOMAIN o.vals
      BY <1>1, <1>3
    <3> QED  BY <3>1, <3>2, <3>3 DEF DollarInside, w
  <2> QED  BY <2>3, <2>6, <2>7 DEF Has
<1> QED  BY <1>3, <1>5, <1>7, <1>8, <1>10 DEF o, i, w

LEMMA ValueStep ==
  ASSUME TypeInv, Distinct, NEW f, NEW start, NEW n, NEW cut, NEW q \in Nat \ {0},
         Laid(saved, f, start, n, cut), text = From(f, q),
         AtWords(saved, f, start, n, cut, db, got, q), ReadValue
  PROVE  ReadInv' /\ ComesBack' /\ EndsUnless'
<1>1. stage = "values"
  BY DEF ReadValue
<1>2. PICK j \in 1..n : \E pos, p :
        Reading(f, start, n, cut, j, pos, p, q) /\ saved[j].type = ListType
  BY <1>1, ReadingNow
<1>3. PICK pos, p : Reading(f, start, n, cut, j, pos, p, q) /\ saved[j].type = ListType
  BY <1>2
<1>4. CASE p = Len(saved[j].vals)
  BY <1>3, <1>4, ValuesEnd
<1>5. CASE p # Len(saved[j].vals)
  <2> DEFINE o == saved[j]
             w == o.vals[p + 1]
  <2>1. PICK z, g \in Nat :
              /\ pos[p + 2] = z + 2 /\ f[z] = CR /\ WordIn(f, w, q, z) /\ StopIs(f, q, z, g)
              /\ g < z => f[g] = Dollar /\ Has(w, Dollar) /\ (q < g => DollarInside(o))
    BY <1>3, <1>5, ValueHere
  <2>2. /\ o \in Objects /\ o.type \in {HashType, ListType} /\ f \in Text
        /\ p \in Nat /\ p =< Len(o.vals) /\ Len(o.vals) \in Nat /\ o.vals \in Seq(Text)
        /\ DOMAIN o.vals = 1..Len(o.vals)
        /\ InWords(o, pos, p, got, q) /\ q = pos[p + 1]
        /\ \A i \in 1..(Len(o.vals) + 1) :
             pos[i] \in Nat \ {0} /\ start[j] + 5 < pos[i] /\ pos[i] =< start[j + 1]
    BY <1>3, ReadingAt
  <2> DEFINE v == SubSeq(f, q, g - 1)
  <2>3. /\ text' = IF f[g] = Dollar THEN text ELSE From(f, g + 2)
        /\ IF v = <<>> THEN AddObject(got)
                       ELSE /\ got' = [got EXCEPT !.vals = Append(@, v)]
                            /\ UNCHANGED <<saved, stage, db>>
    BY <2>1, ValueRead
  <2>4. p + 1 \in DOMAIN o.vals /\ p + 1 \in 1..(Len(o.vals) + 1) /\ p + 2 \in 1..(Len(o.vals) + 1)
        /\ p + 1 =< Len(o.vals)
    <3> DEFINE m == Len(o.vals)
    <3>1. p # m
      BY <1>5
    <3> HIDE DEF o, w, v, m
    <3>2. p + 1 \in 1..m /\ p + 1 \in 1..(m + 1) /\ p + 2 \in 1..(m + 1) /\ p + 1 =< m
      BY <2>2, <3>1 DEF m
    <3> QED  BY <2>2, <3>2 DEF m
  <2>5. g \in q..z /\ z = q + Len(w) /\ Len(w) \in Nat /\ w \in Text /\ Sits(f, q, w)
    <3> HIDE DEF w, o, v
    <3> QED  BY <2>1, LenIs DEF StopIs, WordIn
  <2>6. Confined(o) => w # <<>> /\ ~Has(w, Dollar)
    BY <1>3, <2>2, <2>4, WordsBack
  <2>7. v = <<>> <=> g = q
    <3> HIDE DEF w, o
    <3>1. g - 1 =< Len(f) /\ g - 1 \in Int
      BY <2>1, <2>5, <2>2, LenIs DEF WordIn
    <3>2. v = <<>> <=> g - 1 < q
      BY <2>2, <3>1, SliceEmpty
    <3> QED  BY <2>5, <3>2
  <2>8. got' = [got EXCEPT !.vals = Append(@, v)] =>
          /\ got'.type = got.type /\ got'.key = got.key /\ got'.end = got.end
          /\ got'.vals = Append(got.vals, v)
    <3>1. got \in [type : Int, key : Text, end : Int, vals : Seq(Text)]
      BY DEF TypeInv
    <3> HIDE DEF v
    <3> QED  BY <3>1
  <2>9. got.type = o.type /\ got.key = o.key
    BY <2>2 DEF InWords
  <2> HIDE DEF w, v
  <2>10. CASE g < z
    <3>1. text' = From(f, q) /\ ~Confined(o)
      BY <2>1, <2>3, <2>6, <2>10
    <3>2. start[j] + 5 < q /\ q =< start[j + 1]
      BY <2>2, <2>4
    <3>3. CASE v = <<>>
      BY <1>3, <2>3, <3>1, <3>2, <3>3, WordsTaken
    <3>4. CASE v # <<>>
      <4>1. DollarInside(o)
        BY <2>1, <2>5, <2>7, <2>10, <3>4
      <4>2. InWords(o, pos, p, got', q)
        BY <1>3, <2>2, <2>3, <2>8, <2>9, <3>4, <4>1 DEF InWords
      <4>3. p \in 0..Len(o.vals)
        BY <2>2
      <4> QED  BY <1>1, <1>3, <2>3, <2>8, <3>1, <3>4, <4>2, <4>3, WordsGoOn
    <3> QED  BY <3>3, <3>4
  <2>11. CASE g = z
    <3> DEFINE y == pos[p + 2]
    <3>1. text' = From(f, y)
      BY <2>1, <2>3, <2>11, MarksDiffer
    <3>2. start[j] + 5 < y /\ y =< start[j + 1] /\ y \in Nat \ {0}
      BY <2>2, <2>4
    <3>3. v = w
      <4>1. SubSeq(f, q, q + Len(w) - 1) = w
        BY <2>2, <2>5, SliceIs
      <4> QED  BY <2>5, <2>11, <4>1 DEF v
    <3> HIDE DEF y
    <3>4. CASE v = <<>>
      BY <1>3, <2>3, <2>6, <3>1, <3>2, <3>3, <3>4, WordsTaken
    <3>5. CASE v # <<>>
      <4>1. got.vals = SubSeq(o.vals, 1, p) => got'.vals = SubSeq(o.vals, 1, p + 1)
        <5> DEFINE s == o.vals
        <5>1. s \in Seq(Text) /\ p \in Nat /\ p + 1 =< Len(s) /\ w = s[p + 1]
          BY <2>2, <2>4 DEF w
        <5> HIDE DEF s
        <5>2. Append(SubSeq(s, 1, p), w) = SubSeq(s, 1, p + 1)
          BY <5>1, ValueAfter
        <5> QED  BY <2>3, <2>8, <3>3, <3>5, <5>2 DEF s
      <4>2. InWords(o, pos, p + 1, got', y)
        <5>1. p + 1 + 1 = p + 2
          BY <2>2
        <5> QED  BY <1>3, <2>2, <2>3, <2>8, <2>9, <3>5, <4>1, <5>1, TypesDiffer DEF InWords, y
      <4>3. p + 1 \in 0..Len(o.vals)
        BY <2>2, <2>4
      <4> QED  BY <1>1, <1>3, <2>3, <2>8, <3>1, <3>2, <3>5, <4>2, <4>3, WordsGoOn
    <3> QED  BY <3>4, <3>5
  <2> QED  BY <2>5, <2>10, <2>11
<1> QED  BY <1>4, <1>5

(* Only a list with a dollar sign inside of a value grows without end. *)
LEMMA MemoryStep ==
  ASSUME TypeInv, NEW f, NEW start, NEW n, NEW cut, NEW q \in Nat \ {0},
         Laid(saved, f, start, n, cut), text = From(f, q),
         AtWords(saved, f, start, n, cut, db, got, q), OutOfMemory
  PROVE  ReadInv' /\ ComesBack' /\ EndsUnless'
<1>1. stage = "values" /\ Len(got.vals) = MemoryLimit /\ stage' = "killed" /\ saved' = saved
  BY DEF OutOfMemory
<1>2. PICK j \in 1..n : \E pos, p :
        Reading(f, start, n, cut, j, pos, p, q) /\ saved[j].type = ListType
  BY <1>1, ReadingNow
<1>3. PICK pos, p : Reading(f, start, n, cut, j, pos, p, q) /\ saved[j].type = ListType
  BY <1>2
<1> DEFINE o == saved[j]
<1>4. /\ o \in Objects /\ p \in Nat /\ p =< Len(o.vals) /\ Len(o.vals) \in Nat
      /\ o.vals \in Seq(Text) /\ InWords(o, pos, p, got, q)
  BY <1>3, ReadingAt
<1>5. DollarInside(o)
  <2>1. SUFFICES ASSUME got.vals = SubSeq(o.vals, 1, p) PROVE FALSE
    BY <1>3, <1>4, TypesDiffer DEF InWords
  <2>2. Len(got.vals) = p
    BY <1>4, <2>1
  <2>3. Len(o.vals) < MemoryLimit
    BY <1>3, <1>4, ObjectsAssumption
  <2> HIDE DEF o
  <2> QED  BY <1>1, <1>4, <2>2, <2>3, LimitsAssumption
<1>6. o \in ToSet(saved)
  <2>1. saved \in Seq(Objects) /\ j \in 1..Len(saved)
    BY <1>3, Placed DEF TypeInv
  <2> QED  BY <2>1 DEF ToSet
<1>7. EndsUnless'
  BY <1>1, <1>3, <1>5, <1>6 DEF EndsUnless, DollarInside
<1> QED  BY <1>1, <1>7 DEF ReadInv, ComesBack, Stages

-----------------------------------------------------------------------------
(* The invariant: types; what is in the file while it is written, and where *)
(* the parser is while it is read; and the two promises.                   *)
CodecInv ==
  /\ TypeInv /\ Distinct /\ WriteInv /\ ReadInv
  /\ stage = "write" => db = {}
  /\ ComesBack /\ EndsUnless

LEMMA LoadStep ==
  ASSUME TypeInv, WriteInv, db = {}, Load
  PROVE  ReadInv' /\ ComesBack' /\ EndsUnless'
<1>1. PICK f, start, n, cut :
        /\ Laid(saved, f, start, n, cut)
        /\ stage' = "time" => text' = From(f, 4)
        /\ stage' = "overrun" => ~cut /\ \A x \in 1..Len(f) : f[x] # Nul
  BY Loaded
<1>2. saved' = saved /\ db' = {} /\ (stage' = "time" \/ stage' = "overrun")
  BY DEF Load
<1>3. /\ saved \in Seq(Objects) /\ n \in 0..Len(saved) /\ n \in Nat /\ Len(saved) \in Nat
      /\ \A j \in 1..(n + 1) : start[j] \in Nat /\ 8 =< start[j]
      /\ start[1] = 8 /\ (cut => n # 0) /\ HeadOf(f)
  <2>1. saved \in Seq(Objects)
    BY DEF TypeInv
  <2>2. /\ Len(saved) \in Nat /\ n \in 0..Len(saved)
        /\ \A j \in 1..(n + 1) : start[j] \in Nat /\ 8 =< start[j]
    BY <1>1, <2>1, Placed
  <2> QED  BY <1>1, <2>1, <2>2 DEF Laid
<1>4. Recovered(saved, {}, 0)
  <2>1. \A m \in 1..0 : FALSE
    OBVIOUS
  <2>2. {} = {Back(saved[m]) : m \in 1..0}
    BY <2>1
  <2> QED  BY <2>1, <2>2 DEF Recovered
<1> DEFINE q == 4
<1>5. q \in Nat \ {0} /\ q =< start[0 + 1] /\ q < 8
  BY <1>3
<1>6. \A x \in q..(start[0 + 1] - 1) : ~ExpiryAt(f, x)
  <2>1. ASSUME NEW x \in q..(start[0 + 1] - 1) PROVE f[x] # E
    <3>1. x = 4 \/ x = 5 \/ x = 6 \/ x = 7
      BY <1>3
    <3>2. f[x] \in {IdTag, Dec(0), CR, LF}
      BY <1>3, <3>1 DEF HeadOf
    <3>3. \A m \in Int : Dec(m) # E
      BY MarksDiffer
    <3>4. IdTag # E /\ CR # E /\ LF # E
      BY MarksDiffer DEF Tags
    <3> QED  BY <3>2, <3>3, <3>4
  <2> QED  BY <2>1 DEF ExpiryAt
<1>7. Behind(saved, start, n, 0, q)
  <2>1. 0 \in 0..n
    BY <1>3
  <2>2. ASSUME NEW j \in 1..n PROVE j =< 0 <=> start[j] + 5 < q
    <3>1. start[j] \in Nat /\ 8 =< start[j]
      BY <1>3
    <3> QED  BY <3>1
  <2> HIDE DEF q
  <2> QED  BY <2>1, <2>2 DEF Behind
<1> HIDE DEF q
<1>8. Base(saved, f, start, n, cut, db', q, 0)
  <2>1. 0 < n \/ ~cut
    BY <1>3
  <2> QED  BY <1>2, <1>4, <1>5, <1>6, <1>7, <2>1 DEF Base
<1>9. CASE stage' = "overrun"
  <2>1. ASSUME NEW o \in ToSet(saved), ZeroByte(o) PROVE FALSE
    <3>1. PICK j \in DOMAIN saved : o = saved[j]
      BY <1>3, <2>1 DEF ToSet
    <3>2. n = Len(saved) /\ ~cut
      BY <1>1, <1>9 DEF Laid
    <3>3. j \in 1..n /\ j \in 1..(n + 1) /\ j + 1 \in 1..(n + 1)
      <4>1. DOMAIN saved = 1..n
        BY <1>3, <3>2
      <4>2. j \in 1..n
        BY <4>1
      <4> QED  BY <1>3, <4>2
    <3>4. ObjectAt(f, start[j], start[j + 1], o)
      BY <1>1, <3>1, <3>2, <3>3 DEF Laid
    <3>5. f \in Text /\ o \in Objects
      BY <1>1, <1>3, <3>1, <3>3, Placed
    <3>6. start[j] \in Nat \ {0} /\ start[j + 1] \in Nat
      <4>1. start[j] \in Nat /\ 8 =< start[j] /\ start[j + 1] \in Nat
        BY <1>3, <3>3
      <4> QED  BY <4>1
    <3>7. \E x \in 1..Len(f) : f[x] = Nul
      BY <2>1, <3>4, <3>5, <3>6, ZeroStands
    <3> QED  BY <1>1, <1>9, <3>7
  <2>2. \A o \in ToSet(saved) : ~ZeroByte(o)
    BY <2>1
  <2> QED  BY <1>2, <1>9, <2>2 DEF ReadInv, Stages, ComesBack, EndsUnless
<1>10. CASE stage' = "time"
  <2>1. stage' \in Stages /\ Stands(stage', saved, f, start, n, cut, db', got', q)
    <3>1. 0 \in 0..n
      BY <1>3
    <3> QED  BY <1>8, <1>10, <3>1 DEF Stages, Stands, AtTime
  <2>2. text' = From(f, q)
    BY <1>1, <1>10 DEF q
  <2> QED  BY <1>1, <1>2, <1>5, <2>1, <2>2, GoesOn
<1> QED  BY <1>2, <1>9, <1>10

(* Every step of the parser, from where it is. *)
LEMMA ReadSteps ==
  ASSUME TypeInv, Distinct, ReadInv, Read
  PROVE  /\ ReadInv' /\ ComesBack' /\ EndsUnless'
         /\ saved' = saved /\ stage # "write" /\ stage' # "write"
<1>1. stage \in Stages
  BY DEF Read, ReadEnd, HasTime, SkipExpired, ReadTime, ReadType, AtString, ReadInt, ReadRaw,
         ReadOther, ReadKey, ReadField, ReadValue, OutOfMemory, Stages
<1>2. saved' = saved /\ stage' # "write"
  <2>1. CASE ReadEnd \/ SkipExpired \/ ReadTime \/ ReadType \/ ReadKey \/ OutOfMemory
    BY <1>1, <2>1
       DEF ReadEnd, HasTime, SkipExpired, ReadTime, ReadType, ReadKey, OutOfMemory, Stages
  <2>2. CASE ReadInt \/ ReadRaw \/ ReadOther
    BY <2>2 DEF ReadInt, ReadRaw, ReadOther, ReadPlainString, AddObject
  <2>3. CASE ReadField \/ ReadValue
    BY <1>1, <2>3 DEF ReadField, ReadValue, AddObject, Stages
  <2> QED  BY <2>1, <2>2, <2>3 DEF Read
<1>3. PICK f, start, n, cut : \E q \in Nat \ {0} :
        /\ Laid(saved, f, start, n, cut) /\ text = From(f, q)
        /\ Stands(stage, saved, f, start, n, cut, db, got, q)
  BY <1>1 DEF ReadInv
<1>4. PICK q \in Nat \ {0} :
        /\ Laid(saved, f, start, n, cut) /\ text = From(f, q)
        /\ Stands(stage, saved, f, start, n, cut, db, got, q)
  BY <1>3
<1>5. CASE ReadEnd \/ SkipExpired \/ ReadTime
  <2>1. stage = "time"
    BY <1>5 DEF ReadEnd, SkipExpired, ReadTime, HasTime
  <2>2. AtTime(saved, f, start, n, cut, db, q)
    BY <1>4, <2>1 DEF Stands
  <2> QED  BY <1>2, <1>1, <1>4, <1>5, <2>2, TimeStep DEF Stages
<1>6. CASE ReadType
  <2>1. AtType(saved, start, n, cut, db, got, q)
    BY <1>4, <1>6 DEF Stands, ReadType
  <2> QED  BY <1>2, <1>1, <1>4, <1>6, <2>1, TypeStep DEF Stages
<1>7. CASE ReadInt \/ ReadRaw \/ ReadOther
  <2>1. AtObject(saved, start, n, db, got, q)
    BY <1>4, <1>7 DEF Stands, ReadInt, ReadRaw, ReadOther, AtString
  <2> QED  BY <1>2, <1>1, <1>4, <1>7, <2>1, StringStep DEF Stages
<1>8. CASE ReadKey
  <2>1. AtObject(saved, start, n, db, got, q)
    BY <1>4, <1>8 DEF Stands, ReadKey
  <2> QED  BY <1>2, <1>1, <1>4, <1>8, <2>1, KeyStep DEF Stages
<1>9. CASE ReadField \/ ReadValue \/ OutOfMemory
  <2>1. AtWords(saved, f, start, n, cut, db, got, q)
    BY <1>4, <1>9 DEF Stands, ReadField, ReadValue, OutOfMemory
  <2> QED  BY <1>2, <1>1, <1>4, <1>9, <2>1, FieldStep, ValueStep, MemoryStep DEF Stages
<1> QED  BY <1>5, <1>6, <1>7, <1>8, <1>9 DEF Read

(* What remains to be parsed is a text. *)
LEMMA RestText ==
  ASSUME TypeInv, ReadInv', Load \/ ReadRaw
  PROVE  text' \in Text
<1>1. CASE text' = text
  BY <1>1 DEF TypeInv
<1>2. CASE stage' = "time"
  <2>1. PICK f, start, n, cut : \E q \in Nat \ {0} : Laid(saved', f, start, n, cut) /\ text' = From(f, q)
    BY <1>2 DEF ReadInv, Stages
  <2>2. f \in Text
    BY <2>1 DEF Laid
  <2> QED  BY <2>1, <2>2, FromText
<1>3. text' = text \/ stage' = "time"
  BY DEF Load, ReadRaw, ReadPlainString, AddObject
<1> QED  BY <1>1, <1>2, <1>3

LEMMA CodecInvInit ==
  ASSUME CodecInit
  PROVE  CodecInv
<1>1. saved = <<>> /\ stage = "write" /\ db = {}
      /\ text = <<RedisTag>> \o Eol \o <<IdTag, Dec(0)>> \o Eol
  BY DEF CodecInit
<1>2. TypeInv
  BY TypeInvInit
<1>3. Distinct
  <2>1. \A i \in 1..Len(saved) : FALSE
    BY <1>1
  <2> QED  BY <2>1 DEF Distinct
<1>4. HeadOf(text) /\ Len(text) = 7
  <2> DEFINE a == <<RedisTag>> \o Eol
             u == <<IdTag, Dec(0)>>
             b == a \o u
             i == 1
             k == 2
             l == 4
             m == 6
  <2>1. /\ RedisTag \in Symbol /\ IdTag \in Symbol /\ Dec(0) \in Symbol
        /\ CR \in Symbol /\ LF \in Symbol
    <3>1. 0 \in Int
      OBVIOUS
    <3> QED  BY <3>1, SymbolIs
  <2>2. Eol \in Text /\ Len(Eol) = 2
    BY MarksText
  <2>3. a \in Text /\ Len(a) = 3 /\ <<RedisTag>> \in Text /\ Len(<<RedisTag>>) = 1
    <3>1. <<RedisTag>> \in Text /\ Len(<<RedisTag>>) = 1
      BY <2>1, OneText
    <3>2. a \in Text /\ Len(a) = Len(<<RedisTag>>) + Len(Eol)
      BY <2>2, <3>1, JoinedLen
    <3> HIDE DEF a
    <3> QED  BY <2>2, <3>1, <3>2
  <2>4. u \in Text /\ Len(u) = 2
    BY <2>1, TwoText
  <2>5. b \in Text /\ Len(b) = 5
    <3> HIDE DEF a, u
    <3>1. a \o u \in Text /\ Len(a \o u) = Len(a) + Len(u)
      BY <2>3, <2>4, JoinedLen
    <3> QED  BY <2>3, <2>4, <3>1
  <2>6. text = b \o Eol /\ text \in Text /\ Len(text) = 7
    <3>1. text = b \o Eol
      BY <1>1
    <3> HIDE DEF b
    <3>2. b \o Eol \in Text /\ Len(b \o Eol) = Len(b) + Len(Eol)
      BY <2>2, <2>5, JoinedLen
    <3> QED  BY <2>2, <2>5, <3>1, <3>2
  <2>7. /\ i \in Nat \ {0} /\ k \in Nat \ {0} /\ l \in Nat \ {0} /\ m \in Nat \ {0}
        /\ k = i + 1 /\ l = i + 3 /\ m = i + 5 /\ i = 1
    OBVIOUS
  <2> HIDE DEF i, k, l, m
  <2>8. Sits(text, i, b \o Eol)
    BY <2>6, <2>7 DEF Sits
  <2>9. Sits(text, i, b) /\ Sits(text, m, Eol)
    <3> HIDE DEF b
    <3> QED  BY <2>2, <2>5, <2>6, <2>7, <2>8, SitsJoined
  <2>10. Sits(text, i, a) /\ Sits(text, l, u)
    <3> HIDE DEF a, u
    <3> QED  BY <2>3, <2>4, <2>6, <2>7, <2>9, SitsJoined
  <2>11. Sits(text, i, <<RedisTag>>) /\ Sits(text, k, Eol)
    BY <2>2, <2>3, <2>6, <2>7, <2>10, SitsJoined
  <2>12. text[i] = RedisTag
    BY <2>1, <2>6, <2>7, <2>11, OneSits
  <2>13. text[k] = CR /\ text[k + 1] = LF /\ text[m] = CR /\ text[m + 1] = LF
    BY <2>1, <2>6, <2>7, <2>9, <2>11, TwoSits DEF Eol
  <2>14. text[l] = IdTag /\ text[l + 1] = Dec(0)
    BY <2>1, <2>6, <2>7, <2>10, TwoSits
  <2>15. k = 2 /\ k + 1 = 3 /\ l = 4 /\ l + 1 = 5 /\ m = 6 /\ m + 1 = 7
    BY <2>7
  <2> QED  BY <2>6, <2>7, <2>12, <2>13, <2>14, <2>15 DEF HeadOf
<1>5. \E start : Grown(saved, text, start)
  <2> DEFINE start == [i \in 1..1 |-> 8]
             m == Len(saved)
  <2>1. m = 0 /\ m + 1 = 1
    BY <1>1
  <2>2. start \in [1..1 -> Nat] /\ start[1] = 8
    OBVIOUS
  <2> HIDE DEF start, m
  <2>3. start \in [1..(m + 1) -> Nat] /\ start[1] = 8 /\ start[m + 1] = Len(text) + 1
    BY <1>4, <2>1, <2>2
  <2>4. \A j \in 1..m : FALSE
    BY <2>1
  <2>5. Grown(saved, text, start)
    BY <2>3, <2>4 DEF Grown, m
  <2> QED  BY <2>5
<1>6. ReadInv /\ ComesBack /\ EndsUnless
  BY <1>1 DEF ReadInv, Stages, ComesBack, EndsUnless
<1> QED  BY <1>1, <1>2, <1>3, <1>4, <1>5, <1>6 DEF CodecInv, WriteInv

LEMMA CodecInvStep ==
  ASSUME CodecInv, [CodecNext]_codecVars
  PROVE  CodecInv'
<1>1. /\ TypeInv /\ Distinct /\ WriteInv /\ ReadInv /\ ComesBack /\ EndsUnless
      /\ stage = "write" => db = {}
  BY DEF CodecInv
<1>2. ASSUME NEW o \in Objects, WriteObject(o) PROVE CodecInv'
  <2>1. TypeInv'
    <3>1. ~Load /\ ~ReadRaw
      <4>1. stage' = "write" /\ stage = "write"
        BY <1>2 DEF WriteObject
      <4> QED  BY <4>1 DEF Load, ReadRaw, AtString
    <3> QED  BY <1>1, <3>1, TypeInvStep
  <2>2. WriteInv' /\ Distinct'
    BY <1>1, <1>2, GrownStep
  <2>3. stage' = "write" /\ db' = db /\ stage = "write"
    BY <1>2 DEF WriteObject
  <2> QED  BY <1>1, <2>1, <2>2, <2>3 DEF CodecInv, ReadInv, Stages, ComesBack, EndsUnless
<1>3. CASE Load
  <2>1. ReadInv' /\ ComesBack' /\ EndsUnless'
    <3>1. stage = "write"
      BY <1>3 DEF Load
    <3> QED  BY <1>1, <1>3, <3>1, LoadStep
  <2>2. text' \in Text
    BY <1>1, <1>3, <2>1, RestText
  <2>3. TypeInv'
    BY <1>1, <2>2, TypeInvStep
  <2>4. saved' = saved /\ (stage' = "time" \/ stage' = "overrun")
    BY <1>3 DEF Load
  <2>5. Distinct'
    BY <1>1, <2>4 DEF Distinct
  <2> QED  BY <2>1, <2>3, <2>4, <2>5 DEF CodecInv, WriteInv
<1>4. CASE Read
  <2>1. /\ ReadInv' /\ ComesBack' /\ EndsUnless'
        /\ saved' = saved /\ stage # "write" /\ stage' # "write"
    BY <1>1, <1>4, ReadSteps
  <2>2. Load \/ ReadRaw => text' \in Text
    BY <1>1, <2>1, RestText
  <2>3. TypeInv'
    BY <1>1, <2>2, TypeInvStep
  <2>4. Distinct'
    BY <1>1, <2>1 DEF Distinct
  <2> QED  BY <2>1, <2>3, <2>4 DEF CodecInv, WriteInv
<1>5. CASE UNCHANGED codecVars
  <2>1. /\ saved' = saved /\ text' = text /\ stage' = stage /\ got' = got /\ db' = db
    BY <1>5 DEF codecVars
  <2>2. TypeInv' /\ Distinct'
    BY <1>1, <2>1 DEF TypeInv, Distinct
  <2>3. WriteInv'
    BY <1>1, <2>1 DEF WriteInv
  <2>4. ReadInv'
    BY <1>1, <2>1 DEF ReadInv
  <2>5. ComesBack' /\ EndsUnless'
    BY <1>1, <2>1 DEF ComesBack, EndsUnless
  <2> QED  BY <1>1, <2>1, <2>2, <2>3, <2>4, <2>5 DEF CodecInv
<1> QED  BY <1>2, <1>3, <1>4, <1>5 DEF CodecNext

LEMMA CodecReached == CodecSpec => []CodecInv
<1>1. CodecInit => CodecInv
  BY CodecInvInit
<1>2. CodecInv /\ [CodecNext]_codecVars => CodecInv'
  BY CodecInvStep
<1> QED  BY <1>1, <1>2, PTL DEF CodecSpec

(* Whatever rdb::save has written, what is left to parse of it is text,    *)
(* and what is recovered are strings, hashes and lists, no two of them in  *)
(* one place.                                                              *)
THEOREM CodecTypeCorrect == CodecSpec => []CodecTypeOK
<1>1. CodecInv => CodecTypeOK
  BY TypeInvTypes DEF CodecInv
<1> QED  BY <1>1, CodecReached, PTL

(* A file that is loaded gives each object back as described, unless the   *)
(* text of one before it can be taken for something else or compressed, or *)
(* its place is taken by one whose key was cut at a colon; and files of    *)
(* objects that are none of these give back those and nothing else.        *)
THEOREM CodecComesBack == CodecSpec => []ComesBack
<1>1. CodecInv => ComesBack
  BY DEF CodecInv
<1> QED  BY <1>1, CodecReached, PTL

(* recover reaches the end of a file, unless one of the numbers in it has  *)
(* the byte zero, a string in it can be compressed, a list has a dollar    *)
(* sign inside of a value, or its last object leaves an expiry, or what    *)
(* looks like one, without a type; or no number in it has the byte zero    *)
(* and getFileInfo, the file filling its pages, reads beyond them.         *)
THEOREM CodecEnds == CodecSpec => []EndsUnless
<1>1. CodecInv => EndsUnless
  BY DEF CodecInv
<1> QED  BY <1>1, CodecReached, PTL
=============================================================================
