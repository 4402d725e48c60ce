------------------------------ MODULE Snapshot ------------------------------
(***************************************************************************)
(* Persistence: cmdCb::save and rdb::save with the file operations they    *)
(* make one after the other, redisDb::getNextDb with the one static        *)
(* iterator all databases share, and the recovery of rdb::initRedis and    *)
(* recoverDb::recover, which the first request of a process starts.  The   *)
(* process may be killed between any two steps; what has been handed to    *)
(* the file system stays.                                                  *)
(*                                                                         *)
(* A database is the sequence of its objects in the order the              *)
(* unordered_map iterates over them.  An object is what the properties     *)
(* tell apart: the database it was put into, its key (type and name) and   *)
(* its expiry time.  Contents and their encoding are left out.  Operators  *)
(* named after a slip (NotRewound, RenameForgotten...) are used by no      *)
(* action; PROJECT.json substitutes them in its mutants.                   *)
(***************************************************************************)
EXTENDS Integers, Sequences, SequencesExt

CONSTANTS
  Dbs,     \* database numbers, saved in ascending order
  Keys,    \* keys; the command's type is part of a key
  Kind,    \* Kind[k]: "string", "hash", "list", "sorted" or "set"
  Uses,    \* bound: <<d, k>> if commands use key k in database d
  SetEnds, \* what the uninitialized expiry time of a set may read as
  MaxNow,  \* bound: the clock stops there
  Absent,  \* no file of that name
  None     \* no object

ASSUME SnapshotAssumption ==
  /\ Dbs \subseteq Nat
  /\ Kind \in [Keys -> {"string", "hash", "list", "sorted", "set"}]
  /\ Uses \subseteq Dbs \X Keys
  /\ SetEnds \subseteq Int
  /\ MaxNow \in Nat \ {0}

VARIABLES
  now,       \* time(NULL)
  mem,       \* the databases; empty while the process is down
  loaded,    \* 1 once the process has read the files: rc is no nullptr
  cursor,    \* the static iterator of getNextDb()
  pc,        \* "down", "serving", or the step of the running save
  at,        \* the database the save is at
  tmp,       \* entries written to the .tmp file
  names,     \* databases listed in .rdb/.redis_fileName
  file,      \* file[d]: the entries of .rdb/.db_d, or Absent
  snap,      \* history: the objects in memory when the last save began
  complete,  \* history: 1 if the last save that began ended
  quiet,     \* history: saves ended since the last change of memory
  durable,   \* history: what the last complete save made recoverable
  undefined  \* history: 1 once a dangling iterator has been used

diskVars == <<names, file>>
saveVars == <<cursor, pc, at, tmp>>
histVars == <<snap, complete, quiet, durable, undefined>>
procVars == <<now, loaded>>
vars == <<mem, diskVars, saveVars, histVars, procVars>>

NoEnd == -1

(* The expiry time of a new object.  Commands set none, but setContain has *)
(* no initializer for it.                                                  *)
NewEnds(k) == IF Kind[k] = "set" THEN SetEnds ELSE {NoEnd}

(* Of any object: recovery gives strings and hashes the one it has read.   *)
(* lsObject::setEndTime does nothing, and sorted sets are not recovered.   *)
EndsOf(k) == IF Kind[k] \in {"string", "hash"} THEN {NoEnd} \cup SetEnds
             ELSE NewEnds(k)

Object == UNION {[home : Dbs, key : {k}, end : EndsOf(k)] : k \in Keys}

(* As getNextDb and recover see it: 0 and below is no expiry time. *)
Expired(o) == 0 < o.end /\ o.end < now

(* As hget sees it: only -1 is none. *)
ExpiredForHget(o) == o.end # NoEnd /\ o.end < now

ASSUME AbsentIsNoFile == Absent \notin Seq(Object)

(* The entries rdb::save gives a "ctp:" tag and contents. *)
Tagged(o) == Kind[o.key] \in {"string", "hash", "list"}

InMemory == UNION {ToSet(mem[d]) : d \in Dbs}

-----------------------------------------------------------------------------
(* Iterators *)

Unset == [state |-> "unset", obj |-> None]
End == [state |-> "end", obj |-> None]
Node(o) == [state |-> "node", obj |-> o]
Freed(o) == [state |-> "freed", obj |-> o]

Begin(s) == IF s = <<>> THEN End ELSE Node(s[1])

(* The iterator one past the object o of s. *)
After(s, o) ==
  IF o = s[Len(s)] THEN End
  ELSE Node(s[CHOOSE i \in 2..Len(s) : s[i - 1] = o])

(* A new node goes in front of another one: of the first node of its       *)
(* bucket, or of the whole list.                                           *)
Places(s) == IF s = <<>> THEN {1} ELSE 1..Len(s)

(* What erasing the object o leaves of an iterator. *)
CursorErased(o) == IF cursor = Node(o) THEN Freed(o) ELSE cursor

-----------------------------------------------------------------------------
(* Recovery of one file.  The parser takes the next "e:", stops if it is   *)
(* zero, and goes on to the next "ctp:" wherever that is; the entries it   *)
(* passes over are lost.  So an entry with contents comes back with the    *)
(* expiry time of the first entry since the last one with contents, its    *)
(* head, and not at all if the head has expired.                           *)

Heads(f) == {i \in DOMAIN f : i = 1 \/ Tagged(f[i - 1])}

Reached(f, i) == \A h \in Heads(f) : h =< i => f[h].end # 0

(* A head and the entry with contents that is read with it. *)
Groups(f) ==
  {g \in Heads(f) \X DOMAIN f :
     /\ g[1] =< g[2] /\ Tagged(f[g[2]])
     /\ \A j \in g[1]..(g[2] - 1) : ~Tagged(f[j])}

ReadGroups(f) == {g \in Groups(f) : Reached(f, g[1]) /\ ~Expired(f[g[1]])}

(* Of two entries under one key the first is inserted. *)
Inserted(f) ==
  {g \in ReadGroups(f) :
     \A e \in ReadGroups(f) : e[2] < g[2] => f[e[2]].key # f[g[2]].key}

EndRead(f, g) == IF Kind[f[g[2]].key] = "list" THEN NoEnd ELSE f[g[1]].end

(* With no "ctp:" left the parser fails an assertion, unless it ends at a  *)
(* zero first; of the entries left it skips those that have expired.       *)
Trailing(f) == {j \in DOMAIN f : \A k \in j..Len(f) : ~Tagged(f[k])}

Aborts(f) ==
  \E j \in Trailing(f) :
    /\ Reached(f, j) /\ f[j].end # 0 /\ ~Expired(f[j])
    /\ \A k \in Trailing(f) : k < j => Expired(f[k])

(* initRedis gives up at the first listed file that is missing. *)
Loads == {d \in names : \A e \in names : e =< d => file[e] # Absent}

Restored(d) ==
  IF d \in Loads
    THEN {[home |-> d, key |-> file[d][g[2]].key, end |-> EndRead(file[d], g)]
            : g \in Inserted(file[d])}
    ELSE {}

Recoverable == UNION {Restored(d) : d \in Dbs}

RecoveryAborts == \E d \in Loads : Aborts(file[d])

(* The iteration orders a database can have after the objects of its file  *)
(* were inserted one by one: the first to come stays last.                 *)
Orders(d) ==
  {s \in SetToSeqs(Restored(d)) :
     s = <<>> \/ \E g \in ReadGroups(file[d]) :
                    /\ \A e \in ReadGroups(file[d]) : g[2] =< e[2]
                    /\ Last(s).key = file[d][g[2]].key}

-----------------------------------------------------------------------------
Init ==
  /\ now = 1
  /\ mem = [d \in Dbs |-> <<>>]
  /\ loaded = 0
  /\ cursor = Unset
  /\ pc = "serving"
  /\ at = 0
  /\ tmp = <<>>
  /\ names = {}
  /\ file = [d \in Dbs |-> Absent]
  /\ snap = {} /\ complete = 0 /\ quiet = 0 /\ durable = {} /\ undefined = 0

-----------------------------------------------------------------------------
(* Commands *)

Unchecked(d, k) == TRUE

Missing(d, k) == \A i \in DOMAIN mem[d] : mem[d][i].key # k

(* A command makes a new object: set, hset, lpush, zadd, sadd. *)
Put(d, k) ==
  /\ pc = "serving"
  /\ loaded = 1
  /\ <<d, k>> \in Uses
  /\ Missing(d, k)
  /\ \E end \in NewEnds(k), i \in Places(mem[d]) :
       mem' = [mem EXCEPT ![d] =
                 InsertAt(@, i, [home |-> d, key |-> k, end |-> end])]
  /\ quiet' = 0
  /\ UNCHANGED <<diskVars, saveVars, snap, complete, durable, undefined,
                 procVars>>

(* A command erases an object, and the shared iterator does not move on.   *)
Erase(d, i) ==
  /\ mem' = [mem EXCEPT ![d] = RemoveAt(@, i)]
  /\ cursor' = CursorErased(mem[d][i])
  /\ durable' = {o \in durable : o.key # mem[d][i].key}

(* lpop finds an emptied list, or hget an expired hash, and erases it. *)
Drop(d, k) ==
  /\ pc = "serving"
  /\ \E i \in DOMAIN mem[d] :
       /\ mem[d][i].key = k
       /\ \/ Kind[k] = "list"
          \/ Kind[k] = "hash" /\ ExpiredForHget(mem[d][i])
       /\ Erase(d, i)
  /\ quiet' = 0
  /\ UNCHANGED <<diskVars, pc, at, tmp, snap, complete, undefined, procVars>>

-----------------------------------------------------------------------------
(* A save: the commands save and bgsave, or the timer's backup *)

NotTruncated == names

(* The list of file names is opened with ios::trunc. *)
Truncated == {}

BeginSave ==
  /\ pc = "serving"
  /\ pc' = "next"
  /\ at' = 0
  /\ names' = Truncated
  /\ snap' = InMemory
  /\ complete' = 0
  /\ UNCHANGED <<mem, cursor, tmp, file, quiet, durable, undefined, procVars>>

ToSave == {d \in Dbs : d >= at /\ mem[d] # <<>>}

(* The next database that is not empty: its name is written, its .tmp file *)
(* opened.  If that fails the save returns, the name remains.              *)
SaveNext ==
  /\ pc = "next"
  /\ \E d \in ToSave :
       /\ \A e \in ToSave : d =< e
       /\ at' = d
       /\ names' = names \cup {d}
  /\ \/ /\ pc' = "walk"
        /\ tmp' = <<>>
        /\ UNCHANGED quiet
     \/ /\ pc' = "serving"
        /\ quiet' = 0
        /\ UNCHANGED tmp
  /\ UNCHANGED <<mem, cursor, file, snap, complete, durable, undefined,
                 procVars>>

EndSave ==
  /\ pc = "next"
  /\ ToSave = {}
  /\ pc' = "serving"
  /\ complete' = 1
  /\ durable' = IF loaded = 1 THEN Recoverable ELSE durable
  /\ quiet' = IF quiet < 2 THEN quiet + 1 ELSE quiet
  /\ UNCHANGED <<mem, cursor, at, tmp, diskVars, snap, undefined, procVars>>

-----------------------------------------------------------------------------
(* getNextDb, one call at a time *)

(* The iterator is initialized by the first call of all. *)
Here == IF cursor = Unset THEN Begin(mem[at]) ELSE cursor

NotRewound == End

(* What a walk that reached the end leaves in the iterator. *)
Rewound == Begin(mem[at])

WalkObject ==
  /\ pc = "walk"
  /\ Here.state = "node"
  /\ ~Expired(Here.obj)
  /\ tmp' = Append(tmp, Here.obj)
  /\ cursor' = After(mem[Here.obj.home], Here.obj)
  /\ UNCHANGED <<mem, pc, at, diskVars, histVars, procVars>>

WalkEnd ==
  /\ pc = "walk"
  /\ Here.state = "end"
  /\ cursor' = Rewound
  /\ pc' = "remove"
  /\ UNCHANGED <<mem, at, tmp, diskVars, histVars, procVars>>

AdvancedLate(o) == Freed(o)

(* The iterator moves on before the expired object is erased. *)
Advanced(o) == After(mem[o.home], o)

(* An object that has expired is erased, and the walk takes the null that  *)
(* is returned for the end.                                                *)
WalkExpired ==
  /\ pc = "walk"
  /\ Here.state = "node"
  /\ Expired(Here.obj)
  /\ Here.obj.home = at
  /\ cursor' = Advanced(Here.obj)
  /\ \E i \in DOMAIN mem[at] :
       /\ mem[at][i] = Here.obj
       /\ mem' = [mem EXCEPT ![at] = RemoveAt(@, i)]
  /\ pc' = "remove"
  /\ quiet' = -1
  /\ UNCHANGED <<at, tmp, diskVars, snap, complete, durable, undefined,
                 procVars>>

(* A dangling iterator.  The freed node may still read as the erased       *)
(* object, and its link as the end or as any node that took its memory.    *)
WalkFreed ==
  /\ pc = "walk"
  /\ Here.state = "freed"
  /\ tmp' \in {tmp, Append(tmp, Here.obj)}
  /\ cursor' \in {End} \cup {Node(o) : o \in InMemory}
  /\ undefined' = 1
  /\ UNCHANGED <<mem, pc, at, diskVars, snap, complete, quiet, durable,
                 procVars>>

-----------------------------------------------------------------------------
(* remove(fileName), rename(tmp, fileName) *)

RemoveOld ==
  /\ pc = "remove"
  /\ file' = [file EXCEPT ![at] = Absent]
  /\ pc' = "rename"
  /\ UNCHANGED <<mem, cursor, at, tmp, names, histVars, procVars>>

RenameForgotten == file

Renamed == [file EXCEPT ![at] = tmp]

RenameTmp ==
  /\ pc = "rename"
  /\ file' = Renamed
  /\ pc' = "next"
  /\ at' = at + 1
  /\ UNCHANGED <<mem, cursor, tmp, names, histVars, procVars>>

-----------------------------------------------------------------------------
(* Crashes and restarts *)

(* The process is killed, or dies erasing an expired object of another     *)
(* database, reading freed memory, or failing the parser's assertion.      *)
Crash ==
  /\ pc # "down"
  /\ pc' = "down"
  /\ mem' = [d \in Dbs |-> <<>>]
  /\ loaded' = 0
  /\ cursor' = Unset
  /\ at' = 0 /\ tmp' = <<>>
  /\ quiet' = 0
  /\ UNCHANGED <<diskVars, snap, complete, durable, undefined, now>>

Start ==
  /\ pc = "down"
  /\ pc' = "serving"
  /\ UNCHANGED <<mem, cursor, at, tmp, diskVars, histVars, procVars>>

(* The first request: initRedis, before the request itself.  Backups of    *)
(* the timer may have come before, of databases that are still empty.      *)
Recover ==
  /\ pc = "serving"
  /\ loaded = 0
  /\ ~RecoveryAborts
  /\ loaded' = 1
  /\ mem' \in [Dbs -> UNION {Orders(d) : d \in Dbs}]
  /\ \A d \in Dbs : mem'[d] \in Orders(d)
  /\ quiet' = 0
  /\ UNCHANGED <<diskVars, saveVars, snap, complete, durable, undefined, now>>

Tick ==
  /\ now < MaxNow
  /\ now' = now + 1
  /\ UNCHANGED <<mem, diskVars, saveVars, histVars, loaded>>

Next ==
  \/ \E d \in Dbs, k \in Keys : Put(d, k) \/ Drop(d, k)
  \/ BeginSave \/ SaveNext \/ EndSave
  \/ WalkObject \/ WalkEnd \/ WalkExpired \/ WalkFreed
  \/ RemoveOld \/ RenameTmp
  \/ Crash \/ Start \/ Recover \/ Tick

Spec == Init /\ [][Next]_vars

-----------------------------------------------------------------------------
(* Properties *)

(* Types, with no two objects of a database under one key. *)
TypeOK ==
  /\ now \in 1..MaxNow
  /\ loaded \in {0, 1}
  /\ mem \in [Dbs -> Seq(Object)]
  /\ \A d \in Dbs : \A i, j \in DOMAIN mem[d] :
       i # j => mem[d][i].key # mem[d][j].key
  /\ cursor \in [state : {"unset", "end", "node", "freed"},
                 obj : Object \cup {None}]
  /\ pc \in {"down", "serving", "next", "walk", "remove", "rename"}
  /\ at \in Nat
  /\ tmp \in Seq(Object)
  /\ names \subseteq Dbs
  /\ file \in [Dbs -> Seq(Object) \cup {Absent}]
  /\ snap \subseteq Object
  /\ complete \in {0, 1}
  /\ quiet \in -1..2
  /\ durable \subseteq Object
  /\ undefined \in {0, 1}

(* After a save that ended, the list names files that are all there, so    *)
(* that recovery does not stop half way.                                   *)
ListedFilesExist == complete = 1 => \A d \in names : file[d] # Absent

(* After a save that ended, what the listed files hold was in memory when  *)
(* that save began: nothing erased before it comes back.                   *)
NothingResurrected ==
  complete = 1 /\ undefined = 0 =>
    \A d \in names : file[d] # Absent => ToSet(file[d]) \subseteq snap

(* The iterator that is shared by the databases and kept between saves     *)
(* puts objects into wrong files and misses others.  Still, after two      *)
(* saves with no change to memory every object with contents is in some    *)
(* file, and stays there through all further saves, except for the moment  *)
(* between remove and rename, when it is in the temporary file.            *)
QuietMemoryOnDisk ==
  quiet = 2 =>
    \A o \in InMemory : Tagged(o) =>
      \/ \E d \in Dbs : file[d] # Absent /\ o \in ToSet(file[d])
      \/ pc = "rename" /\ o \in ToSet(tmp)

(* Only two erasures can leave the iterator dangling: of an emptied list   *)
(* by lpop, and by hget of a hash that a restart gave the expiry time of   *)
(* some set.  Expired objects that a walk erases, other databases, failed  *)
(* saves and restarts do not.                                              *)
CursorLive ==
  /\ cursor.state = "freed" =>
       \/ Kind[cursor.obj.key] = "list"
       \/ Kind[cursor.obj.key] = "hash" /\ cursor.obj.end # NoEnd
  /\ cursor.state = "node" => cursor.obj \in InMemory

(* README: snapshots keep data from being lost.  What has expired may go.  *)
DurableSurvives ==
  pc = "down" => \A o \in durable : Expired(o) \/ o \in Recoverable
=============================================================================
