# A verification of MyCacheDb in TLA+

MyCacheDb is a cache database: one server thread with an epoll loop, client
timers, commands on sixteen in-memory databases, snapshots to files, and a log
that a thread pool writes; and a client library. This directory holds TLA+
modules of its parts, the TLC configurations that check small instances of
them, and TLAPS proofs of the properties that matter most. Every definition is
translated from the code; `PROJECT.json` (`map`) names the lines.

## Inventory

| part (src/server unless said) | state | operations | with whom it interacts | what is hard | correct if |
|---|---|---|---|---|---|
| event loop: `aeEventloop`, `aeEvent`, `aeEpoll`, `aeSocket` | `eventData`, epoll set, descriptor table, the batch of ready events | accept, read a request, end of file, read error, kick, backup notification | calls the timers, the commands and the backups; the kernel reports events | tables that must agree, descriptor reuse, requests that arrive between the return of `epoll_wait` and a kick | no descriptor ever stands for somebody else; a request is read if it is there when `epoll_wait` returns; nobody who is active is kicked |
| client timers: `TimerManager`, `MyTimer` | binary heap, index in every timer | start, renew, detect | started by accept, renewed after every event, detected on an `epoll_wait` timeout | two removals by index, iteration over a vector that changes, a loop that ends only on an empty heap | behaves as a set of timers; detect returns |
| timed backups: `saveTimerHandle` | timerfds, change counts, `canSave` | expiry, test for a save handle | events of the loop, `cmdSet::backUp` | descriptors compared with seconds, counts never counted | a modified database is saved in the end |
| commands: `cmdSet`, `cmdCb`, `redisDb`, `dbObject` | keyspace | set/get, hset/hget, lpush/lpop/blpop, zadd/zrange, sadd/spop, save, bgsave | called by the loop; record to the log | one key for objects of five types, partial failure of hset, emptied lists, functions that end without a value | the typed objects are a store in which a key has a value of each type, lists are queues, an OK means that all was written |
| snapshots: `cmdCb::save`, `rdb::save`, `redisDb::getNextDb` | files `.db_N` and the list of their names, one static iterator | truncate, walk, remove, rename | reads the keyspace, erases what has expired | crashes between file operations, an iterator kept across saves and shared by the databases, commands that erase under it | what was saved is on disk, in its own file, until it is saved again |
| recovery: `rdb::initRedis`, `recoverDb` | keyspace | read the list, parse each file | once, at the first request | entries that have an expiry and nothing else, missing files, a timed backup that comes before | restores what was saved |
| log: `aofRecord`, `threadPool` | task queue, flag, condition variable, threads | commit, run, destroy | commands commit; the pool is destroyed at exit | lost wakeups, shutdown | each record is written once |
| eviction: `lru` | search tree | statistic, getDelKey | `redisDb::append` | never runs (it does not compile as written) | - |
| sorted sets: `rbTree` | red-black tree | insert, ranges; delete, which nothing calls | sorted-set objects | rotations, a repair that is not mirrored, equal scores | ranges find what was added; the repair stays in the tree and ends |
| encoding: `rdb::processString`, `processHash`, `processList`; `recoverDb` | the text of a file, what is parsed of it | encode, decode | snapshots, recovery | widths and lengths at boundaries, values that contain what the parser looks for, bytes that no command determines (compressed values, a mapping without an end) | an object comes back as it was, or as is known; damage is confined; the parser ends |
| framing: `aeEvent::processRead`, `rpc::response`; `request::sendAfterSerial`, `rpc::getResponse` | the streams of a connection | send a frame, read once | the interactive client and the server | TCP delivers frames in pieces | client and server stay in step; the prompt returns |
| interactive client (src/client): `clientLoop::start` | one socket | type, send, reconnect, print the reply | the server | a lost connection, a refused reconnection, a reply that is somebody else's | each command is executed once; its reply is the one that is printed |
| client (src/client): `clientLoop`, `request`, `rpc`, `syncQueue` | queue of request numbers, map of replies, sockets and their epoll set, a thread pool | send, reconnect, wait for a result, read a reply | the server | one-shot epoll and several readers, retries, replies without numbers | a socket has one reader and never becomes deaf; a request is executed once; each request gets its own reply |
| generated or vendored: `msg.pb`, `easylog`, `lzf` | | | | | left aside |

The hazards found while reading are in `PROJECT.json`, each with its line and
the properties that watch it.

## Modules

| module | models | status |
|---|---|---|
| `EventLoop` | event loop, connections, client timers as a set, timed backups, the `canSave` gate | done |
| `EventLoopProofs` | theorems about `EventLoop` | done |
| `Snapshot` | snapshots, the shared iterator, crashes, recovery | done |
| `SnapshotProofs` | theorems about `Snapshot` and `RdbCodec` | done |
| `ThreadPool` | thread pool of the log | done |
| `ThreadPoolProofs` | theorems about `ThreadPool` | done |
| `TimerQueue` | abstract: what the client timers promise | done |
| `TimerHeap` | the heap swap by swap; implements `TimerQueue` | done |
| `TimerHeapProofs` | theorems about `TimerHeap` | done |
| `ScoreSet` | abstract: what a sorted set promises | done |
| `ScoreTree` | the red-black tree, one turn of its repair at a time; implements `ScoreSet` | done |
| `ScoreTreeProofs` | theorems about `ScoreTree` | done |
| `ClientRpc` | asynchronous client, its sockets and readers, and the server it talks to | done |
| `ClientRpcProofs` | theorems about `ClientRpc` | done |
| `Contents` | what requests and answers carry; shared by the next two | done |
| `Store` | abstract: what the commands on values promise | done |
| `KeyStore` | the map of typed objects and the commands on it; implements `Store` | done |
| `KeyStoreProofs` | theorems about `KeyStore` | done |
| `RdbCodec` | the text of a snapshot file, as it is written and as it is parsed | done |
| `Terminal` | interactive client, its connection and the frames on it, the server that reads them | done |
| `TerminalProofs` | theorems about `Terminal` | done |

`MCEventLoop`, `MCSnapshot`, `MCThreadPool`, `MCTimerHeap`, `MCScoreTree`,
`MCClientRpc`, `MCKeyStore`, `MCRdbCodec` and `MCTerminal` instantiate them for TLC. Some operators have
variants named after a slip (`ForgetNoDel`, `NotPopped`, ...). No action uses them; `PROJECT.json` (`mutants`) puts them in
place of the operator to show that a property notices.

### EventLoop

One thread runs `aeEventloop::start`. `pc` is where it is: in `epoll_wait`
(`"wait"`), in the middle of a batch of ready descriptors (`"batch"`), blocked
in a write to a full socketpair, or spinning in `detect_timers`. One action
handles one descriptor of the batch, whole: `Accept`, `AcceptFails`,
`ReadRequest`, `ReadEof`, `ReadError`, `SaveHandle`, `OtherFd`,
`BgsaveBlocks`; `Poll`, `EndBatch`, `Timeout` and `Detect` move the loop. The clients
(`Connect`, `Send`, `HangUp`), the clock (`Tick`) and the end of a forked child
(`Interrupt`) move at any time, in the middle of a batch too, and between the return
of `epoll_wait` with nothing (`Timeout`) and the kicks (`Detect`).

A request that arrives there is lost: `detect_timers` does not look at the sockets
again before it closes them. So what is promised of requests is promised of those
that were there when `epoll_wait` returned; `unread` remembers whose they were.
`KickOnlyIdle` says that a kicked client was idle for its whole slot up to that
moment, and had then no request waiting; `RequestsServed` that such a request is
read, whatever its client does next.

The kernel's side is modelled by what the code relies on: the smallest free
descriptor is returned by `accept`, epoll is level-triggered, a closed
descriptor leaves the epoll set. Some details of the code that the actions keep:

- end of file removes the event from epoll and `eventData`, but neither closes
  the descriptor nor removes its timer (`Forget`); `kickClient` does nothing
  for such a timer later, so the descriptor leaks;
- after `accept` the code goes on to `processRead` on the listening event,
  whose `connFd` was never set. The read may return 0, and then the listening
  socket itself is unregistered and destroyed: the second disjunct of `Accept`;
- `isSaveHandle` compares descriptors with seconds, so a client's descriptor
  may be taken for a timerfd (`SaveHandle`); a real timerfd is never read;
- `bgsave` forks, the child exits at once and the parent saves, in the loop's
  thread, and writes to a socketpair that nobody polls. When its buffer is full
  the server stops (`BgsaveBlocks`). The safety run lets this happen
  (`PairCap = 1`) and the properties hold in that state too.

Times are relative and saturate: a timer has `left` ticks, the loop has
`waited` ticks. The comparisons of the code do not change by that, and no bound
on the clock is needed. Since `Tick` is always possible, a check for deadlock would
say nothing of this module; that the loop itself goes on is the liveness
run's business. The clock is taken to be monotone; a `gettimeofday`
that is set back would let `detect_timers` spin.

### Snapshot

A database is the sequence of its objects in the iteration order of the
`unordered_map`; an insertion goes to a place before an existing node (the first
node of a bucket, or the head of the list). `getNextDb` has one function-local
static iterator: the variable `cursor`, with the states not yet initialized, at
the end, at a node, at a freed node. `mem` belongs to all databases; the walk of
database `at` follows the cursor wherever it is. One action is one call of
`getNextDb` with the writing of its object, or one file operation, and `Crash`
may come between any two. A file handed to the kernel survives; power failures
are not modelled.

`Start` only starts the process. The files are read at its first request (main.cpp:13),
which is `Recover`; a timed backup may come before, saves databases that are
still empty, and truncates the list. Recovery takes the next `e:` and then the next
`ctp:`, so that an entry with contents comes back with the expiry of the first entry
behind the last one with contents (its head, `Groups`), and not at all when that one
has expired. `Restored` says which objects come back and with which expiry,
`Aborts` when the parser's assertion ends the process.

An object is its database, its key and its expiry; the values are left out. The kinds
of keys are what matters to the code: strings and hashes (saved; after a
restart with the expiry of their head), lists (saved, never with an
expiry), sorted sets (not saved, but for an expiry without contents) and sets (the same, with
an expiry that is never initialized: `SetEnds`). `now` is the clock, and `Expired` what the
walk and the parser make of it; `hget` tests for -1 only (`ExpiredForHget`). Three
places erase objects: the walk, which moves the iterator on first (`WalkExpired`);
`lpop`, when it finds an empty list; and `hget`, when it finds a hash that has expired.
The latter two are `Drop` and leave the iterator where it was. An erased object
under the iterator makes it `"freed"`, and using that is undefined behaviour: `WalkFreed` lets it
read the old object or not and continue anywhere. The hash function and the
rehashing of the map are left out.

So two erasures may leave the iterator dangling, and `CursorLive` says that no other
does. The one by `hget` takes a long way: a set is put before a hash and saved with it,
the process restarts, the hash comes back with whatever the set's expiry read as, the iterator stops
at it when a save fails, its time passes, and somebody asks for a field. With a
positive expiry a walk may get there first; a negative one is none for the walk.

Because the iterator is shared and survives, a save may begin with the objects of
another database: they are written into this one's file, although README:25 of
the repository says that each database has its own. That is why
`NothingResurrected` and `QuietMemoryOnDisk` speak of all files together.

### RdbCodec

`WrittenAs` is what `rdb::save` writes for an object, `Load` the mapping of the file
into a string that ends at the first zero byte (the rest of its last page, if no other;
a file of whole pages has none, and may be read beyond its end: `"overrun"`), and the
other actions are the functions of `recoverDb`, one call of the parser each: the next expiry, the next
type tag, a string, a key, a field, a list's value. A text is a sequence of
symbols: the characters the parser looks for, numbers in decimals, the file's
own tags, runs of 21 characters (the length from which a string is compressed).
Three things are taken to be absent from what clients type (`Letter`): a carriage
return or a zero byte, which no line of the prompt has; the file's own tags
(`yc:` and the like) inside of a word, which the parser would take for its own; and
a number below the range of an int, for which `atoi` is undefined. Nor is a value
saved again that a recovery failed to decompress and left with junk in it. `e:`, colons and dollar
signs may stand anywhere. A line feed may stand in a string, because the number 10
is written as that character and comes back as it (`ObjectsAssumption`).
`MCObjects` has strings of every encoding at the boundaries of its range, hashes,
lists and sets, with the parser's characters in keys, fields and values. What
comes of them:

- a number below 127 is kept as an `int8_t`, which is written as one character
  and comes back as that character; 13 comes back as nothing, and a multiple of
  256 is a zero byte, at which the file ends for the reader. Then the parser
  runs on through memory nobody wrote (`"astray"`);
- numbers from 127 to 32766 come back as they are, without decimal places; from
  32767 to 2147483646 they are written with an encoding the reader does not know,
  and are lost (`ReadOther`); larger ones are kept as texts;
- a key with a colon comes back cut at the colon (`ReadPlainString`);
- a value that contains `e:` is taken for the next object's expiry, since a raw
  value is not passed over; a list value with a dollar sign inside is read again
  and again until memory is exhausted (`OutOfMemory`); a field that begins with a
  colon ends its hash;
- a string of more than 20 characters may be compressed, and then what is written is the
  C string that LZF's buffer happens to be: its bytes up to a zero among them or in the memory
  behind them. No command determines these bytes, and nothing escapes them. So a compressed text
  is one of two symbols, `Lzf` when the parser finds nothing in it, and `Wild` when
  it holds the end of a line, an expiry or a closing; behind a wild one nothing is known
  of what is read (`"astray"`). LZF itself is vendored, and either compresses a
  text or not;
- a decompressed value has no terminator, so that bytes nobody wrote may follow
  it, and decompression fails when its input was cut (`Inflated`);
- a file whose last object is a set or a sorted set ends with an expiry without a
  type tag, and the next start aborts.

`Confined` names the objects after which the parser goes on where it should
(a string that can be compressed is never among them), `Described` and `Back` what
comes back of an object. `EndsUnless` gives the reasons why a recovery may not end as it
should, and the stages `"astray"` and `"overrun"` are two of its ends: what the process does then is
undefined. An expiry that has passed means: between save and recovery,
since `getNextDb` erases what has expired before.

### ThreadPool

`worker[w]` is the place of each thread in the lambda, `owner` that of the
event-loop thread, the only one that commits and (through static destructors)
destroys. Critical sections are single steps, except that a worker which found
nothing to do (`FindNothing`) holds the mutex until it sleeps (`Sleep`): commits
must wait for it, the destructor need not, since it does not take the mutex.
`Notify` wakes one sleeper of any, `Spurious` is a wakeup for nothing.

### TimerQueue, TimerHeap

`TimerQueue` is the set of timers that `EventLoop` uses, with the clock as an
absolute time. `TimerHeap` is `timerHeap.cpp`, one turn of `up_heap` or
`down_heap` per step; `then` is where a sift returns to. An entry keeps
`m_nHeapIndex` as `index`; places count from 1. `cur` is the timer that is out
of the heap, with its stale index, which `on_timer` uses once more (`Fire`).
The refinement `IsQueue` maps the heap to the set of its timers together with
the one `add_time` has taken out and not yet put back. The heap module allows
`detect_timers` at any time and therefore shows the endless loop too
(`LoopPutOff`); that the server never gets there is the theorem
`DetectAlwaysTerminates` of `EventLoop`. That a descriptor has one timer at most,
a guard of `Start`, is `TimerOwnsItsFd` there: a timer's descriptor is not free,
so `accept` cannot return it.

### ScoreSet, ScoreTree

`ScoreSet` maps a score to its members; a member that comes with a score already
present is lost, as in the code, where it is added to a node that is then
dropped (`InsertAgain`). `ScoreTree` is `rbTree.cpp`: nodes are named by their
scores, since no two nodes of a tree have the same one; `Insert` searches the
place and links the node, and each turn of the loop in `fix_up_insert` is one
step (`FixUp`), with `cur` the node under repair. `Turned` keeps the order of
the code's tests: a missing uncle, a red one, and a black one, where the loop
stops; then the straightening and the lift, which use the uncle found before.
Links are to nodes, to the sentinel (`Null`) or nullptr (`Nil`); a step through
nullptr would have no value in the model, and TLC would stop at it.

The code rotates to the left under a right child and to the right over a left
one on both sides of the grandparent, where a red-black tree has mirrored cases.
The result is always a search tree, and that is what zrange depends on; it is
not always a red-black tree, and nothing here says that it is balanced. That the
repair ends all the same is `RepairShort`: 3 * `turns` is at most the number of
nodes. The
refinement `IsScoreSet` maps the tree to what `getByScore` finds in it, so that
in the middle of a repair every node can be found too.

### Store, KeyStore

`Store` has the contents of each kind by key: a string or none, a hash, a
sequence, a set, a sorted set as `ScoreSet` has it. `KeyStore` has the one map of
`redisDb`, from pairs of type and key to objects; the two differ in what a
missing object is, in objects that are there and empty, and in commands that
handle the first request for a key (`cmdCb`) and later ones (`redisDb::isExist`)
in different code. One action is one command, whole: the loop's thread handles
one request at a time. The database number belongs to every key and is the same
in one database, which is all that is modelled. Requests are complete: they name a key
and carry what the command reads. Details that the actions keep:

- an emptied list stays as an empty object, and the next pop erases it; the
  lpush after that makes a new one;
- hset on a hash that is there writes group by group and answers FAIL at the
  first uneven group, with the groups before it written; a new hash is put into
  the map only when all groups are even (`HSetExisting`, `HSetNew`);
- `setHash` and `redisDb::append(int, int, ...)` end without returning a value.
  The Makefile builds without optimization, so the caller gets some number, and
  a negative one makes the answer FAIL although the object was stored
  (`NewAnswers`). `Store` allows this in `HSet` and `Add`;
- blpop does not wait: with nothing there it leaves the answer without a text;
- sadd to a set that is there leaves the answer without a text too;
- zrange with no member in its range writes before the beginning of an empty
  string, into the string's length, and copying it then throws
  (`ZRangeNothing`); spop, as this client sends it, reads an element of an empty
  list (`SPopNamesNoList`). In both cases the server ends;
- blpop, as this client sends it, has no name and is not found (`NotFound`).

Left out: values that are empty (`get` takes them for missing), the expiry of
objects (no command sets one), eviction, the wording of answers.

### ClientRpc

The client in its asynchronous mode. `prog` is where the program is in its call:
`sendRequest` numbers the request and looks at its connection (`Check`), then
sends it or reconnects; `getResult` waits in epoll (`Wait`, `Report`) and then
for a response (`Result`). The pool's threads run `readInfo` (`Read`, `Store`,
`Rearm`). The server answers what it reads, in order, and may drop a client
(`Kick`) or go down and come up; a connection then ends in order (`"closed"`, a
read yields end of file) or by a reset (`"reset"`, the next read or send gets an
error). Details that the actions keep:

- the number is queued before the request is sent, again when it is repeated
  after a reconnection, and stays when the call fails;
- a refused reconnection returns 5 in the first of five turns, which the caller
  takes for success; `conFd` is -1 from then on and nothing connects again
  (`GiveUp`, and the first branch of `Check`);
- an old socket is neither closed nor taken out of epoll: it reports its end;
- descriptors are armed for one event (`EPOLLONESHOT`), and `readInfo` arms its
  descriptor again unless the read failed; a socket that was reset is deaf from
  then on (`"failed"`), and a getResult that waits for a response may spin for
  ever;
- at end of file `readInfo` parses a buffer nobody wrote, and stores a response
  under any number;
- `send()` on a socket whose error has been read raises SIGPIPE, which the client
  does not ignore (`Killed`);
- the reply's number is empty: `EchoedSeq` is the server's half of it, and the
  queue's front is never found among the responses.

A reply is taken to arrive whole, as `readInfo` takes it to; `Terminal` has the
frames that do not. The parsing of commands is left out, and so is the data race inside the
map of responses: each access is one step.

### Terminal

The interactive client types a command, sends it, and waits in one `read()` for the
reply. Both sides write frames of 4096 bytes and take what one `read()` returns
for a frame. TCP promises a stream, so here a stream is a sequence of half
frames and a read returns one or two of them (`Reads`). The server answers every
piece: a half that begins a frame is parsed with zeros for the rest, so a short
command is executed and a long one may be executed cut short (`cut`); any other
piece is an unknown command and gets the reply for that (`ReplyTo`). One torn
read is enough to shift all later replies by one. `torn` remembers that it
happened on this connection; `InStep` says that nothing else makes client and
server lose step, neither kicks nor resets, lost commands and replies,
restarts or the second request after a reconnection. `PromptReturns` says that
the prompt comes back even then: every piece is answered, so there is always
something for the blocked `read()`, as long as the server serves (see Fairness). Details that the actions keep:

- the state of the connection is tested, and the command sent later: a send into
  a socket closed meanwhile succeeds, and the reply is an end of file (`Put`,
  `Read`);
- a reconnection that is refused leaves the descriptor -1. `getsockopt` then fails,
  which `isConnect` does not take for a lost connection, and `send` fails: every
  later command is refused and nothing connects again (`GiveUp`, `Check`);
- the old socket is not closed; the new connection begins empty (`Reconnect`).

Left out: what is printed when there was no reply (bytes of a buffer nobody wrote,
as also at the end of every reply's frame), commands that `processCmd` refuses
and that change nothing, and that the second half of a long command might itself
look like a message.

## Runs

| run | instance | shows |
|---|---|---|
| `event_loop_safety` | 3 connections, 2 descriptors (one with a strategy's number), a timerfd, bgsave, socketpair for one notification | types; `TablesAgree`, `TimerOwnsItsFd`, `ClientHasTimer`, `DetectTerminates`, `KickOnlyIdle` |
| `event_loop_liveness` | 2 connections, no strategy | `QuietServerDropsClients`, `RequestsServed`, `HangUpsNoticed` |
| `snapshot` | 2 databases with a hash each, a set in the first | types; `ListedFilesExist`, `NothingResurrected`, `QuietMemoryOnDisk`, `CursorLive` |
| `thread_pool` | 3 threads, 4 records | types; `EachRecordOnce`, `NobodyOversleeps`, `RecordsWritten` |
| `timer_heap` | 4 timers, clock to 4, interval 3 | types; `IndexRight`, `HeapOrdered`, `IsQueue`, `DetectReturns` |
| `score_tree` | 7 scores, 2 members | types; `RangesRight`, `RepairSafe` (with `LinksAgree`), `RepairShort`, `IsScoreSet` |
| `client_rpc` | 2 requests, 2 sockets, 2 readers | types; `ArmedOrRead`, `SentOnce`, `GetResultReturns` |
| `key_store` | 1 key for all types, 2 values, fields and scores, requests of up to 2 values, 3 values pushed | types; `QueueFifo`, `IsStore` |
| `rdb_codec` | files of up to 3 objects out of 46 | types; `ComesBack`, `EndsUnless` |
| `terminal` | 4 commands | `InStep`, `PromptReturns` |
| `durable` | 1 database, 2 keys | README:24 is not met: a crash during a save loses the earlier one |
| `pool_hang` | 2 threads, 2 records | the destructor may wait for ever |

The last two end in a counterexample; `findings` in `PROJECT.json` quotes what
the repository says.

Why the bounds are enough. Two descriptors and three connections let a number
be reused and `accept` fail, and let a stale timer meet a stranger if it could;
one unread request per socket is enough, as only "some" or "none" is tested.
`WaitSlot = ClientSlot = 2` and `Near = 1` have the ratio of the code (10000 ms,
10000 ms, 300 ms: the slots are equal, a renewal is rare). The strategy's three
seconds are longer than the wait of two: a timerfd that has expired is never
read, so epoll returns at once from then on, the wait never times out and
timers are never checked again. The run covers the life before that and the
life after it. Two databases are what a shared iterator needs, two keys give it
a first and a last node. The second database gets a hash only (`Uses`), since a set in the
first one is enough for a walk to erase an object and for a hash to come back with an
expiry. A set may read as expiring at 0 or at 1, and the clock goes to 2, so that each
expiry is passed or not yet passed when it is looked at. So the iterator is left dangling by
`hget` in this run. A list besides, which `lpop` erases in the same way, or a negative expiry
is ten times as many states and more; the theorems hold for any databases, kinds
of keys and expiries.
`quiet` counts to 2 because that is where its property begins. Four entries are
the smallest heap with three levels, so a replacement can sink twice. (A removal
could also send its replacement up, but not in this server: a new expiry is
never earlier than the others and `detect_timers` leaves an empty heap, so the
last entry is always the latest. Six timers show the same.)
Six scores are enough for every branch of the tree's repair, and seven let a
turned subtree be searched and inserted into once more; all orders of insertion
are covered. Two requests have one number, as tv_sec + tv_usec may give them (the
theorems hold for any numbers); two sockets let the client lose a connection,
reconnect while readers are at the old one, and lose the new one too; four queued
numbers are two requests, each of which reconnects; two readers can hold both
sockets. One key is enough for the store, since what could be mixed up are objects
of different types under one key; the theorems hold for any keys. (Fields are a
symmetry set: the commands only compare them.) Three values
pushed let a list be filled, emptied, erased and filled again by requests of two
values and of one. Three objects in a file let damage pass from one to the next and
be carried over it; all orders are covered. Every number of the code's comparisons
occurs with its neighbour, and so do expiries that are absent, zero, passed, now and
to come. Lists grow to at most 2 values, so 4 are reached only
by reading one again. Four commands let a connection be torn, and a later one be in
step again; five commands (1.4 million states) show the same. One or two halves
are all that a buffer of one frame holds.
Deadlock is checked for the event loop, snapshots, the heap, the tree and the store. For the
first two this shows little: time can always pass in the one and the process be killed in
the other. It is off where the system may stop: a parser at its end, a pool that is destroyed
or hangs, a client with nothing more to ask.

Fairness. `EventLoop`: the loop's thread runs and time passes; nothing is assumed
of clients or of the child. `ThreadPool`: every thread that can go on does, and
so does the owner inside a call; nobody must commit, stop or wake spuriously.
`TimerHeap`: an operation that has begun runs on. `ClientRpc`: the server answers
what it was sent, the pool's threads run, and so does a program that is inside
getResult; nobody must call anything, and connections may be lost at any time. (A
read that fails is what `GetResultReturns` excepts.) `Terminal`: the client runs on
once a command was typed, and the server reads what has arrived; nobody must type
or come back.

All are weak fairness. For a thread, a program and a clock any preemptive scheduler
gives it. For the server of `ClientRpc` and `Terminal` it is an assumption of another
kind, namely that a server that is up answers every client with something to read,
and this server does not always: a client whose descriptor is the number of
a strategy's seconds has its requests eaten (saveTimerHandle.cpp:80-94), a full
socketpair blocks the only thread for good (cmdSet.cpp:44), and a client that `accept` has
no descriptor for is never read. `EventLoop` models all three; `PromptReturns` and
`GetResultReturns` hold for the clients of a server that meets none of them, which is what
`RequestsServed` shows of such a server in its own run (no strategies, no backups).

## Proofs

For all values of the constants, under the named assumptions only
(`FdsAssumption`: descriptors of different kinds differ; `TimesAssumption`: a
client's slot is positive and not longer than the loop's; `BoundsAssumption`;
`SnapshotAssumption`, `AbsentIsNoFile`; `ScoresAssumption`: scores are integers;
`NullAssumption`: the sentinel and nullptr are no scores; `ContentsAssumption`: scores are integers,
requests carry sequences of values, no string is not a string; `PoolAssumption`: finitely many threads,
at least one; `ClientAssumption`: finitely many sockets, numbers that are
positive; `HeapAssumption`: descriptors and times are numbers; `TerminalAssumption`: the
commands are counted; `ObjectsAssumption`: a string has one value, a hash has each field
once, a list is shorter than memory, and words consist of letters; `LimitsAssumption`:
limits are numbers, and the time is not zero).

*EventLoop.* `Inv` adds to the checked invariants what makes them inductive:
`Accepted` (a connection in the descriptor table has left the backlog, so it is
never accepted twice), `TimersRunOut` (while the loop waits, a timer's remaining
ticks and the ticks waited add up to at most `WaitSlot`), `IdleWhileWaiting` (a
registered client has been idle at least as long as the loop has waited),
`WaitWasIdle` (when the timers are examined, the wait took its whole slot and nobody
registered had a request then) and `NoticeUnread`. `TimersRunOut` is the argument for `DetectAlwaysTerminates`: a
timer that is started or renewed has at most `ClientSlot` left, the wait starts
afterwards and times out after `WaitSlot`, so every timer is due by then.
`IdleWhileWaiting` and `WaitWasIdle` give `KicksOnlyIdle`, an action property: they hold from the
timeout until the kicks, whatever arrives in between. `BackupsHappenOnce`
says what comes of a socketpair whose read end nothing registers (`Deaf`): `canSave`
is never set again after the first backup a timer starts, and each `bgsave` leaves
one more notification, until a write blocks. No run repeats it.

*Snapshot.* `Inv` (in `SnapshotProofs`) consists of `Shape` (`TypeOK`, the shape of the
cursor, a node being an object of its own database's sequence, and `Unloaded`:
databases are empty until the files are read), `Listed` (during a
save, every listed database but the one in work has its file) and `Snapped`
(what the temporary and the listed files hold was in memory when the save began,
as long as no dangling iterator was used). Recovery needs that the entries of a
file restored into one database have different keys, although two of them may
come from different databases (`InsertedOnce`): each entry has one head (`OneHead`), and of
two under one key the later one is not inserted. `CursorStaysLive` is proved on
top of it: `Advanced` has left the node that a walk erases, and what `Drop` erases is a
list or a hash with an expiry.

`QuietMemoryIsOnDisk` needs the order of the walks over several saves, `Rounds`. A
walk that ends sets the iterator back to the first object of the database it was
for, so every walk but the first in a quiet memory writes the objects of the
database walked before (`Precedes`), which is the last one for the first database of
a save. The first walk begins anywhere; after one save (`Settled`) it has been
followed by others, after two every database's file was written by a walk that is
known. Each database with objects is followed by one (`Followed`, by the least
number above its own, or the least of all), whose file therefore has its objects.
Where a dangling iterator is used the walk's beginning is not known, so none of this
depends on what freed memory reads as.

*ScoreTree.* The inductive invariant names a witness, `sub`: the set of nodes of the
subtree of each node. `Links` says that parents and children agree, `Ordered` that
each subtree is divided by its node, `Nested` that what is below a node is below all
nodes above it. A rotation changes the subtrees of two nodes, and the lemmas
`LeftTurnShaped` and `RightTurnShaped` give the new ones; recolouring changes none.
With a black root, a red parent has a parent itself (`RedAbove`), which is
`RepairSafe`. What the recursive functions `Place` and `ByScore` compute is proved by
the smallest subtree for which it were otherwise (`LowestNode`, `EndsBelow`,
`ByScoreIs`), with the subtrees' sets in place of their heights. `Repairing`
is why the loop ends although it may turn without getting higher: after the
first turn the uncle is red, so every further turn goes up two levels and takes in
three nodes more. From this follows `RepairEnds`, 3 * `turns` =< nodes + 2.
`ImplementsScoreSet` maps an insertion of a new score to `Add`, of an old one to
`AddAgain`, and every turn of the repair to a stutter, since ranges stay right.

*ThreadPool.* `NobodyOversleeps` says that while somebody sleeps, there are at
most as many records in the queue as threads at the door, counting the
notification that a commit still owes. It is inductive together with
`TurningFromNothing`: a thread between its test and its sleep holds the mutex,
so nothing was queued since it looked. The destructor breaks just this, as it
takes no mutex, and `pool_hang` shows what comes of it.

*ClientRpc.* `ArmedOrRead` says that a socket is armed or in the hands of exactly
one `readInfo`, queued or running. To keep it, a `readInfo` must never return
without having read, since it would leave its socket disarmed. `ReadersFind` is
the reason why it does not, short of an error: what was readable when the socket
was reported is still there, because nobody else reads it. That in turn needs
`ArmedOrRead`, so the two are inductive together only, with `UnusedAlone`. `SentOnce` needs that a
call asks for what was not reported (`Asking`), that it reconnects only because
a connection is lost (`Reconnects`), and that lost sockets carry no requests
(`OnlyOpen`). The rest of `Inv` is types (`Using`, `Room`).

*KeyStore.* Everything rests on the lemmas `FoundWith` and `FoundWithout`: putting an
object into the map, or erasing one, changes what is found under its own type
and key and nothing else, because the type is part of the key (`Place`).
`WithText`, `WithHash`, ... say so for each kind. `TypeOK` is inductive as it
stands; it includes that a stored string is a string, without which `get` could
not tell it from none. `QueueFifo` is inductive together with it: a push appends
to both sides, a pop moves the head from the list to the history, and a list is
erased only when it is empty. `ImplementsStore` has one lemma for the commands
of each kind, which map to commands of `Store`, and maps a restart to a
restart; no step needs to be a stutter.

*TimerHeap.* Between two swaps the heap is in order but for one place. `Inv` says
for each place the code can be at where that is: `Rising` (the entry that goes up
may be earlier than its parent), `Sinking` (the one that goes down may be later than
its children), and in both cases `Bridged`: its children are not earlier than its
parent, so that a swap cannot break the order anywhere else. `Held` and `Operating`
say what is out of the heap meanwhile and who waits for it. `IndexRight` holds at
every swap because `swap_heap` renames both entries; from it follows that the
entry removed by its stale index is the one that was meant. `HeapIsQueue` maps
the heap to the set of its timers: swaps are stutters, and a timer that fires is
one of the earliest because nobody is earlier than the root (`RootIsFirst`, by the
least place that would be).

*Terminal.* `CommandsRunOnce` needs that no command begins twice in the stream to
the server (`Single`), that what is in it was not executed (`Underway`), and that
the command about to be sent, or sent again, is not in it (`Fresh`): a
reconnection empties the stream, so the second request is the only one.
`TerminalInStep` is inductive as `Aligned`: on an untorn connection both streams
are empty except while the client reads, and then they hold one frame. `TypeOK` and
`RunsOnce` of this module are proved, and no run repeats them.

*RdbCodec* (in `SnapshotProofs`, next to the module whose files these are). While a
file is written, `WriteInv` says that each object's text sits in it behind the one
before (`Grown`). `Load` makes of this the layout that the reader finds (`Laid`): the
objects lie one after the other, each as `ObjectAt` describes it, up to the end of
the file or up to the zero byte that cuts it (`CutAt`). From then on the file is
remembered and only the place `q` moves, with `text` what stands from there on.
`ReadInv` says where `q` can be at each stage. `AtTime`: behind the `i` objects that
were dealt with, or lost somewhere in the text (`Lost`), which happens only behind an
object that is not confined. `AtType`: in front of the next type tag, whose object may
be a later one than the expiry's. `AtObject`: just behind a tag. Tags are the file's
own and stand nowhere else, so the parser finds its way at every tag, with
nothing worse than a wrong expiry. `AtWords`: before a word of a hash or a list, with
the words before it in `got`.

`Recovered` says what the first `i` objects have come to, and the three theorems are
in the end about one list of facts, each about one object: where the first `e:` behind
it is, where its first colon, its first end of line and its first closing are
(`FirstIs`). These rest on `BodyClean` and `NoneBehind`: inside of a confined object the
parser meets nothing that it looks for. Where the text is not the parser's to know, the
proof shows whose fault it is: a wild text stands only in the string that was
compressed (`WildSaved`), so that a parser that meets one has passed an object that is not
confined (`Misled`, `Strays`); and a file that is read beyond its pages holds no zero
byte (`Loaded`), so none of its numbers is one (`ZeroStands`). `ComesBack` and
`EndsUnless` are part of the invariant `CodecInv`, since a file is given up only in a step from a
place that `ReadInv` describes: a list that is read without end has the dollar sign
in the word at `q` (`InWords`), a string that runs past the end of the text is the last
one of a file that was cut, hence a small number with the byte zero, or one whose
compressed bytes mislead the parser, and a tag that
is not found was the last one's. The recursive functions of the sequence modules that
put a text together or take an object's words (`FlattenSeq`, `SelectSeq`) are
described by where each piece begins (`Builds`), by the least place where it were
otherwise.

Only model-checked: `RepairShort` (`RepairBounded` proves it but for a rounding:
3 * `turns` =< nodes + 2; for the exact bound one would have to count the shapes
that earlier wrong rotations leave, red nodes under red ones among them), and all
liveness properties, which are outside of what the prover does, as are ENABLED and
recursive operators. `CodecInv` speaks of the whole file and of functions over its
places, so no run checks it; the runs check the three properties it is for.

## Not modelled

Not planned: eviction (`lru.cpp` does not compile as it is written, and its
`getMem` would always yield 0, so that `isFull` is never true), the deletion from
the red-black tree (nothing calls it), recovery from the log (`checkAof` is never
called), the wording of commands and answers, the configuration files, and errors of
socket set-up.

About 27,000 of the repository's 34,000 lines of implementation are not its own:
easylogging++, the message classes that protoc generated, and LZF, most of them
twice, for the server and the client, next to copies of headers in
`src/client/MyCacheDb`. They are libraries to this code and the models use what they
promise. What is modelled is to be measured against the remaining 7,000 lines.

## Plan

1. The client's side of commands: which words become which request
   (`request::processCmd`), composed with `KeyStore`; expiry and several databases
   in `KeyStore`.
2. `RdbCodec` composed with `Snapshot`: objects with contents, in files that are cut
   and renamed.
