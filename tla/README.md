# A verification project for LuaDB

LuaDB embeds Lua 5.3 and LMDB 0.9.14 in one program: scripts, run from the
command line or by a FastCGI worker, keep hierarchical data ("globals" in the
manner of MUMPS) in an LMDB file through the `lmdb` library, and talk to the
outside through a query-string and a JSON library. This directory holds TLA+
models of that program, TLC configurations that check them on small instances,
and proofs that TLAPS checks for all instances. Paths below are relative to the
repository root.

## 1. Inventory

| Part | Source | State | Operations | Hard because |
|---|---|---|---|---|
| Handles of the LMDB binding | `src/lmdb.c` 207-360, 577-629, 863-877, 974-1189 | userdata for environment, transaction, order cursor; a weak reference table per environment; LMDB's own transactions | `lmdb.open`, `begin`, `close`, `commit`, `rollback`, `order`, `__gc` | the collector runs finalizers in any allocation, in an order of its own, and an error in one is raised in an unrelated call |
| Transactions on one file | `src/lmdb.c` 289-337, 577-629, 671-785; `src/deps/lmdb/mdb.c` | two meta pages, the number in the lock file, the writer mutex, each worker's snapshot | `begin`, `put`, `delete`, `commit`, `rollback`, worker death, reopening | several processes, crashes between any two writes, a robust mutex |
| Readers and the reader table | `src/lmdb.c` 289-360, 490-500, 577-629; `src/deps/lmdb/mdb.c` 1975-1990, 2027-2160, 2580-2672, 4766-4819, 9586-9683 | a slot per reading thread (process id, number), the count of slots, what each writer remembers of the oldest reader | `begin(true)`, `reader_check`, `close`, page allocation | a writer reads the table without a lock; killed workers leave slots; process ids come again |
| Key codec and comparator | `src/lmdb.c` 1194-1291, 1461-1516, 1627-1723 | none: byte strings made of length, type, data | encode, compare, next lexical value, prefix, replace last segment | order and equality are what every traversal relies on |
| Traversal | `src/lmdb.c` 631-735, 787-851, 1294-1394 | cursor, prefix, last key visited | `order`, `iorder`, `next`, `data`, `_dump` | a traversal is a sequence of calls between which the script writes |
| FastCGI worker | `src/fcgi.c` | the listening socket, one request, a Lua state made for it, that state's stack | accept, load the router, read body, headers and variables, route, send | one process serves request after request; the C code addresses the Lua stack by position, and an error outside `lua_pcall` ends the process |
| Query strings | `src/query.c`, `src/fcgi.c` 473-548 | position in the string | iterate, decode, build the query table | scanning with several exits |
| JSON | `src/json.c` | table of visited tables, node being built; metatables that mark arrays | encode, decode, isarray, makearray | recursion over a graph that may have cycles; tables do not keep nulls or an order |
| Configuration | `src/config.c`, `src/config/config.lua` | the configuration record, the Lua stack | load each setting, clean | what one setting leaves on the stack decides the next |
| State and package path | `src/state.c` | a Lua state, its `package.path` | create, add directories | sizes reckoned by hand |
| Command line and REPL | `src/main.c` | options, a growing block of copied paths | parse, run a script, start a worker | sizes reckoned by hand; failures at every stage |
| UUID, utilities, log | `src/uuid.c`, `src/util.c`, `src/log.c` | none | - | straight-line |
| Request handler | `src/web/reqhandler.lua` | - | build request object, call the application, encode | straight-line, in Lua |
| Lua, fcgi, json, linenoise | `src/deps/` | - | - | vendored |

How they interact. A worker process (`fcgi.c`) makes one Lua state per request;
its scripts call the `lmdb` binding, which calls LMDB synchronously. Nothing is
threaded: inside a process the interleavings come from Lua's incremental
collector, which calls `LmdbTx_Close`, `LmdbEnv_Close` and `Lmdb_OrderClose` as
`__gc` from within any allocation. Between processes they come from the file:
workers share the two meta pages through the page cache, and the writer mutex
and reader table through the lock file.

What makes each part correct: a handle reaches only the transaction it began,
and no transaction outlives every way to end it; the transactions of all
workers behave like one store with snapshots; a traversal gives the children of
its node, in order, each once; a script gets the request that was made, and the
worker is ready for the next one; `json.encode` ends, and fails exactly for
tables that hold themselves; a decoded document encodes to itself as far as
tables can keep it; no page somebody reads is written over; a worker serves
with the settings it was given.

## 2. Plan

Modules are written in the order of what the program stands on; each row names
what it composes with.

| Module | Models | Composes with |
|---|---|---|
| `LmdbHandles` (`MCLmdbHandles`, `_proofs`) | the Lua side of the binding in one state, with the collector | its `slot` is what `LmdbStore` says of one process |
| `SnapshotStore` | what the workers' transactions promise (abstract) | - |
| `LmdbStore` (`_proofs`) | the transactions of several workers | implements `SnapshotStore` |
| `LuaDbKeys`, `OrderedScan`, `LuaDbOrder` (`MCLuaDbOrder`, `_proofs`) | keys; what a traversal promises (abstract); traversal | `LuaDbOrder` extends `LuaDbKeys` and implements `OrderedScan` |
| `JsonEncode` (`_proofs`) | `json.encode` | - |
| `QueryString`, `FcgiWorker` (`MCFcgiWorker`, `_proofs`) | query strings; the worker | `FcgiWorker` extends `QueryString` |
| `LmdbReaders` (`MCLmdbReaders`, `_proofs`) | a reader's begin step by step, its slot in the reader table, the oldest reader a writer sees, page reuse | below `LmdbStore`, which has the number and the roots a reader takes but not its slot |
| `JsonDecode` (`MCJsonDecode`, `_proofs`) | `json.decode`, `isarray`, `makearray`, and encoding again | beside `JsonEncode`, which has the walk of encoding |
| `Startup` (`MCStartup`, `_proofs`) | from the command line and the configuration file to a script, the prompt or a worker | its request is one step; `FcgiWorker` has what happens in it |

Not stated: a refinement of `LmdbStore` by `LmdbReaders`. Both have the two
steps in which a reader takes its number and its roots; `LmdbReaders` has no maps,
`LmdbStore` no slots and pages.
`LuaDbOrder_proofs` holds the theorems of `LuaDbKeys` too.

## 3. Modules and the code

### LmdbHandles

`env`, `tx` and `iter` are the userdata with the pointers in them (`*loc`,
`loc->txn`); `slot` is what LMDB itself runs: one write transaction per
environment, always the same object `me_txn0`, and one read transaction per
thread. `listed` is the weak reference table, `held` what the script or the C
stack reaches, `pend` the collector's queue `tobefnz`, `call` the window inside
a C function in which an allocation may run finalizers, `halt` the end of the
process: waiting for its own mutex, or having used memory LMDB freed.

`OpenStart`/`OpenFinish` and `BeginTx`/`BeginTxTag`/`BeginTxList` cut
`LuaDB_LmdbOpenEnv` and `LmdbEnv_BeginTx` at their allocations, since there a
finalizer may run and raise; every other call is one action. The collector marks
bit by bit while the script runs: an object the script drops (`Drop`) may have
been marked by then, and is in `floating` if it was. `CollectAtomic` is the
atomic phase that ends the marking: it clears the weak table, keys and values,
and queues the unreachable objects that have finalizers, all but those that
float, which stay, unlisted, until the next cycle. `CollectFull` is
`collectgarbage()`, which marks anew and leaves nothing afloat. `Finalize*` and
`Lmdb_OrderClose` are the finalizers. One that raises does so in the function
that was allocating: `Interrupted`. A handle whose pointer outlived its
transaction acts on whatever transaction the pointer now names, as in the code.
`CommittingNext` leaves out commits that fail and allows the script all else;
`OrderedNext` is a careful script, to show what happens even to one. Both restrict
the script and the disk, never the collector.

### LmdbStore and SnapshotStore

Each worker may hold the environment open (`up`), have a write transaction
(`wpc`, `wid`, `wview`, `wflag`) and a snapshot (`rnum`, `rview`). `txnid` and
`root` are the two meta pages, `mti` the number in the lock file, `owner` and
`dead` the robust mutex. A reader begins in two steps, as in
`mdb_txn_renew0`: `BeginRead` takes the number from `mti`, `CopyRoots` the roots
from the page of that parity, as it is by then. A commit takes the steps other
processes can see: `LmdbTx_Commit` (pages written and synced), `WriteMeta`,
`Publish`, `Unlock`. `WriteMetaFails` has the three ends of a failed write:
nothing reached the page; the roots did and the number was put back; both did
and putting the number back failed too, which `mdb_env_write_meta` ignores. The
last leaves a page newer than `mti` that no commit vouches for, and history
variable `stray` remembers its number. `Crash` may come between any two steps;
`BeginWriteRepairs` is `mdb_mutex_failed` followed by the begin. `Open` resets the
lock file only for the first process.

`SnapshotStore` knows nothing of meta pages: a committed map, one writer's view,
readers' snapshots and, after a commit that was cut or could not be taken back, a
map in doubt which the next writer or opening settles, or the next commit
replaces. A reader sees the state committed when it began, unless it is
`overtaken`: a commit ended inside its begin. Such a reader may also see changes
of a commit under way that has not returned (`Offer`), or of one that fails
(`Fail`). The refinement mapping takes the committed map from the page `mti`
names, the doubt from the newest page if that is another, what a reader without
roots sees from the page it will copy, and it is overtaken when its number is no
longer `mti`.

### LmdbReaders

Here a snapshot is only the number of the transaction that committed it, and
`reused` says below which snapshot pages may have been written over. Every access
to memory that workers share without a lock is a step. A reader takes a slot
(`Claim`, under the reader mutex) or uses the one its thread has, then reads
`mti_txnid`, enters it, looks again, and copies the roots (`Load`, `Store`,
`Check`, `Copy`); `rpc` says where it is. The writer visits the slots from the
last to the first (`FindOldest`, `ScanSlot`, `ScanEnds`), keeps the answer in
`pgoldest`, also for its next transactions, and `TakePages` reuses what freed
records below it hold. `LmdbEnv_ReaderCheck` is two steps: a dead id is found
without the mutex and looked up again with it. `Crash` may come between any two
steps and leaves the slot and the mutex; a worker that opens the file later may
get the id of a dead one, since ids are all that the table and the byte locks
(`live`) know of a worker. `left` is history: slots whose worker was killed.

### LuaDbKeys, OrderedScan and LuaDbOrder

A key is a sequence of segments, a segment a type and bytes. `CompareKeys`
follows the C code byte by byte: `strncmp` stops at a NUL, lengths break ties,
types do not count. `ComputeNextLexicalValue` adds one to the last byte, which
is the type if the segment has no data, and wraps. `Scanned` is what `sscanf`
reads of a number that lies in the page without an end.

`LuaDbOrder` is one transaction: the stored keys with their values, one iterator
(`cur`) and the last answer (`got`). `LmdbTx_Put` and `LmdbTx_Delete` may come
between any two calls of the iterator. At the end the iterator answers nil and
keeps its place, so that a further call by hand searches again. `data()` and
`_dump()` change nothing and are operators that invariants compare with their
meaning. `OrderedScan` is the promise of `doc/API.md`: the iterator stands at a
child and goes on to the least child after it, also after it has answered that
there was none. The mapping undoes the addition of one to find the child the
iterator stands at.

### JsonEncode

`stack` is the recursion of `LuaTableToJsonPrivate`, a frame per table with the
fields `lua_next` has still to give, in any order; `refs` the reference table;
`out` the paths of the tree at which a table was converted; `result` the outcome
of the call. The heap of tables is any graph. `AppendNull` and
`JsonEncodeFunction` end the process: no node is made of a function, and the
NULL is followed.

### JsonDecode

A document is the sequence of its nodes in the order in which
`JsonToLuaValuePrivate` comes to them, each with its parent's number. `calls`
are the calls of that function that are in the loop over their children, `next`
the node the walk comes to next, and `stack` the Lua stack the calls share. A
call for a string, number, boolean or null is one step, `ConvertLeaf`; one for
an array or object is two, `EnterTable` up to its loop and `LeaveTable` after
it. `Call` and `Counted` keep the parameter `i`, which is both the element's
number and the counter of the loop. `heap`, `marked` and `mts` are the tables
and metatables made on the way; `made` remembers the node of each table. The
script may then mark tables, swap, replace and unmark metatables, and encode:
`text` is the document that comes out, in which the elements of an array with
holes have no order, since `lua_next` gives them none. `Returned` is the
independent account of what a document loses on the way.

### Startup

One action per option, then one per function that can fail: reading the
configuration, each setting, `InitFcgxRequest`, each accept. Text is a sequence
of pieces. `room` counts the pointers the block of paths really has room for and
`overrun` remembers a write past a block, after which the process may crash at
any time and the search path may hold anything. `top` is the type of what lies
on the Lua stack where the configuration table should be. `search` are the
entries added to `package.path` of the state that runs the user's code. After
the fork the model follows the child; `launched` is what the user's command
returned.

### QueryString and FcgiWorker

`QueryString` has the iterator and the decoder over bytes, and beside them an
independent definition of what a query string means, which reads one byte at a
time and never searches or looks ahead: an automaton cuts the string at its
separators, another decodes escapes and keeps their digits back until both are
there. A field is cut at its last `=`. The automata are recursive functions, so
that the proofs can speak of them.

`FcgiWorker` has one action per function, and one per turn of the loops of
`ReadHttpRequestQueryString` and `SendHttpResponseHeaders`. `stack` holds the
types of the values on the Lua stack, since the functions find their tables by
position: `LaterValue` leaves the key there, and what `SendHttpResponseHeaders`
finds in place of a table stays too. `Panic` is an error raised outside
`lua_pcall`. An empty `CONTENT_LENGTH` leaves the length uninitialised:
`BodyLength` then gives every outcome `malloc` and `lua_pushlstring` can have.
The router is external: any response, or an error; a router file that gives
nothing at all to call is left out.

## 4. Runs

Deadlock is checked in `readers` and `store`; in the other runs the system may
stop: a script at any point, a process at its end (`halt`, `dead`, `crash`,
`stopped`).

| Run | Instance | Shows |
|---|---|---|
| `handles_any` | 2 environments, 2 transactions, 1 iterator; any script | the weak table never holds a dead handle; a read transaction is ended by nobody else; no call loses a transaction |
| `handles_committing` | 2 environments, 2 transactions, no iterator; any script, commits succeed; fairness | `HandleOwnsTxn`, `NoSilentEnd`; forgotten transactions end |
| `store` | 2 workers, 1 key, 2 values, numbers up to 4; fairness | mutual exclusion, meta pages, refinement of `SnapshotStore`, commits return, dead owners are replaced |
| `order_plain` | 6 keys of up to 3 segments and three types | traversal implements `OrderedScan`; `data()` and `_dump()` |
| `json_encode` | 3 tables, 2 fields, every graph; fairness | the outcome is the one the argument justifies, and every call ends |
| `fcgi` | query strings of up to 5 of 6 bytes, 3 kinds of length, 15 kinds of response; fairness | `request.query` is what the string means; how the worker may hang, die or send |
| `readers` | 2 workers, 2 slots, numbers up to 3 | no page in use is reused; readers see what returned before them; slots stay with their workers |
| `startup` | up to 4 options, 2 `-i` paths, room for 2 before the block grows, every file with two values | a worker serves with its configuration; modules are found in order; how a start ends |
| `json_decode` | 680 documents of depth 3, arrays up to 3; 3 changes of metatables | what decoding and encoding keep; `isarray` |
| `handles_closed`, `handles_lost` | 1 environment, 2 transactions, 1 iterator; the second with a careful script | findings 1 and 2 |
| `order_nested` | 3 keys | finding 3 |

Why the bounds are enough. Handles interact pairwise, through an environment:
two transactions, one old and one new, and two environments, one of them closed,
give every conflict the code distinguishes; an iterator adds one more finalizer
that raises, as those of an ended transaction and a closed environment do.
Numbers up to 4 let both meta pages be written twice, so that a writer can
overwrite the wrong one, and two commits fit between the two steps of a reader.
Six keys have a node with several children, a child with descendants and no
value, and names of three types none of which starts another. Three tables have
chains, shared tables and loops of every length up to three. Five bytes have
three fields and an empty one, or a name with a value that is an escape. In
`readers` numbers up to 3 let two commits pass a reader that has read its
number, and a page be reused before and after; two workers and two slots give a
full table, a slot left by a killed worker beside a live one, and an id that
comes again. Room for two paths (`MaxPaths`) stands for the five of the code:
with four options the block is asked to grow, and asked once too little, as with
six. Documents of depth three have an array inside an array inside an array, and
nulls at the start, inside and at the end.

Fairness. The collector runs on and finalizers follow (`WF` on `CollectAtomic`
and `Finalizing`): allocation drives it and scripts go on allocating. A C
function that was entered returns. A commit or a begin that was started runs to
its end unless the worker dies. Strong fairness is assumed once, in `FairSpec` of
`LmdbStore`: if again and again some worker could begin a write transaction, one
does, since requests that write keep coming. (Weak fairness says nothing of it: while
a worker begins a read transaction it can begin no other, so the begin of a write is
enabled only now and then.) A call of `json.encode` and the
handling of a request go on once begun; a router returns. `LmdbReaders`,
`Startup` and `JsonDecode` assume no fairness: a reader's begin may be overtaken by
commits for ever, and their properties are about safety.

## 5. What is proved

| Module | Theorems | Assumptions |
|---|---|---|
| `LmdbHandles_proofs` | `TypeCorrect`, `TableTrusted`, `ReadTxnOwned`, `TxnsKeepTheirHandle` for any script; `HandlesOwnTheirTxn`, `NoTxnEndsSilently` for any script whose commits succeed | kinds of objects are disjoint |
| `LmdbStore_proofs` | `TypeCorrect`, `WritersExcluded`, `NewestMetaSafe`, `MtiTrusted`, and `Refinement`: `Spec => Store!Spec` | the "nothing" constants are not what they are told from |
| `JsonEncode_proofs` | `RefsCorrect`, `CycleSound`, `TypeCorrect`, `OutcomeCorrect` | the set of tables is finite, and no plain value, function or nil |
| `JsonDecode_proofs` | `TypeCorrect`, `MarksCorrect`, `RoundTripCorrect` | `DocAssumption`: documents are trees, their nodes in the order of the walk |
| `LuaDbOrder_proofs`, keys | `KeysCompared`, `KeysOrdered`: `CompareKeys` is antisymmetric and transitive on all keys; `MatchesIsPrefix` | for the last, no name of the prefix is empty or holds a NUL |
| `LuaDbOrder_proofs`, traversal | `TypeCorrect` for any keys; `AdvancesAlways` for plain names; `DumpCorrect`, `DataCorrect` for plain names of one spelling; `TraversalAsPromised`: `Spec => ImplementsScan`, if moreover no name starts another and all are read back as written | `KeysAssumption`: the four types a script can write, at most 127 bytes a name, no empty key (LMDB refuses it); `NothingAssumption`: nothing is no key |
| `LmdbReaders_proofs` | `TypeCorrect`, `ReadersAreSafe`, `ReadersAreFresh`, `SlotsAreOwned`, `OnlyKilledLeaveSlots` | `NoProc` is no worker; the bounds are numbers |
| `Startup_proofs` | `TypeCorrect`, `ServesItsConfig`, `PathsSearchedInOrder`, `StartsEndAsSaid` | the pieces the code writes itself are pieces, arguments and values are texts, there is room for one path |
| `FcgiWorker_proofs` | `TypeCorrect`, `PartsInOrder`, `QueryAsGiven`, `HangsAsSaid`, `DiesAsSaid` | what a router returns has Lua types; queries are strings of bytes |

The arguments. For handles, `ReadHandleOwnsTxn` is not inductive alone: a
finalizer could end a transaction in the window between `mdb_txn_begin` and the
creation of the handle. `AnyInv` adds what `call` says about that window, which
objects the queue may hold, that a listed handle lives in an open environment
and that a running transaction has its handle (`RunningHasHandle`).
`CommittingInv` adds, while commits succeed, that every pointer into an open
environment is to the transaction its handle began, and the same of the window
(`BeginInv`). It needs nothing of the collector: which objects a cycle queues,
and which it leaves afloat, is arbitrary. That is also why there is no theorem
that a closed environment runs no transaction: it would need every open
transaction to be finalized before its environment, and floating ones are not
(section 6).

For the store, `StoreInv` relates the three numbers: `mti` names a meta page;
the newest differs from it only while a commit is between its two writes, or
after it was cut there with the mutex dead, or by the page of a failed commit
(`stray`); a writer's number is one above `mti`, and above both pages unless it
meets a stray one, which it then replaces. `ReadInv` says that a reader between
its two steps holds a number `mti` has or had. The refinement maps `Publish` to
the abstract commit, and a crash after `WriteMeta` to a crash in doubt.
`WriteMeta` is `Offer`, not a stutter: the page it writes is the one that
readers go to whose number is older than `mti` and of its parity, so what these
will copy changes (`MappedReads`). They are overtaken, as the abstract step
demands, because a reader whose number still is `mti` goes to the other page.
`MappedRoots` and `MappedDoubt` say the same of the failed write.

For the encoder, `RefsArePath` needs to know that neighbouring frames are linked
by the field the upper one was found in (`StackLinked`), or a cycle could be
raised for tables that do not hold each other; then the frames from the table
found again to the top are the loop `CycleIsReal` asks for. The outcome of a call
needs more, since it speaks of everything the argument reaches. `OutInv`
adds three parts to the invariant. Each frame is the table at its path, and each
of its fields is still to be given, is the one the walk is inside of, or is
accounted for (`FramesPlaced`); a path converted has all its fields accounted
for, and is shorter than the number of tables (`TreeClosed`), since the tables
on the stack differ; an error names something that was reached
(`ErrorJustified`). When the argument itself is converted, `TreeClosed` carries
every path that leads to a table into the paths converted, and a loop would give
such a path of any length. `At` is a
recursive function: the proof reads it through trails, the sequences of tables
along a path, and takes the least length where an induction would stand.

For the decoder, `WalkInv` says where the walk stands. The calls under way are
for the nodes of a path from the root, each counter one above the children
called for so far (`CallInv`); on the Lua stack lie the tables of these nodes,
under each the key it will get in the caller's (`StackInv`); each table was made
for one node, in the order of nodes (`MadeInv`). The core is `FieldInv`: a
table's field of a key is what the latest finished child of that key stands for,
and nothing if that is null. A node is finished when its own call is over, so
that a nested table counts only once it was put into its parent's. `LeaveTable`
needs that no child of a finished node is still to come, which the order of the
nodes gives. `MarkInv` is the metatables': two tables share one only by the
script's doing, so a mark is always about one table.

When the walk is over every node is finished, and `FieldsAre` reads `RoundTrip`'s
account off the fields: what is left of an object's children has one node to a
name, and an array's places are `1..n` exactly if its nulls come last
(`PlacesFill` and `Hole`, which is where its order is lost). `Returned` and
what encoding writes are recursive functions, of which a proof may use the equation
only once some function is known to obey it. `ReturnedIs` builds one from the last
node down, since children come after their parent. In `TablesWritten` the account
itself, taken at the tables' nodes, obeys the equation of the encoder; what is written
is the same, since the last table written otherwise would have only fields
that are not.

For the readers, the invariant has a part per mechanism. `LockInv` and `MetaInv`
are the store's: who writes, and that the page `mti` names is current. `PageInv`
says that nothing a writer remembers is beyond the committed number, which is
why an old answer in `pgoldest` is harmless. `TableInv` says what a worker has in
the table at each point of its begin. `ReadInv` is the core: a reader that found
`mti` unchanged after entering its number (`copy`, `reading`) is below no bound
any writer knows, and a scan in progress either has its number already or has
not come to its slot (`Safe`). Before `Check` nothing protects the reader; that
`mti` was unchanged at `Check` means that no writer could have had a bound above
the number entered. The snapshot copied afterwards may be newer than the number,
never older, so the slot protects it too.

For keys, both comparisons are lexicographic: the first place where two strings
or keys differ decides, and a lemma for each says so (`DifferenceDecides`);
transitivity is then the usual argument on the earlier of two such places.
Encoded keys can be read back in one way only: at the place where a segment
starts stand its length and type, so that two encodings that agree over the
bytes of the first agree segment by segment. That is `MatchesIsPrefix`, and it
fails for a NUL because `strncmp` stops there.

For traversal, `IterInv` types the iterator, and `PrefixPlain` says that it
holds a plain prefix; the answer of a call matches that prefix, so its next
segment is where it was found, and adding one to a byte below 255 goes up.
`AdvancesAlways` needs the hypothesis: after the byte 255 the key wraps and the
loop starts again. `DumpCorrect` and `DataCorrect` rest on `SubtreeTogether`:
what lies between a node and something below it is below it, since it can differ
from neither at an earlier place; this is where a number and a string of the
same spelling have to be told apart, because `CompareKeys` does not.
`TraversalAsPromised` is the refinement of `OrderedScan`. A call that goes on
from a name seeks the next lexical value of that name; `NextNameSplits` says
that a plain name is below that value exactly if it is at most the name gone on
from, unless it starts with it. So the seek lands behind everything already
returned and before everything else, and `LeastIsBelow`, again by
`SubtreeTogether`, says that the first key there is the abstract scan's answer.
`ScanInv` carries this through the writes between calls: the iterator stands at
the name it returned last.

The hypotheses are defined in `LuaDbOrder`: `PlainNames` (no empty name, no NUL, no
byte 255), `OneSpelling` (no two names differ only in their type),
`NoneStartsAnother` and `ReadsBack` (a number or a boolean is pushed as the bytes it
was stored as, for which its digits must not run into those of the segment after
it). TLC evaluates them on the keys of the runs (`KeysArePlain`): `order_plain`
satisfies all four, `order_nested` all but `NoneStartsAnother`, without which the
refinement fails (section 6).

For the start, `StackInv` says what the Lua stack tells of the settings: with
the table still on top none was missing so far, with a nil the one just loaded
was; so the start is aborted only for a setting that is missing.
`PathInv` bounds the room by the number of `-i` options seen: while there were
no more than `MaxPaths` nothing was overrun. `CopyInv` adds that, as long as
nothing was, each copied path is that of its own option, the options in
increasing order; the search path is made of the copies, so it has their order.

For the worker, `SendInv` says that after headers that were no table something
that is no table lies on top of the response; that is why a body can never go
out without its separator. The type invariant needs what the loop over the
query has made so far (`QueryInv`: up to three values of a name) and that
nothing of a response is there before the router ran (`HeadersInv`).

What the worker makes of a query needs `FateInv`. Its part `FieldInv` says where
the loop stands: the fields handled so far are those the reference has complete
when it reaches the iterator's position, and `query` is the table of just these
(`TableOf`). `StackInv` says what the functions find on the Lua stack: the
tables they expect (`Reading`) while no name has a third value, and one value
too many (`Spoilt`) once one has. `RequestInv` and `AnswerInv` carry this to the
router and to the answer. A turn of the loop adds one field, by three lemmas:
`CutUpToIs` (the iterator's next field is the reference's), `DecoderCorrect` (the
search for escapes gives what the automaton gives, and does not return exactly
if an escape is cut short), and `ValuesUpToIs` (the table with one more field).
`StepsGiveFunction` shows that the recursive functions of the reference exist and
obey their equations; where an induction would stand, the proofs take the least
number for which a statement fails (`AllNumbers`).

Every invariant and action property of a passing run, and both refinements, are
theorems; the type invariant of `JsonDecode` is a theorem only, without a run.
Only model-checked are the five liveness properties, which the prover does not
reach: `ForgottenTxnEnds`, `CommitReturns`, `DeadOwnerReplaced`, `EncodeEnds`
and `RequestEnds`. The theorems of traversal but `TypeCorrect` say nothing of
names with a NUL or the byte 255, for which they are false, or of empty names,
for which `Matches` can take part of a length for a prefix. `CycleSound` states
`CycleIsReal`, which no run repeats: `OutcomeJustified` says more of the same
instance.

## 6. Findings

1. `handles_closed`: the reference table is weak in its values too, so that
   after one collection `env:close()` ends nothing (`src/lmdb.c:1105`).
2. `handles_lost`: a finalizer that raises inside `env:begin()` leaves a
   transaction no handle can end (`src/lmdb.c:590`).
3. `order_nested`: siblings whose name starts with the one before are skipped
   (`src/lmdb.c:1631`).

The code departs from what its documents and comments say in five more places.
The modules state the broken promise as an operator of its own, which no
passing run asserts or denies of the code (`HandleOwnsTxn` is asserted where all
commits succeed); TLC finds it violated when it is named in the configuration given.

- `ClosedEnvHasNoTxn`, with `OrderedSpec` in `HandlesClosed.cfg`: a transaction
  marked before it was dropped outlives its environment by a cycle; the
  environment is freed under it, though the script did nothing but forget both
  (`src/deps/lua/lgc.c:866`). `src/lmdb.c:1073-1075` counts on the table for an
  ordered collection.
- `HandleOwnsTxn`, with `Spec` in `HandlesClosed.cfg`: a handle keeps its
  pointer after a failed commit and can then end the next transaction of its
  environment (`src/lmdb.c:622`), though `src/deps/lmdb/lmdb.h:973` has the
  commit free it.
- `DataAsDocumented`, `OrderPlain.cfg`: `data()` misses the only descendant of a
  node without a value (`src/lmdb.c:658`, against `doc/API.md:81-85`).
  `DataTrusted` says that it errs in no other case.
- `RepeatedHandled`, `Fcgi.cfg`: a third value of a name in a query string ends
  the worker (`src/fcgi.c:510`, against the comment at 468-470).
- `MissingTakesDefault`, `Startup.cfg`: a setting missing from the configuration
  file, unless it is the last, aborts the worker where the code means to use the
  default (`src/config.c:160`, against the comment at 159).

Further observations, which the models show and the properties describe as they
are:

- An iterator does not keep its transaction alive: the collector may end it
  under a loop (`src/lmdb.c:1293`).
- A number read back takes the digits of what follows it in the page along: 1
  with the value "5" comes back as 15 (`src/lmdb.c:1279`).
- The sixth `-i` asks `realloc` for a number of bytes where it means pointers,
  writes past the block, and writes even if there is no block
  (`src/main.c:192`). Copies of `-i` paths have no NUL (201). An empty script
  name overruns the new `package.path` by a byte (`src/state.c:121`). Without a
  Lua state the prompt calls `lua_close(NULL)` (`src/main.c:109`).
- `json.decode` gives nil for `null` and for text that is not JSON. Arrays with
  a null in them lose their order when they are encoded again. `makearray`
  marks the metatable a table has, and with it every table that shares it
  (`src/json.c:262`; `mixed` in `MarksAsAsked`).
- A read transaction whose begin is overtaken by commits may see one that is
  between its meta page and `mti_txnid`, or one that failed; another worker's
  transaction that begins later may then still see the state before
  (`src/deps/lmdb/mdb.c:2669`; `overtaken` in `SnapshotStore`, `FreshSnapshot`).
- A commit whose meta page could not be written, nor its number written back,
  has failed for its script and may be there after the next opening
  (`src/deps/lmdb/mdb.c:3759`; `stray` and `doubt`).
- The slot of a killed worker whose process id belongs to a live one is not
  cleared by `reader_check`, and holds back page reuse until that worker
  closes.
- `lmdb.open` with a table of options raises unless both `maxreaders` and
  `mapsize` are in it (`src/lmdb.c:957`), where `doc/API.md:53-54` gives
  defaults.
- An escape with fewer than two bytes after its `%` hangs the worker
  (`src/query.c:125`; `QueryFate`).
- The status of a response is looked up with the NUL behind its name and never
  sent (`src/fcgi.c:209`). The value of a field without a name is dropped
  (543). A field is cut at its last `=` (`src/query.c:57`).
- Encoding a function follows a NULL pointer (`src/json.c:320`), where
  `doc/API.md` promises an error.

## 7. Not modelled

- Names of segments of 128 bytes and more, whose length reads back negative;
  keys of more than 511 bytes or 32 segments; names of the same spelling with
  different types, which are one key to `put` and two to `order`.
- `iorder()`'s count, and a cursor of `data()` that crosses a page.
- LMDB's B-tree and free list: `LmdbReaders` has when pages may be reused, not
  which. The meta page's number and roots are written at once, though a reader
  could copy them while they are; claiming a slot is one step under the reader
  mutex, so no worker dies inside it; a process opens a file once.
- A meta page whose write is cut within the roots, and a reader that copies roots
  while they are written; the failures of the mutex repair. In `LmdbReaders` the
  number of a failed commit is always put back; `LmdbStore` has the case where it
  is not. A map that another worker has resized is only in `LmdbReaders`.
- `LmdbReaders` and `LmdbStore` are two models of a reader's begin; that the first
  implements the second is not stated (section 2).
- Text: of JSON, of headers and their names, of the log; of paths only the
  pieces between separators.
- What is typed at the prompt; UUIDs (no state; the generator is the
  platform's); the sample request handler, which is one of the routers that may
  answer anything; the vendored libraries, but for the collector's order of
  finalizers.
- The calls of an environment that only copy an answer of LMDB into a table.
- Failures of `malloc`, except for the length of a request body, the block and
  the copies of `-i` paths, and a new Lua state.
- What a failed call leaks.
