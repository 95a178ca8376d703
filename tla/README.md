# RedisGen: specifications and proofs

RedisGen is a Redis-compatible in-memory server in Node.js (`src/`). This
directory holds TLA+ specifications of its core, the TLC configurations that
check them on small instances, and TLAPS proofs for all values of the
constants. All line numbers refer to `src/src/` unless a path says otherwise.

Run from this directory:

    tlc -workers 2 -config keyspace_core.cfg MCKeyspace     # one run, see "Runs"
    tlapm KeyspaceProofs.tla                                # one proof module

## 1. Inventory

RedisGen is single-threaded: a request handler, a timer callback or a socket
callback runs to completion on the Node.js event loop. Nothing in the keyspace
awaits anything, so one handler is one atomic step; concurrency is the order in
which handlers of different clients, the sweep timer, the autosave timer and
the passing of time are interleaved.

| Component | State | Operations | Correct when |
|---|---|---|---|
| `DataStore` (`datastore/store.js`) | per database a value map and a type map; key versions; watch table; dirty counter; `_restoring` | get, set, deleteKey, rename, exists, typeOf, keysInDb, flush, swap, watch | the parallel maps name the same keys; expired keys are invisible; every visible change bumps a version |
| `ExpiryManager` (`datastore/expiry.js`) | deadlines under `db:key`; sweep timer | set/remove deadline, isExpired, `_sweep`, swapDb, clearDb | a deadline belongs to a value; what has passed is purged in the end |
| `LRUEviction` (`datastore/lru.js`) | access times | touch, remove, evict | under `volatile-lru` only keys with a deadline go |
| command handlers (`commands/*.js`) | none | about 90 commands | each changes only the keys it names, in value and deadline as promised |
| transactions (`commands/transaction.js`, `registry.js`) | per connection `txQueue`; watch table | MULTI, EXEC, DISCARD, WATCH, UNWATCH | EXEC runs only if no watched key was modified; nothing of a transaction is left behind |
| connections (`connection.js`, `bridge.js`) | id, selected database, parser buffer | data, close; dispatch; AOF logging | ids identify; everything a connection owned is released |
| Pub/Sub (`commands/pubsub.js`) | channel and pattern maps, and each connection's own sets | subscribe, unsubscribe, publish, removeConnection | both sides agree; a message reaches every subscriber |
| AOF (`persistence/aof.js`) | file, write buffer, flush timer | append, flush, replay, truncate | replay rebuilds the keyspace |
| RDB (`persistence/rdb.js`) | snapshot file, time and dirty count of the last save | save, load, autosave | load(save(s)) = s as clients see it |
| lifecycle (`server.js`) | – | load, start, shutdown | a graceful restart keeps the data |
| protocol (`protocol/*.js`) | parser buffer | append, parse, encode | the commands do not depend on how the stream is cut |
| frames (`bridge.js:149-242`) | buffer of each client | decode, answer, close | texts and answers do not depend on how the stream is cut |
| collections (`commands/lists.js`, `hashes.js`, `sorted_sets.js`) | an array, a Map, a Map with a sorted array, under a key | about 35 commands | both halves of a sorted set agree; loops and replies do what they are defined to; changes bump versions |
| SCAN (`commands/keys.js:203-255`) | none (the cursor is the client's) | one command for each part of the walk | a key that is there throughout is returned, none twice |
| glob (`utils/glob.js`) | four indexes during a call | match | accepts what some filling of the stars makes |
| front end (`../frontend/app.js`) | socket, callbacks by request id, polling timer, selected database | connect, disconnect, send, events of the socket | a callback gets the reply to its own request; what is shown is true |

How they interact: a connection parses a chunk, and `registry.dispatch` either
queues the command (inside MULTI) or calls its handler; handlers call
`DataStore`, which calls `ExpiryManager` and `LRUEviction`; the sweep timer
calls `DataStore.deleteKey`; `store.set` may call the evictor, which calls
`deleteKey` on other keys; every mutation bumps a key version, which
`isWatchDirty` compares for EXEC. After a handler the connection appends write
commands to the AOF.

What is hard, and hardly reached by the tests in `src/tests/`: the moment at
which an expired key is purged (by a read, by the sweep, by an eviction, or not
yet) and what a write does that meets it before; evictions in the middle of a
command; a `set` refused by the memory limit, which no handler notices; the
interleavings of WATCH with other clients; two numbering schemes for
connections in one watch table; two records of every subscription, which RESET
and the bridge update on one side only; what of the last commands has reached a
file when the process ends, and what replay makes of it; streams that the network
cuts where it likes; loops that change the array they walk over; floating point
infinities in a bisection; events of a socket that the page has already given
up. `PROJECT.json` lists the hazards line by line.

## 2. Modules

    DataStore            methods of DataStore, ExpiryManager, LRUEviction as operators on stores
      Commands           command handlers, each as the set of stores it may leave
        Keyspace         the state machine: store, clock, one action per handler, sweep, tick
          Transactions   connections, watch table, MULTI/EXEC over the keyspace
          Persistence    log, snapshot, start, shutdown, crash over the commands
    AbstractKeyspace     what the keyspace promises to a client
    PubSub               broker and subscriptions
    SortedSets           the two halves of a sorted set, ZADD and the bisection step by step
    Lists, Hashes        the commands on the value under one key
    Scan                 the cursor of SCAN among clients that add and delete keys
    Glob                 globMatch round by round
    Wire                 TCP chunks to RESP messages to commands
    Frames               chunks to WebSocket frames, and answers back
    Dashboard            the page, its sockets, and the bridge's end of them
    MCKeyspace, MCTransactions, MCPersistence, MCPubSub, MCClients      constants for TLC
    CommandsProofs (DataStore and Commands), KeyspaceProofs, TransactionsProofs,
    PersistenceProofs, SortedSetsProofs, CollectionsProofs (Scan, Hashes, Lists and Glob),
    ProtocolProofs (Wire and Frames), ClientsProofs (PubSub and Dashboard)

**DataStore.** A store is a record of maps over slots (pairs of a database and
a key): `val` and `typ` for `_dbs` and `_types`, `ttl` for `_timers`, `acc` for
the keys of `_accessTime`. `mod` stands for `_keyVersions`: versions only grow
and are only compared for equality, so what matters is which of them a step
has bumped. `SetOutcomes` is `store.set` with `enforceMemoryLimit` and `evict`
inside: heap size is the allocator's, so whether the limit is exceeded before
and after an eviction is free, and the outcomes are a set.

**Commands.** `CmdX(s, t, ...)` is the handler `cmdX` started in store `s` at
time `t`. It keeps the order of the calls (check type, get, mutate the stored
Set in place, set or markDirty, drop when empty, adjust the deadline), because
each of them may purge, evict or be refused. Strings are opaque: INCR, APPEND
and the like compute "some string" (`CmdUpdate`). `Date.now()` is constant
during a handler.

**Keyspace.** Each action applies one `CmdX` to the store. `Sweep(S)` is one
run of `_sweep`, S the due entries its random sampling hit; it ranges over
`_timers`, so it may hit a deadline that has no value. `Tick` is the clock.

**AbstractKeyspace** is a map from slots to entries (value and deadline), from
which an entry vanishes when the clock reaches its deadline. It knows nothing
of purging, sweeping, type tags, access times or versions. Each command is the
set of maps it may leave, under the name and with the parameters it has in
Keyspace: `Persist(x)` is the same map if there is no entry at x.
`ImplementsAbstract` says three things. Keyspace is a behaviour of
AbstractKeyspace. In every reachable state, with expired values purged or not,
every outcome of every command shows what the abstract command *of that name
and those arguments* may leave (`ReadsAsPromised`, `WritesAsPromised`, ...); as the
action of a command takes one of those outcomes, it is not free to be explained by another
command or on another slot. And a sweep changes nothing that is shown, while a
tick removes exactly what is due.

**Transactions.** Per connection: id, selected database, whether it is inside
MULTI, and its queue; the watch table per id and slot, "clean" or "dirty" in
place of the saved version; and two history variables, what each client
believes it watches and which of that has visibly changed. `Handle` runs one
command; `Do` when it arrives outside MULTI, `ExecEntry` when EXEC takes it
from the queue. EXEC is atomic in the code; the model gives each queued
command a step of its own during which nothing but the clock may move, so that
a proof needs no induction over the queue.

**Persistence.** One server process after another over one pair of files. The
configuration (appendonly, appendfsync) is chosen at the start of a behaviour.
`Run` and `Exec` are a command and an EXEC with what `connection.js` appends to
the log afterwards; `BridgeQueue` is what `bridge.js` appends too early. `Log`,
`Flush`, `Replay` and `Truncate` are the methods of `AofPersistence`, `Snapshot`,
`Save` and `Load` those of `RdbPersistence`; every write of a file may fail.
`Start`, `Shutdown`, `Stop` and `Crash` are the ends of a process. The commands
are those of module Commands, applied here to a sequence: `Replay` folds them
over the log, on database 0, with deadlines counted from the time of the
restart, as the code does. History variables: `spoilt` (a write failed, or the
log holds what did not happen on database 0) and `uncounted` (slots changed
without counting as dirty).

**PubSub.** `broker` is the maps of `PubSubBroker`, `subs` the sets each
connection keeps. `Reset` and the end of a bridge client update one side or
none, as in the code. A bridge client has no `write`, so a PUBLISH that reaches
one throws, nothing catches it, and the process ends (`PublishThrows`).

**SortedSets.** `zmembers` and `zsorted` are the Map and the array of one
object. A command takes many steps (each pair of ZADD, each round of
`insertSorted`), so that the invariants say something about half a command too;
`ZStore` is `store.set`, which may refuse and is not asked. Scores are integers
with two infinities and NotANumber; `FloatSum` and `Precedes` keep what matters
of doubles: sums overflow to infinity, equal infinities have no order by name,
NotANumber compares with nothing. Commands that read are operators (`ZRange`,
`ZRangeByScore`, `Rank`...).

**Lists, Hashes.** The loops of LREM and LPOS take one step a round; `lbumped`
says whether the last command has bumped the version of its key. A list goes in
two ways: by `deleteKey` (DEL, the sweep, an eviction), which bumps
(`LDelete`), and by a read that notices its deadline, FLUSHDB or FLUSHALL, which
bump nothing (`LVanish`); SWAPDB brings another list without a bump (`LSwap`).
`lsilent` marks the last two. Strings of a
hash are what `strictParseInt` and `strictParseFloat` make of them: a number, in
halves so that some are no integers, or `Text`.

**Scan.** The server keeps nothing between two calls, so the state is the set of
keys and what the client has; history variables remember which keys were there
all the time and which at some time. `Bucket` is any function: what the hash is
does not matter.

**Glob.** A pattern is a sequence of items, each the set of characters that it
accepts, a star, or a bracket that is never closed. Each round of the loop is a
step; `Accepted` asks for a way to fill the stars: how many characters lie before
the end of each item. That the loop ends is not checked (every round moves `gsi`, or `gstarSi`, or `gpi`).

**Wire, Frames.** The stream of a connection is written once (`Written`,
`BrowserFrame`: what clients do, by RESP and RFC 6455) and arrives in chunks of
any size; `TryParse` and `DecodeFrame` are the functions of the code on the
buffer. Tokens of data may be any mark of the protocol, CR and LF included. In
Frames a byte has `Base` values and one byte holds lengths up to `SmallMax`: 256
and 125 in the code; the run takes less, the proofs take any. What is written
is given by prefixes (`Stream(messages)[n]` is the first n messages as written),
so that a proof can go from n messages to n + 1.

**Dashboard.** `dws` is `ws` of the page, `dstate` the states of all sockets it
has made, open at both ends; `dup` and `ddown` are what is under way on each.
The handlers act on `ws` whichever socket their event belongs to, as in the code.
The user may type anything in the terminal; what matters of it is what it does to
the database of the bridge's client (`dserverDb`) and to a transaction open there
(`dserverTx`, the database that EXEC would leave): SELECT and RESET ("typed"),
MULTI, EXEC and DISCARD, anything else ("other"), and a line of quotes with
nothing in them ("empty"), which parses to `[]`. The bridge refuses that by an
error without an id, and its callback stays. The history variable `dtold` names
the connection that was told of the database in db-select.

## 3. Runs

| Run | Instance | Shows |
|---|---|---|
| `keyspace_core` | 2 databases of 2 keys, 1 string, 1 member, times 1..2, deadlines to 3 | `TypeOK`, `MapsAgree`, `TimersOwned`, `VisibleChangeBumped`, `ImplementsAbstract` |
| `keyspace_memory` | 1 database of 2 keys, 2 members, `volatile-lru`, an evict call removes 1, writes refused when it finds nothing; fairness of the sweep | `SilentChangesAreRefusedSadds`, `PersistentKeysSurviveWrites`, `VanishedKeysBumped`, `ExpiredEventuallyPurged` |
| `tx_select` | 2 TCP clients, 2 databases, SET/SELECT/SWAPDB/UNWATCH/RESET | `TxTypeOK`, `WatchTableExact`, `CommitMeansUnchanged` |
| `tx_commands` | 1 client, 2 keys, strings and sets, every kind of command, times 1..3 | `CommitMeansUnchanged` |
| `pubsub` | 2 TCP clients and a bridge client, 2 channels, 1 pattern that matches one | `TypeOK`, `SubscribersKnown`, `NoStaleSubscriber`, `PublishReachesSubscribers` |
| `persistence` | log (`always`, `everysec`) and snapshots, 2 databases of 2 keys, 4 commands, times 1..2 | `PTypeOK`, `LogRebuilds`, `CleanMeansSaved`, `OrderlyStopKeepsData` |
| `clients` | one part in each behaviour, see below | sorted sets: `IndexExact`, `SortedUnlessNaN`, `OptionsHonoured`, `RangesExact`; lists: `LremExact`, `ListRepliesExact`, `ListChangesBumped`; hashes: `HashRepliesTrue`; SCAN: `FullScanComplete`, `NoKeyTwice`, `ScanEnds`; glob: `GlobExact`; streams: `CommandsAsWritten`, `TextsAsSent`, `AnswersReadBack`; front end: `RepliesReachCallbacks`, `DashboardInStep`, `DatabaseInStep`, `RequestsAnswered` |
| `rename_deadline` | – | violated: RENAME leaves the target's old deadline in force |
| `watch_flush` | – | violated: FLUSHALL goes unnoticed by WATCH |
| `watch_bridge` | – | violated: a bridge client wipes the watches of a TCP client |
| `aof_shutdown` | – | violated: a graceful shutdown with appendonly loses the keyspace |
| `rdb_expiry` | – | violated: a key that expired while the server was down comes back for ever |

*Bounds.* Two keys are what RENAME, MSET, SWAPDB and eviction relate. Two
databases are what SWAPDB and SELECT relate. Times 1..2 with deadlines 1..3
give every order of "set in the past", "due now", "due at the next tick" and
"not due". A set of one member is enough for `keyspace_core`, where a removal
empties it; removing a part of a set is in `keyspace_memory` (two members)
and in the proofs. Strings, keys, databases and members are interchangeable,
which the symmetry sets use, except in the liveness run. Transactions are
bounded by `MaxQueue`; as queued commands are independent of each other apart
from the store, one or two show what more would. In `tx_commands` the commands a
client sends between WATCH and MULTI stand for those of other clients: the
watch table does not record who changed a key. `persistence` allows
`MaxCommands` = 4 commands in a behaviour, and any number of ticks, saves,
flushes, crashes and restarts between them: enough for a key to be written,
given a deadline, moved and removed, or for two transactions. `appendfsync no` is
`everysec` without its timer, and so adds no behaviour. In the
Transactions and PubSub runs a client that has left does not come back (a
reconnection is another client), and everyone may leave: deadlock is not checked
there.

*The run `clients`.* Its eight parts share no state, so nothing is lost when a
behaviour runs one of them (variable `part`) and the others stay as they began:
the states add up instead of multiplying. Sorted sets: 3 names, finite scores
-1..1 (reached by increments) and both infinities, ZADD and ZREM of 2, which
includes naming a member twice; the array of 3 makes the bisection turn both
ways. Lists: 2 values, up to 3 elements, indexes and counts from -4 to 4. Hashes:
2 fields, integers up to 3, numbers up to 4 in halves. SCAN: 4 keys in 4 buckets,
two in one bucket, one bucket empty, one key that MATCH refuses. Glob: patterns
of 4 items, strings of 3 characters, so two stars with items between them and
after them. Streams: up to 3 messages in chunks of up to 5 tokens, and up to 2
frames in chunks of up to 14 bytes, with payloads below, at and above both
limits. Front end: 2 sockets, 2 databases, and the user sends while fewer than 4
requests have been numbered and fewer than 2 are under way on a socket; EXEC may
be one more, so that a choice, MULTI and EXEC fit between the requests that the
page makes itself. Two sockets are what an overlap and a reconnection relate.
Every part may come to rest, so deadlock is not checked there.

*Fairness.* `SweepFairness` asks, for each slot, that a sweep which could hit
it is not postponed for ever. The sweep is a `setInterval` that lives as long
as the server (`datastore/expiry.js:55-68`), and every run draws 20 entries
uniformly, with replacement, so that each due entry is hit with a probability
bounded away from zero: with probability one it is hit at some run, which weak
fairness states. `ScanFairness`: a client that scans goes on until the cursor
is 0. `DFairness`: the bridge handles what has arrived, the browser delivers
what it has received and ends the closing handshake; these are event loops
that handle every event. Nothing is assumed about other clients, users or the clock.

*The violations* are behaviours of the code against what a test of the
repository says; `PROJECT.json` quotes the lines. They bound what the passing
properties claim: `VisibleChangeBumped` and `CommitMeansUnchanged` except
FLUSHDB, FLUSHALL and SWAPDB, `AbstractKeyspace!Rename` describes RENAME as it
is, and the passing Transactions runs have TCP clients only.
`OrderlyStopKeepsData` speaks of `stop` with the log and of a shutdown with the
snapshot. `LogRebuilds` claims nothing about a log that a failed write, a write to
another database or a queued bridge command has spoilt, nor about slots a
deadline has influenced (`Dated`): nothing in the repository promises more, and
the hazards in `PROJECT.json` say what happens there.

*Other exceptions that the code forces.* `SilentChangesAreRefusedSadds` names
the one command whose refused write changes a value without a bump;
`ListChangesBumped` excepts refused pushes likewise, and the steps that bump
nothing for any type of value: a deadline noticed by a read, FLUSHDB, FLUSHALL,
SWAPDB. `SortedUnlessNaN` stops
once ZINCRBY has added opposite infinities. `DashboardInStep` speaks of a page
that never connected while an earlier socket was not closed.

`DatabaseInStep` is about the connection that was told of the database shown: it
was chosen there outside MULTI (or it is the 0 that a connection begins with), and
no SELECT or RESET has been typed there since. The last choice then wins over
whatever was typed or chosen before it and is still under way, and over
transactions begun after it. Where the page was not told, it does show the wrong
database: after a reconnection with db-select not at 0, after a SELECT typed in
the terminal (`../frontend/app.js:183-199`), and after a choice inside MULTI that
DISCARD drops.

`RequestsAnswered` excepts the empty command: the error of `bridge.js:253-255`
has no id, `../frontend/app.js:125` ignores it, and the callback stays for as long
as the page lives.

`CommandsAsWritten` is about streams whose lines all
end alike: a line ended by LF alone, with a CRLF behind it in the buffer, is
parsed together with what follows (`protocol/parser.js:131`). `TryParse` has no
case for a bulk string outside an array: no client writes one as a command.
`HandleFrame` answers every text: a handler that throws (the JSON text `null` at
`bridge.js:253`, a PUBLISH that reaches a client of the bridge) ends the process
instead, since nothing catches it; the latter is `PublishThrows` of PubSub.

## 4. Proofs

All for every value of the constants (any databases, keys, values, any memory
policy unless stated), from the named assumptions in the modules that declare
the constants (`grep ASSUME`): databases and keys are what the code takes them
for, markers such as `Absent` or `Star` differ from what they mark the absence
of, bounds are natural numbers. `WireParameters` says that the marks of RESP differ
from each other, from digits and from letters where the parser has to tell them
apart (data may be any of them), that the words of a line are letters, and that
the lines of a stream end alike; `FrameParameters` that a payload is shorter
than eight bytes can say, which the protocol demands. TLC evaluates them in
every run.

| Theorem | States |
|---|---|
| `StoreConsistent`, `KeyspaceTyped` | `Spec => [](TypeOK /\ MapsAgree)` |
| `TimersStayOwned` | without a memory limit, `Spec => []TimersOwned` |
| `NothingVanishesUnnoticed` | `Spec => VanishedKeysBumped`, with eviction |
| `ChangesAreBumped` | without a memory limit, `Spec => VisibleChangeBumped` |
| `OnlyRefusedSaddsAreSilent` | `Spec => SilentChangesAreRefusedSadds` |
| `PersistentKeysSurvive` | under volatile-lru, `Spec => PersistentKeysSurviveWrites` |
| `KeyspaceImplementsAbstract` | without a memory limit, `Spec => ImplementsAbstract`: Keyspace refines AbstractKeyspace, each command that of its name |
| `ConnectionsTyped` | `TxSpec => []TxTypeOK`, bridge clients included |
| `TransactionsDriveKeyspace` | `TxSpec => Spec`: what is proved of the keyspace holds under any clients |
| `WatchTableIsExact` | with TCP clients only, `TxSpec => []WatchTableExact` |
| `OptimisticLocking` | with TCP clients only and no memory limit, `TxSpec => CommitMeansUnchanged` |
| `PersistenceTyped` | `PSpec => []PTypeOK` |
| `LogMirrorsStore`, `LogRebuildsStore` | `PSpec => []Mirrors`, `[]LogRebuilds`, for logs of any length and a restart at any time |
| `OrderlyStop` | `PSpec => OrderlyStopKeepsData` |
| `SnapshotLasts`, `CleanSnapshot` | `PSpec => []Saved`, `[]CleanMeansSaved` |
| `BrokerTyped`, `NoSubscriptionLost`, `NoSubscriberLeftBehind` | `Spec => []TypeOK`, `[]SubscribersKnown`, `[]NoStaleSubscriber` of PubSub |
| `MessagesReachSubscribers` | `Spec => PublishReachesSubscribers` of PubSub |
| `ScanMissesNothing`, `ScanSendsNoKeyTwice` | `SSpec => []FullScanComplete`, `[]NoKeyTwice`, for any hash |
| `HashRepliesAreTrue` | `HSpec => HashRepliesTrue` |
| `ListsConsistent`, `LremIsExact`, `ListRepliesAreExact` | `LSpec => []ListInv`, `[]LremExact`, `[]ListRepliesExact` |
| `ListChangesAreBumped` | `LSpec => ListChangesBumped` |
| `IndexStaysExact`, `ArrayStaysSorted`, `OptionsAreHonoured` | `ZSpec => []IndexExact`, `[]SortedUnlessNaN`, `[]OptionsHonoured` |
| `RangesAreExact`, `EveryRangeIsExact` | `ZSpec => []RangesExact`, and the same for every integer as index or count |
| `GlobIsExact` | `GSpec => []GlobExact` |
| `WireInvariant`, `CommandsArriveAsWritten` | `WSpec => []WireInv`, `[]CommandsAsWritten`, for any messages cut anywhere |
| `FramesInvariant`, `TextsArriveAsSent`, `AnswersAreReadBack` | `FSpec => []FramesInv`, `[]TextsAsSent`, `[]AnswersReadBack`, for any frames cut anywhere |
| `RepliesTheorem`, `DashboardTheorem`, `DatabaseTheorem` | `DSpec => []RepliesReachCallbacks`, `[]DashboardInStep`, `[]DatabaseInStep` |

*Argument.* `TypeOK` is not inductive: RENAME and SADD write back what they
read, so the type a write records is right only because the maps agreed
before. The inductive invariant is `TypeOK /\ MapsAgree`, called `Consistent`
of a store. The first section of `CommandsProofs` shows that every method of
DataStore preserves `Consistent`, the second composes those facts along each
handler; `KeyspaceProofs` does the case split over `Next`. For the action properties the same composition is
done with two relations between the store a handler starts from and the store
it leaves: `Tidy` (what a client sees of a slot differs only if the slot is in
`mod`, and no deadline loses its value) and `NoLoss` (what became invisible is
in `mod`). Both are reflexive and transitive, so a handler is the composition of
its calls. `Tidy` fails for a `set` that may be refused, hence the assumption
`~MemoryLimited`; `NoLoss` holds for evictions and refusals too. Its first half,
`Noted`, survives a refusal under a policy that evicts, except for SADD: the
refused write has purged every expired key, so the options that follow it cannot
bring one back (`Accounted`). A third such relation, `Kept`, says that the keys
without a deadline other than the one written are as they were.

The refinement looks at `Seen`, the value and the deadline a client sees of each
slot, which is what the abstract `entries` are. For each handler a lemma of
`CommandsProofs` or `KeyspaceProofs` says which change of it the outcomes show,
by cases on what the client sees before: none (`Same`), some slots vanish
(`Removes`), one slot gets a value and a deadline (`Gets`), an entry moves. Two
lemmas carry this over: `AbstractSlot` (what the abstract specification sees of a
slot is what the handler finds after its lazy check) and `AbstractMaps` (each kind
of change leaves a map that the abstract building block allows). With them every
command is the abstract one of its name (`ReadsKept`, ...), which gives
`CommandsAsPromised`, and from that the steps of Keyspace are steps of
AbstractKeyspace. Besides `Consistent` it needs `TimersOwned` (a value stored under
a key whose deadline has outlived it would be born expired) and that no deadline
lies beyond the bound the abstract clock has.

For Transactions the inductive invariant has four parts: `TxTyped` (types, and
that every open connection has an id), `Numbered` (ids count up, so that two TCP
clients never share one), `Exactness` (the watch table holds what the open
connections watch, and a closed one watches nothing) and `Marked` (what a client
has seen change through a command is dirty in the table). `Marked` needs
`VisibleChangeBumped` of the keyspace step below it: a visible change bumps the
version, and `MarkBumped` turns the entry dirty. EXEC then finds it.

For Persistence there are three invariants, and an induction below them. A run of
commands (`RunAll`: EXEC, and the replay of a log) is a recursive function, and
what it does is shown by induction on its length; `UpTo` is that induction,
with a set for the predicate, from the well-foundedness of the numbers (the
least number not in the set does not exist). `PInv` says that the live store and the snapshot are consistent stores. `Mirrors` says
that replay of file and buffer, at *whatever* time, agrees with the store on the
keys that no deadline has influenced: with the time of the restart fixed it
would not be inductive, since the clock moves on. What keeps it is that a
command, run on two stores that agree outside a set of keys, leaves stores that
agree outside that set and what it influences, whatever its outcome. `Saved` looks ahead in the same way: while no
change counts, the snapshot shows what the store shows now *and at every later
time*, so that the passing of time cannot break it.

For PubSub the three invariants are inductive together: a connection that closes
leaves only the topics of its own sets, and `NoStaleSubscriber` says that the
broker has it under no other.

For Scan the invariant splits the buckets at the cursor: a key that was there
throughout and lies behind the cursor has been returned, and every key returned
lies behind it. A step only moves the cursor up and returns all between.

For Hashes `HashInv` ties the Map to what is in the store. For Lists, `WalkInv` of
LREM says which elements were removed and that the array picks the others from
the old list, in order: a strictly increasing function from the new indexes to
the old ones, which a removal in the middle of the walk composes with a shift.
`SearchInv` of LPOS counts the matches behind the walker; what is still to be
skipped, what has been found and whether the walk is over follow from that count.

For Glob, `Round` says that since the last star every item has taken one
character, and that the string is accepted if and only if the pattern after that
star matches from where the star now ends or further on. A new star inherits
this from the last one: what the stars before it could do, it can do as well
(`StarEnds`, `StarBegins`). That is why going back to the last star is enough.

For SortedSets the invariant `ZInv` adds to the three properties what the
bisection knows (`SearchOK`, `SearchExact`: everything before `zlo` precedes the
entry being placed, nothing from `zhi` on does), and where a NotANumber can come
from (`NaNIsKnown`, `NaNIsOld`). It rests on `Precedes` being a strict weak order
when no NotANumber is about, although equal infinities are not ordered by name:
this is where equal infinities could have broken the search and do not. The
replies follow from the invariant without another one: between commands the
place of a member is a bijection, so members are counted by counting indexes,
and the loop over the array collects the k-th hit k-th (`FoundAreHits`).

For Wire and Frames the invariant is the same: there is an h such that the first h
messages have been dealt with, as if they had come whole, and the buffer is what
has arrived of the others. The general part (`Chains`, `Piece`) is about any
things written one after the other: a buffer that begins where the h-th ended
begins with a beginning of the next, or with all of it. It remains to show of
each parser that it answers "incomplete" to every proper beginning of a message
and finds value and end of one that is all there, whatever follows. For an array
this is an induction over its bulk strings, whose lengths carry the parser over
any CR LF in the data. For a frame it is that `Value` undoes `Bytes`: the
quotients by the base, from the highest byte on, are what `Value` adds up. The
number of complete messages that the properties speak of is h when nothing is being
parsed, since then the next one has not arrived whole.

For Dashboard there are three invariants. `Sound`: ids are never used twice, so a
request under way is at one place of one queue, no two sockets share one, and
while its socket is open its callback waits. `InStep`: without an overlap at most
one socket is in use, it is that of the page until the page lets go of it, and
it explains what is shown and polled. `Told`: on the connection that was told,
the queue is `Settled`: either the server has the database shown, in a
transaction too, and nothing under way changes it, or the SELECT of the last choice
is under way outside MULTI, with nothing behind it that changes the database.
Each request that joins the queue and each that the server takes keeps this.

*Only model-checked:* `ExpiredEventuallyPurged`, `ScanEnds` and
`RequestsAnswered`, since liveness under fairness is out of the prover's reach.
Every other property of a passing run is stated by a theorem above.

## 5. Not modelled, and the plan

Order of the work: what can lose or corrupt data first.

1. *Done:* keyspace and its abstraction, transactions, Pub/Sub, persistence,
   the collections, SCAN, glob, both wire protocols, the front end's connections,
   and the theorems above.
2. Next: an abstract durable keyspace which Persistence implements (after a
   restart, some recent state); lists, hashes and sorted sets as further kinds
   of `Commands`, so that their in-place changes meet eviction and WATCH in the
   composed runs; inline commands with quotes.
3. Proofs: what the extensions of 2 need, first the refinement of the durable
   keyspace from `Mirrors` and `Saved`.

Left out for good: reply formatting, logging, configuration, HTTP endpoints,
the rendering of the front end; malformed RESP and fragmented frames; commands
that only read a list, hash or sorted set by key; AUTH, which nothing consults (`connection.js:37-39`).
Abstracted: real time (a bounded clock), heap size (free choice), values
(opaque), access times (candidates are random samples, so any evictable key may
go). `CONFIG SET` of the memory parameters is not modelled: they are constants.
