---------------------------- MODULE Transactions ---------------------------
(***************************************************************************)
(* Connections and transactions: WATCH, MULTI, EXEC, DISCARD, UNWATCH,     *)
(* RESET, SELECT and the end of a connection, over the keyspace of module  *)
(* Keyspace.                                                               *)
(*                                                                         *)
(* Clients arrive over TCP (ClientConnection) or over the WebSocket bridge *)
(* and get an id from a counter of their own kind.  The watch table of     *)
(* DataStore is indexed by that id.                                        *)
(*                                                                         *)
(* A version that differs from the one WATCH saved has been bumped since,  *)
(* because versions only grow, so the table holds "clean" or "dirty" in    *)
(* place of the saved version.                                             *)
(*                                                                         *)
(* EXEC runs its queue inside one turn of the event loop.  Here it takes   *)
(* one step per queued command, during which only the clock may advance.   *)
(***************************************************************************)
EXTENDS Keyspace, Sequences

CONSTANTS
    Clients,
    Bridged,      \* the clients that come through the WebSocket bridge
    FirstDb,      \* database 0, where every connection starts
    Requests,     \* the requests clients may make, a subset of RequestType
    MaxQueue      \* bound: commands queued in one transaction

RequestType ==
    [cmd : {"get", "incr", "getdel", "del", "persist", "select", "unwatch", "reset",
            "set", "expire", "rename", "renamenx", "sadd", "srem",
            "flushdb", "flushall", "swapdb"},
     key : Keys, to : Keys, val : Strings, elem : Elems,
     ex : {NoDeadline} \cup Deadlines, db : DBs, other : DBs]

ASSUME ClientParameters ==
    /\ IsFiniteSet(Clients) /\ Bridged \subseteq Clients
    /\ FirstDb \in DBs
    /\ Requests \subseteq RequestType
    /\ MaxQueue \in Nat

VARIABLES
    id,           \* connection id, 0 before the client connects
    open,         \* the clients whose connection is open
    db,           \* the database a connection has selected
    multi,        \* the clients whose txQueue is not null
    queue,        \* txQueue; while EXEC runs, what is left to run of it
    executing,    \* the client whose EXEC is running, if any
    watched,      \* _watchedKeys: per connection id and slot
    \* History: what each client believes it watches, and which of those
    \* slots have since changed visibly, by a command on the key or in bulk.
    watching, changed

connVars == <<id, open, multi, queue, executing>>
txVars == <<store, now, db, watched, watching, changed, connVars>>

Ids == 1 .. Cardinality(Clients)
Causes == {"command", "bulk"}
NoWatches == [x \in Slots |-> "none"]
WsOffset == 100000    \* what the bridge adds to an id when a socket closes

TxInit ==
    /\ Init
    /\ id = [c \in Clients |-> 0]
    /\ open = {} /\ multi = {} /\ executing = {}
    /\ db = [c \in Clients |-> FirstDb]
    /\ queue = [c \in Clients |-> <<>>]
    /\ watched = [i \in Ids |-> NoWatches]
    /\ watching = [c \in Clients |-> {}]
    /\ changed = [c \in Clients |-> {}]

-----------------------------------------------------------------------------
(* The watch table. *)

UnwatchAll(i) == watched' = [j \in Ids |-> IF j = i THEN NoWatches ELSE watched[j]]

\* Mutant: looks only at keys of the database selected now.
IsWatchDirty_Selected(c) == \E x \in Slots : x[1] = db[c] /\ watched[id[c]][x] = "dirty"

IsWatchDirty(c) == \E x \in Slots : watched[id[c]][x] = "dirty"

\* The versions that a step of the keyspace bumps no longer match.
MarkBumped ==
    watched' = [i \in Ids |-> [x \in Slots |->
        IF watched[i][x] = "clean" /\ x \in store'.mod THEN "dirty" ELSE watched[i][x]]]

\* The client's side of UNWATCH.
Forget(c) ==
    /\ watching' = [watching EXCEPT ![c] = {}]
    /\ changed' = [changed EXCEPT ![c] = {}]

ForgetNothing == UNCHANGED <<watching, changed>>

\* History: the watched slots whose value a client now sees changed.
NoteChanges(cause) ==
    /\ changed' = [c \in Clients |-> changed[c] \cup
           {<<x, cause>> : x \in {y \in watching[c] :
                VisibleValue(store', now, y) # VisibleValue(store, now, y)}}]
    /\ UNCHANGED watching

-----------------------------------------------------------------------------
(* The handlers, for a command that arrives outside MULTI or that EXEC     *)
(* takes from the queue.  d is the database of the command's context.      *)

KeyCommand(d, r) ==
    LET x == <<d, r.key>>
        y == <<d, r.to>>
    IN  \/ r.cmd = "get" /\ Read(x, "string")
        \/ r.cmd = "set" /\ Set(x, r.val, "any", FALSE, r.ex)
        \/ r.cmd = "incr" /\ Update(x, r.val)
        \/ r.cmd = "getdel" /\ Getdel(x)
        \/ r.cmd = "del" /\ Del({x})
        \/ r.cmd = "persist" /\ Persist(x)
        \/ r.cmd = "expire" /\ r.ex # NoDeadline /\ Expire(x, r.ex)
        \/ r.cmd = "rename" /\ Rename(x, y)
        \/ r.cmd = "renamenx" /\ Renamenx(x, y)
        \/ r.cmd = "sadd" /\ Sadd(x, {r.elem})
        \/ r.cmd = "srem" /\ Srem(x, {r.elem})

BulkCommand(d, r) ==
    \/ r.cmd = "flushdb" /\ FlushDb(d)
    \/ r.cmd = "flushall" /\ FlushAll
    \/ r.cmd = "swapdb" /\ SwapDb(r.db, r.other)

SelectDb(c, d) == db' = [db EXCEPT ![c] = d]

Handle(c, d, r) ==
    \/ KeyCommand(d, r) /\ MarkBumped /\ NoteChanges("command") /\ UNCHANGED db
    \/ BulkCommand(d, r) /\ MarkBumped /\ NoteChanges("bulk") /\ UNCHANGED db
    \/ /\ r.cmd = "select" /\ SelectDb(c, r.db)
       /\ ForgetNothing /\ UNCHANGED <<store, now, watched>>
    \/ /\ r.cmd = "unwatch" /\ UnwatchAll(id[c]) /\ Forget(c)
       /\ UNCHANGED <<store, now, db>>
    \/ /\ r.cmd = "reset" /\ SelectDb(c, FirstDb) /\ UnwatchAll(id[c]) /\ Forget(c)
       /\ UNCHANGED <<store, now>>

-----------------------------------------------------------------------------
(* Connections and dispatch. *)

Idle == executing = {}

\* Each kind of connection counts its own ids.
SameKind(c) == {e \in Clients : e \in Bridged <=> c \in Bridged}

Connect(c) ==
    /\ Idle /\ id[c] = 0
    /\ id' = [id EXCEPT ![c] = 1 + Cardinality({e \in SameKind(c) : id[e] # 0})]
    /\ open' = open \cup {c}
    /\ UNCHANGED <<store, now, db, watched, watching, changed, multi, queue, executing>>

Close(c) ==
    /\ Idle /\ c \in open
    /\ open' = open \ {c}
    /\ multi' = multi \ {c}
    /\ queue' = [queue EXCEPT ![c] = <<>>]
    /\ UnwatchAll(IF c \in Bridged THEN id[c] + WsOffset ELSE id[c])
    /\ Forget(c)
    /\ UNCHANGED <<store, now, db, id, executing>>

Do(c, r) ==
    /\ Idle /\ c \in open \ multi
    /\ Handle(c, db[c], r)
    /\ UNCHANGED connVars

\* Inside MULTI: remembered with the database selected at this moment.
Queue(c, r) ==
    /\ Idle /\ c \in open \cap multi /\ Len(queue[c]) < MaxQueue
    /\ queue' = [queue EXCEPT ![c] = Append(@, [req |-> r, db |-> db[c]])]
    /\ UNCHANGED <<store, now, db, watched, watching, changed, id, open, multi, executing>>

\* WATCH saves the current version, also when it had saved an older one.
Watch(c, k) ==
    /\ Idle /\ c \in open \ multi
    /\ LET x == <<db[c], k>> IN
       /\ watched' = [watched EXCEPT ![id[c]] = [@ EXCEPT ![x] = "clean"]]
       /\ watching' = [watching EXCEPT ![c] = @ \cup {x}]
       /\ changed' = [changed EXCEPT ![c] = @ \ ({x} \X Causes)]
    /\ UNCHANGED <<store, now, db, connVars>>

Multi(c) ==
    /\ Idle /\ c \in open \ multi
    /\ multi' = multi \cup {c}
    /\ UNCHANGED <<store, now, db, watched, watching, changed, id, open, queue, executing>>

\* The part EXEC and DISCARD share: txQueue = null, unwatchAll.
LeaveMulti(c) ==
    /\ Idle /\ c \in open \cap multi
    /\ multi' = multi \ {c}
    /\ UnwatchAll(id[c])
    /\ Forget(c)
    /\ UNCHANGED <<store, now, db, id, open>>

\* Mutant: the queued commands stay for the next transaction.
Discard_KeepsQueue(c) == LeaveMulti(c) /\ UNCHANGED <<queue, executing>>

Discard(c) ==
    /\ LeaveMulti(c)
    /\ queue' = [queue EXCEPT ![c] = <<>>]
    /\ UNCHANGED executing

\* Mutant: the path that returns a null array forgets to unwatch.
ExecAbort_KeepsWatch(c) ==
    /\ Idle /\ c \in open \cap multi /\ IsWatchDirty(c)
    /\ multi' = multi \ {c}
    /\ queue' = [queue EXCEPT ![c] = <<>>]
    /\ Forget(c)
    /\ UNCHANGED <<store, now, db, id, open, watched, executing>>

ExecAbort(c) ==
    /\ LeaveMulti(c) /\ IsWatchDirty(c)
    /\ queue' = [queue EXCEPT ![c] = <<>>]
    /\ UNCHANGED executing

ExecCommit(c) ==
    /\ LeaveMulti(c) /\ ~IsWatchDirty(c)
    /\ executing' = IF queue[c] = <<>> THEN {} ELSE {c}
    /\ UNCHANGED queue

ExecEntry(c) ==
    /\ c \in executing
    /\ Handle(c, Head(queue[c]).db, Head(queue[c]).req)
    /\ queue' = [queue EXCEPT ![c] = Tail(@)]
    /\ executing' = IF Len(queue[c]) = 1 THEN {} ELSE executing
    /\ UNCHANGED <<id, open, multi>>

SweepTimer ==
    /\ Idle /\ SweepStep
    /\ MarkBumped /\ NoteChanges("command")
    /\ UNCHANGED <<db, connVars>>

\* An entry whose deadline is reached changes for its watchers too, but no
\* command did it.
ClockTick == Tick /\ UNCHANGED <<db, watched, watching, changed, connVars>>

TxNext ==
    \/ \E c \in Clients :
          \/ Connect(c) \/ Close(c) \/ Multi(c)
          \/ \E k \in Keys : Watch(c, k)
          \/ \E r \in Requests : Do(c, r) \/ Queue(c, r)
          \/ Discard(c) \/ ExecAbort(c) \/ ExecCommit(c) \/ ExecEntry(c)
    \/ SweepTimer
    \/ ClockTick

TxSpec == TxInit /\ [][TxNext]_txVars

-----------------------------------------------------------------------------
TxTypeOK ==
    /\ id \in [Clients -> {0} \cup Ids]
    /\ open \subseteq {c \in Clients : id[c] # 0}
    /\ multi \subseteq open
    /\ executing \subseteq open \ multi
    /\ db \in [Clients -> DBs]
    /\ queue \in [Clients -> Seq([req : Requests, db : DBs])]
    /\ \A c \in Clients : queue[c] # <<>> => c \in multi \cup executing
    /\ watched \in [Ids -> [Slots -> {"none", "clean", "dirty"}]]
    /\ watching \in [Clients -> SUBSET Slots]
    /\ changed \in [Clients -> SUBSET (Slots \X Causes)]

\* The watch table holds what the open connections watch and nothing else:
\* EXEC, DISCARD, UNWATCH, RESET and the end of a connection all clear it, and
\* no connection disturbs another's entries (transaction.js:18-27, 53-54,
\* connection.js:108-113).
WatchTableExact ==
    \A i \in Ids, x \in Slots :
        watched[i][x] # "none" <=> \E c \in open : id[c] = i /\ x \in watching[c]

\* EXEC of client c begins to run what c queued.
Runs(c) == c \in executing' \ executing

\* Optimistic locking: EXEC runs its queue only if no command on a watched key
\* has changed what the client sees of it since it last called WATCH on it,
\* whatever database is selected by then (store.js:199-225, transaction.js:18).
CommitMeansUnchanged ==
    [][ \A c \in Clients :
            Runs(c) => \A x \in watching[c] : <<x, "command">> \notin changed[c] ]_txVars

\* EXEC runs its queue only if no watched key was modified at all
\* (tests/expiry.test.js:157 'WATCH detects modifications').
WatchDetectsModifications ==
    [][ \A c \in Clients : Runs(c) => changed[c] = {} ]_txVars
=============================================================================
