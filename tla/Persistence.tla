----------------------------- MODULE Persistence ---------------------------
(***************************************************************************)
(* The life of a server process and what survives it: the append-only file *)
(* (persistence/aof.js), the snapshot (persistence/rdb.js), and start,     *)
(* shutdown and stop (server.js), over the commands of module Commands.    *)
(*                                                                         *)
(* A process reads one of the two files when it starts: the log if         *)
(* appendonly is set, else the snapshot.  A snapshot that is written and   *)
(* never read is left out; taking it still purges what has expired.        *)
(*                                                                         *)
(* A log entry is the command as the client sent it.  It does not name the *)
(* database and its time to live is relative, so replay recomputes the     *)
(* deadline from the time of the restart.  A crash is the end of the       *)
(* process: what has been written to a file stays.                         *)
(***************************************************************************)
EXTENDS Keyspace, Sequences

CONSTANTS
    FirstDb,      \* database 0, on which replay runs every command
    Requests,     \* the requests clients may make, a subset of RequestType
    Queues,       \* the queues EXEC may run, sequences of requests
    Configs,      \* the settings appendonly and appendfsync a server may have
    MaxCommands   \* bound: commands served or queued in one behaviour

RequestType ==
    [cmd : {"get", "set", "del", "expire", "persist", "rename", "sadd", "srem",
            "flushdb", "flushall", "swapdb"},
     key : Keys, to : Keys, val : Strings, elem : Elems,
     ttl : 0 .. MaxTime, other : DBs]

ASSUME PersistenceParameters ==
    /\ ~MemoryLimited
    /\ FirstDb \in DBs
    /\ Requests \subseteq RequestType /\ Queues \subseteq Seq(Requests)
    /\ Configs \subseteq [appendonly : BOOLEAN, appendfsync : {"always", "everysec", "no"}]
    /\ MaxCommands \in Nat

VARIABLES
    config,
    up,           \* is the server process alive
    file,         \* the append-only file, as a sequence of requests
    buffer,       \* _writeBuffer
    snap,         \* the snapshot file, EmptyStore before there is one
    unsaved,      \* dirty - _lastSaveDirty > 0
    \* History: does the log no longer tell what happened on FirstDb, and the
    \* slots changed since the last save by something that is not counted.
    spoilt, uncounted,
    served        \* how many commands there have been, for MaxCommands

logVars == <<file, buffer, spoilt>>
rdbVars == <<snap, unsaved, uncounted>>
pVars == <<store, now, config, up, served, logVars, rdbVars>>

PInit ==
    /\ Init
    /\ config \in Configs
    /\ up = FALSE
    /\ file = <<>> /\ buffer = <<>>
    /\ snap = EmptyStore
    /\ unsaved = FALSE
    /\ spoilt = FALSE /\ uncounted = {} /\ served = 0

-----------------------------------------------------------------------------
(* What a command does. *)

IsWriteCommand(r) == r.cmd # "get"

\* Key versions are of no interest here.
Quiet(s) == Store(s.val, s.typ, s.ttl, s.acc, {})

\* The stores a handler may leave: one, as memory is not limited.
Outcomes(s, t, d, r) ==
    LET x == <<d, r.key>> IN
    CASE r.cmd = "get" -> CmdRead(s, t, x, "string")
      [] r.cmd = "set" -> CmdSet(s, t, x, r.val, "any", FALSE,
                                 IF r.ttl = 0 THEN NoDeadline ELSE t + r.ttl)
      [] r.cmd = "del" -> CmdDel(s, {x})
      [] r.cmd = "expire" -> CmdExpire(s, t, x, t + r.ttl)
      [] r.cmd = "persist" -> CmdPersist(s, t, x)
      [] r.cmd = "rename" -> CmdRename(s, t, x, <<d, r.to>>)
      [] r.cmd = "sadd" -> CmdSadd(s, t, x, {r.elem})
      [] r.cmd = "srem" -> CmdSrem(s, t, x, {r.elem})
      [] r.cmd = "flushdb" -> {FlushDbs(s, {d})}
      [] r.cmd = "flushall" -> {FlushDbs(s, DBs)}
      [] r.cmd = "swapdb" -> {SwapDbs(s, FirstDb, r.other)}

After(s, t, d, r) == CHOOSE o \in Outcomes(s, t, d, r) : TRUE

\* The store that commands leave which are run one after the other.
RunAll(s, t, d, cmds) ==
    LET run[i \in 0 .. Len(cmds)] ==
            IF i = 0 THEN s ELSE After(run[i - 1], t, d, cmds[i])
    IN  run[Len(cmds)]

\* _dirty grows with every version bump and with every flush.
CountsAsDirty(s, cmds) ==
    s.mod # {} \/ \E i \in DOMAIN cmds : cmds[i].cmd \in {"flushdb", "flushall"}

\* The slots that a command changes and does not count as dirty.
Uncounted(d, r) ==
    CASE r.cmd \in {"expire", "persist"} -> {<<d, r.key>>}
      [] r.cmd = "swapdb" -> {FirstDb, r.other} \X Keys
      [] OTHER -> {}

-----------------------------------------------------------------------------
(* The append-only file. *)

Appending == up /\ config.appendonly

\* n more commands.
Count(n) == served' = served + n /\ served' <= MaxCommands

\* Mutant: "always" is not told from the other policies.
Log_Buffers(cmds, misleading) ==
    \/ ~config.appendonly /\ UNCHANGED logVars
    \/ /\ config.appendonly
       /\ buffer' = buffer \o cmds
       /\ spoilt' = (spoilt \/ misleading)
       /\ UNCHANGED file

\* What may be left of a sequence of writes when any of them fails.
Remnants(cmds) ==
    UNION {{[i \in 1 .. n |-> cmds[f[i]]] :
               f \in {h \in [1 .. n -> DOMAIN cmds] :
                         \A i, j \in 1 .. n : i < j => h[i] < h[j]}} :
              n \in 0 .. Len(cmds)}

\* appendCommand on each of cmds.  Under "always" each is written at once and
\* is lost if the write fails.
Log(cmds, misleading) ==
    \/ ~config.appendonly /\ UNCHANGED logVars
    \/ /\ config.appendonly /\ config.appendfsync # "always"
       /\ buffer' = buffer \o cmds
       /\ spoilt' = (spoilt \/ misleading)
       /\ UNCHANGED file
    \/ /\ config.appendonly /\ config.appendfsync = "always"
       /\ \E written \in Remnants(cmds) :
             /\ file' = file \o written
             /\ spoilt' = (spoilt \/ misleading \/ written # cmds)
       /\ UNCHANGED buffer

\* _flush: the buffer is emptied before the write, which may fail.
Flush(ok) ==
    /\ file' = IF ok THEN file \o buffer ELSE file
    /\ buffer' = <<>>
    /\ spoilt' = (spoilt \/ (~ok /\ buffer # <<>>))

\* The store that replay builds from a log at time t.
Replay(log, t) == Quiet(RunAll(EmptyStore, t, FirstDb, log))

-----------------------------------------------------------------------------
(* The snapshot. *)

\* exportDbData purges what has expired before the deadlines are exported.
Snapshot == KeysInDb(Fresh, now, DBs)

\* Mutant: _lastSaveDirty is set before the file is written.
Save_CountsFailure(ok) ==
    IF config.appendonly
    THEN UNCHANGED rdbVars
    ELSE /\ snap' = IF ok THEN Snapshot ELSE snap
         /\ unsaved' = FALSE
         /\ uncounted' = IF ok THEN {} ELSE uncounted

\* save: a temporary file, renamed when it is complete.
Save(ok) ==
    IF config.appendonly
    THEN UNCHANGED rdbVars
    ELSE /\ snap' = IF ok THEN Snapshot ELSE snap
         /\ unsaved' = (unsaved /\ ~ok)
         /\ uncounted' = IF ok THEN {} ELSE uncounted

Lapsed(sn, t) == {x \in Slots : IsExpired(sn, t, x)}

\* The store that load builds from a snapshot at time t: a deadline that has
\* passed is dropped, its value is not.
Load(sn, t) ==
    Store(sn.val, sn.typ,
          [x \in Slots |-> IF x \in Lapsed(sn, t) THEN NoDeadline ELSE sn.ttl[x]],
          sn.acc, {})

-----------------------------------------------------------------------------
(* Commands.  d is the database of the connection. *)

Serve(d, cmds, logged) ==
    LET s == RunAll(Fresh, now, d, cmds) IN
    /\ up /\ Count(Len(cmds))
    /\ store' = Quiet(s)
    /\ Log(logged, d # FirstDb /\ logged # <<>>)
    /\ IF config.appendonly
       THEN UNCHANGED rdbVars
       ELSE /\ unsaved' = (unsaved \/ CountsAsDirty(s, cmds))
            /\ uncounted' = uncounted \cup UNION {Uncounted(d, cmds[i]) : i \in DOMAIN cmds}
            /\ UNCHANGED snap
    /\ UNCHANGED <<now, config, up>>

\* A command outside MULTI: logged if it is a write, whatever it replied.
Run(d, r) == Serve(d, <<r>>, IF IsWriteCommand(r) THEN <<r>> ELSE <<>>)

\* Mutant: aofBuffer is ignored.
Exec_Unlogged(d, q) == Serve(d, q, <<>>)

\* EXEC: all that was queued is logged, reads too.
Exec(d, q) == Serve(d, q, q)

\* A bridge client's command inside MULTI: a write is logged when it is queued.
BridgeQueue(r) ==
    /\ Appending /\ IsWriteCommand(r) /\ Count(1)
    /\ Log(<<r>>, TRUE)
    /\ UNCHANGED <<store, now, config, up, rdbVars>>

-----------------------------------------------------------------------------
(* Timers. *)

FlushTimer(ok) ==
    /\ Appending /\ config.appendfsync = "everysec"
    /\ Flush(ok)
    /\ UNCHANGED <<store, now, config, up, served, rdbVars>>

\* With appendonly the number of changes is not kept here.
AutoSave(ok) ==
    /\ up /\ (unsaved \/ config.appendonly)
    /\ store' = Snapshot
    /\ Save(ok)
    /\ UNCHANGED <<now, config, up, served, logVars>>

PurgeTimer(S) ==
    /\ up /\ S # {} /\ \A x \in S : IsExpired(store, now, x)
    /\ store' = Quiet(DeleteKeys(Fresh, S))
    /\ unsaved' = (unsaved \/ (~config.appendonly /\ \E x \in S : Present(store, x)))
    /\ UNCHANGED <<now, config, up, served, logVars, snap, uncounted>>

PTick ==
    /\ now < MaxTime
    /\ now' = now + 1
    /\ UNCHANGED <<store, config, up, served, logVars, rdbVars>>

-----------------------------------------------------------------------------
(* The server process. *)

\* _loadData, then aof.open.
Start ==
    /\ ~up
    /\ up' = TRUE
    /\ store' = IF config.appendonly THEN Replay(file, now) ELSE Load(snap, now)
    /\ spoilt' = FALSE
    /\ unsaved' = FALSE
    /\ uncounted' = IF config.appendonly THEN {} ELSE Lapsed(snap, now)
    /\ UNCHANGED <<now, config, served, file, buffer, snap>>

Exit == up /\ up' = FALSE /\ store' = EmptyStore /\ UNCHANGED <<now, config, served>>

\* truncate: flush, then write an empty file; both may fail.
Truncate(ok) ==
    /\ file' \in IF ok THEN {<<>>} ELSE {file, file \o buffer}
    /\ buffer' = <<>>
    /\ UNCHANGED spoilt

\* SIGINT, SIGTERM: save and, with appendonly, truncate the log.
Shutdown(ok) ==
    /\ Exit
    /\ Save(ok)
    /\ IF config.appendonly THEN Truncate(ok) ELSE UNCHANGED logVars

\* Mutant: the descriptor is closed without a flush.
Stop_Unflushed(ok) ==
    /\ Exit
    /\ buffer' = <<>>
    /\ UNCHANGED <<file, spoilt, rdbVars>>

\* RedisGenServer.stop: the log is flushed and closed, nothing is saved.
Stop(ok) ==
    /\ Exit
    /\ Flush(ok)
    /\ UNCHANGED rdbVars

Crash == Exit /\ buffer' = <<>> /\ UNCHANGED <<file, spoilt, rdbVars>>

PNext ==
    \/ \E d \in DBs, r \in Requests : Run(d, r)
    \/ \E d \in DBs, q \in Queues : Exec(d, q)
    \/ \E r \in Requests : BridgeQueue(r)
    \/ \E ok \in BOOLEAN : FlushTimer(ok) \/ AutoSave(ok) \/ Shutdown(ok) \/ Stop(ok)
    \/ \E S \in SUBSET Slots : PurgeTimer(S)
    \/ PTick \/ Start \/ Crash

PSpec == PInit /\ [][PNext]_pVars

-----------------------------------------------------------------------------
\* The slots a deadline has had an influence on after the command r, if they
\* were the slots T before it.
Influenced(T, r) ==
    LET x == <<FirstDb, r.key>>
        y == <<FirstDb, r.to>>
    IN  CASE r.cmd = "expire" \/ (r.cmd = "set" /\ r.ttl > 0) -> T \cup {x}
          [] r.cmd = "del" -> T \ {x}
          [] r.cmd = "rename" /\ x \in T -> T \cup {y}
          [] r.cmd = "flushdb" -> {z \in T : z[1] # FirstDb}
          [] r.cmd = "flushall" -> {}
          [] r.cmd = "swapdb" -> {z \in Slots : SwappedSlot(FirstDb, r.other, z) \in T}
          [] OTHER -> T

\* The slots where the store that replay builds may differ from the one that
\* was lost: replay counts every time to live from the restart.
Dated(log) ==
    LET dated[i \in 0 .. Len(log)] ==
            IF i = 0 THEN {} ELSE Influenced(dated[i - 1], log[i])
    IN  dated[Len(log)]

\* A process that is down has no memory, and without a log, or under "always",
\* nothing waits in the write buffer (aof.js:57-72).
PTypeOK ==
    /\ store \in StoreType
    /\ config \in Configs /\ up \in BOOLEAN /\ now \in 1 .. MaxTime
    /\ file \in Seq(Requests) /\ buffer \in Seq(Requests)
    /\ served \in 0 .. MaxCommands
    /\ snap \in StoreType
    /\ unsaved \in BOOLEAN /\ spoilt \in BOOLEAN /\ uncounted \subseteq Slots
    /\ ~up => store = EmptyStore /\ buffer = <<>>
    /\ ~config.appendonly \/ config.appendfsync = "always" => buffer = <<>>

\* At every moment the log, with what waits to be written, rebuilds each value
\* that no deadline has influenced: commands that were refused, EXECs, FLUSHALL
\* and SWAPDB included (connection.js:76-84, aof.js:57-128).  Not claimed after
\* a failed write, a write to another database, or a queued bridge command.
LogRebuilds ==
    config.appendonly /\ up /\ ~spoilt =>
        LET log == file \o buffer
            rebuilt == Replay(log, now)
        IN  \A x \in Slots \ Dated(log) : rebuilt.val[x] = store.val[x]

\* While nothing counts as changed, so that no save is due, the snapshot holds
\* what clients see, deadlines included; EXPIRE, PERSIST and SWAPDB do not
\* count (rdb.js:22-38, 81-95, store.js:49-81).
CleanMeansSaved ==
    ~config.appendonly /\ up /\ ~unsaved =>
        \A x \in Slots \ uncounted :
            /\ VisibleValue(snap, now, x) = VisibleValue(store, now, x)
            /\ VisibleDeadline(snap, now, x) = VisibleDeadline(store, now, x)

\* The next process to start will find what clients see now, but for the
\* values a deadline influences.
KeepsData ==
    LET restored == IF config.appendonly THEN Replay(file', now) ELSE Load(snap', now)
    IN  \A x \in Slots \ Dated(file \o buffer) :
            restored.val[x] = VisibleValue(store, now, x)

\* A server that stops in an orderly way and can write its file keeps the
\* data: with a snapshot on shutdown, with the log on stop (server.js:131-147,
\* 172-176).
OrderlyStopKeepsData ==
    [][ \/ ~config.appendonly /\ Shutdown(TRUE)
        \/ config.appendonly /\ ~spoilt /\ Stop(TRUE)
        => KeepsData ]_pVars

\* README.md:25-27 lists "AOF (Append-Only File with tunable fsync policies)"
\* under Persistence: a graceful shutdown does not lose the data.
ShutdownKeepsData ==
    [][ ~spoilt /\ Shutdown(TRUE) => KeepsData ]_pVars

\* tests/persistence.test.js:89 'preserves expiry across save/load': what had
\* a deadline when it was saved does not come back without one.
LoadPreservesExpiry ==
    [][ ~config.appendonly /\ Start =>
            \A x \in Slots : HasExpiry(snap, x) /\ Present(store', x) => HasExpiry(store', x) ]_pVars
=============================================================================
