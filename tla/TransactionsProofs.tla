------------------------- MODULE TransactionsProofs -------------------------
(***************************************************************************)
(* Theorems about Transactions for all values of its constants: its steps  *)
(* are steps of the keyspace, its state is well typed, and, for clients    *)
(* that come over TCP, the watch table is exact and optimistic locking     *)
(* works.                                                                  *)
(***************************************************************************)
EXTENDS Transactions, KeyspaceProofs, FiniteSetTheorems, SequenceTheorems

\* The type invariant, and that EXEC runs, for one client at a time, as long as
\* something is queued.
TxTyped ==
    /\ TxTypeOK
    /\ \A c \in executing : queue[c] # <<>> /\ executing = {c}

\* What one command does to the store and to the watches of the client c.
Effect(c) ==
    \/ KeyStep /\ MarkBumped /\ NoteChanges("command")
    \/ BulkStep /\ MarkBumped /\ NoteChanges("bulk")
    \/ UNCHANGED <<vars, watched>> /\ ForgetNothing
    \/ UNCHANGED vars /\ UnwatchAll(id[c]) /\ Forget(c)

\* The requests draw the parameters that Next draws.
LEMMA KeyCommandIsKeyStep ==
    ASSUME NEW d \in DBs, NEW r \in Requests, KeyCommand(d, r)
    PROVE  KeyStep
<1> DEFINE x == <<d, r.key>>
           y == <<d, r.to>>
<1>1. /\ r.key \in Keys /\ r.to \in Keys /\ r.val \in Strings /\ r.elem \in Elems
      /\ r.ex \in {NoDeadline} \cup Deadlines
  BY ClientParameters DEF RequestType
<1>2. x \in Slots /\ y \in Slots /\ {x} \in KeyPairs /\ {r.elem} \in MemberSets
  <2>1. x \in Slots /\ y \in Slots
    BY <1>1 DEF Slots
  <2>2. {x} \in SUBSET Slots /\ {x} = {x, x}
    BY <2>1
  <2> QED
    BY <1>1, <2>1, <2>2 DEF KeyPairs, MemberSets
<1> HIDE DEF x, y
<1>3. CASE Read(x, "string")
  BY <1>2, <1>3 DEF KeyStep, ReadStep
<1>4. CASE Set(x, r.val, "any", FALSE, r.ex) \/ Update(x, r.val) \/ Sadd(x, {r.elem})
  BY <1>1, <1>2, <1>4 DEF KeyStep, WriteTo
<1>5. CASE Getdel(x) \/ Srem(x, {r.elem})
  BY <1>2, <1>5 DEF KeyStep, RemoveFrom
<1>6. CASE Persist(x) \/ (r.ex # NoDeadline /\ Expire(x, r.ex))
  BY <1>1, <1>2, <1>6 DEF KeyStep, ExpiryStep
<1>7. CASE Del({x}) \/ Rename(x, y) \/ Renamenx(x, y)
  BY <1>2, <1>7 DEF KeyStep, MultiKeyStep
<1> QED
  BY <1>3, <1>4, <1>5, <1>6, <1>7 DEF KeyCommand, x, y

\* FLUSHDB, FLUSHALL and SWAPDB.
LEMMA BulkCommandIsBulkStep ==
    ASSUME NEW d \in DBs, NEW r \in Requests, BulkCommand(d, r)
    PROVE  BulkStep
<1>1. r.db \in DBs /\ r.other \in DBs
  BY ClientParameters DEF RequestType
<1> QED
  BY <1>1 DEF BulkCommand, BulkStep

\* The handler of one command.
LEMMA HandleEffect ==
    ASSUME db \in [Clients -> DBs], NEW c \in Clients, NEW d \in DBs, NEW r \in Requests,
           Handle(c, d, r)
    PROVE  Effect(c) /\ db' \in [Clients -> DBs]
<1>1. r.db \in DBs /\ FirstDb \in DBs
  BY ClientParameters DEF RequestType
<1> QED
  BY <1>1, KeyCommandIsKeyStep, BulkCommandIsBulkStep
     DEF Handle, Effect, SelectDb, vars

\* A queue that is not empty has a head and a tail of the right types.
LEMMA QueueFacts ==
    ASSUME TxTyped, NEW c \in Clients
    PROVE  /\ queue[c] \in Seq([req : Requests, db : DBs])
           /\ queue[c] # <<>> => /\ Head(queue[c]).req \in Requests
                                 /\ Head(queue[c]).db \in DBs
                                 /\ Tail(queue[c]) \in Seq([req : Requests, db : DBs])
                                 /\ Len(queue[c]) # 1 => Tail(queue[c]) # <<>>
                                 /\ Len(queue[c]) = 1 => Tail(queue[c]) = <<>>
<1> DEFINE Entry == [req : Requests, db : DBs]
<1>1. queue[c] \in Seq(Entry)
  BY DEF TxTyped, TxTypeOK
<1>2. ASSUME NEW q \in Seq(Entry), q # <<>>
      PROVE  /\ Head(q) \in Entry /\ Tail(q) \in Seq(Entry)
             /\ Len(q) # 1 => Tail(q) # <<>>
             /\ Len(q) = 1 => Tail(q) = <<>>
  <2> HIDE DEF Entry
  <2>1. /\ Head(q) \in Entry /\ Tail(q) \in Seq(Entry)
        /\ Len(Tail(q)) = Len(q) - 1 /\ Len(q) \in Nat
    BY <1>2, HeadTailProperties, LenProperties
  <2> QED
    BY <2>1, EmptySeq
<1> QED
  BY <1>1, <1>2

\* The queue after it has been dropped.
LEMMA EmptyQueue == <<>> \in Seq([req : Requests, db : DBs])
  BY EmptySeq

-----------------------------------------------------------------------------
\* Every step of a transaction, of a connection and of the sweep is a step of
\* the keyspace or leaves it alone.
LEMMA TxStepKeyspace ==
    ASSUME TxTyped, [TxNext]_txVars
    PROVE  [Next]_vars
<1>1. db \in [Clients -> DBs]
  BY DEF TxTyped, TxTypeOK
<1>2. ASSUME NEW c \in Clients, Effect(c)
      PROVE  [Next]_vars
  BY <1>2 DEF Effect, KeyStep, Next
<1>3. ASSUME NEW c \in Clients, NEW r \in Requests, Do(c, r)
      PROVE  [Next]_vars
  BY <1>1, <1>2, <1>3, HandleEffect DEF Do
<1>4. ASSUME NEW c \in Clients, ExecEntry(c)
      PROVE  [Next]_vars
  <2>1. Head(queue[c]).req \in Requests /\ Head(queue[c]).db \in DBs
    BY <1>4, QueueFacts DEF ExecEntry, TxTyped
  <2> QED
    BY <1>1, <1>2, <1>4, <2>1, HandleEffect DEF ExecEntry
<1>5. ASSUME NEW c \in Clients,
             \/ Connect(c) \/ Close(c) \/ Multi(c)
             \/ \E k \in Keys : Watch(c, k)
             \/ \E r \in Requests : Queue(c, r)
             \/ Discard(c) \/ ExecAbort(c) \/ ExecCommit(c)
      PROVE  UNCHANGED vars
  BY <1>5 DEF Connect, Close, Multi, Watch, Queue, Discard, ExecAbort, ExecCommit,
              LeaveMulti, vars
<1>6. CASE SweepTimer \/ ClockTick
  BY <1>6 DEF SweepTimer, ClockTick, Next
<1>7. CASE UNCHANGED txVars
  BY <1>7 DEF txVars, vars
<1> QED
  BY <1>3, <1>4, <1>5, <1>6, <1>7 DEF TxNext

-----------------------------------------------------------------------------
(* Types and numbers. *)

Connected(K) == {e \in K : id[e] # 0}

\* Connections of one kind have different ids, the largest of which is their
\* number.
Numbered ==
    \A c \in Clients :
        /\ id[c] <= Cardinality(Connected(SameKind(c)))
        /\ \A e \in SameKind(c) : id[c] # 0 /\ id[c] = id[e] => c = e

\* The next number of a kind: it is an id, and no connection of the kind has it.
LEMMA NextNumber ==
    ASSUME TxTyped, NEW c \in Clients, id[c] = 0
    PROVE  LET n == Cardinality(Connected(SameKind(c)))
           IN  /\ n \in Nat /\ 1 + n \in Ids
               /\ Cardinality(Connected(SameKind(c)) \cup {c}) = n + 1
<1> DEFINE S == Connected(SameKind(c))
<1>1. S \in SUBSET Clients /\ S \cup {c} \in SUBSET Clients /\ c \notin S
  BY DEF Connected, SameKind
<1>2. IsFiniteSet(Clients) /\ IsFiniteSet(S)
  BY <1>1, FS_Subset, ClientParameters
<1>3. /\ Cardinality(S) \in Nat /\ Cardinality(Clients) \in Nat
      /\ Cardinality(S \cup {c}) = Cardinality(S) + 1
      /\ Cardinality(S \cup {c}) <= Cardinality(Clients)
  BY <1>1, <1>2, FS_CardinalityType, FS_AddElement, FS_Subset
<1> QED
  BY <1>3 DEF Ids

\* A new connection keeps the numbering.
LEMMA ConnectNumbered ==
    ASSUME TxTyped, Numbered, NEW c \in Clients, Connect(c)
    PROVE  Numbered'
<1> DEFINE n == Cardinality(Connected(SameKind(c)))
<1>1. /\ n \in Nat /\ Cardinality(Connected(SameKind(c)) \cup {c}) = n + 1
      /\ id' = [id EXCEPT ![c] = 1 + n] /\ id[c] = 0
      /\ id \in [Clients -> {0} \cup Ids]
  BY NextNumber DEF Connect, TxTyped, TxTypeOK, Connected
<1>2. \A e \in Clients : id[e] \in Nat
  BY <1>1 DEF Ids
<1>3. \A e \in SameKind(c) : SameKind(e) = SameKind(c) /\ id[e] <= n
  BY DEF SameKind, Numbered
<1>4. \A e \in Clients \ SameKind(c) :
         SameKind(e) \cap SameKind(c) = {} /\ e # c /\ c \notin SameKind(e)
  BY DEF SameKind
<1>5. Connected(SameKind(c))' = Connected(SameKind(c)) \cup {c}
  BY <1>1 DEF Connected, SameKind
<1>6. \A e \in Clients \ SameKind(c) : Connected(SameKind(e))' = Connected(SameKind(e))
  BY <1>1, <1>4 DEF Connected, SameKind
<1>7. ASSUME NEW e \in SameKind(c)
      PROVE  /\ id'[e] <= Cardinality(Connected(SameKind(e)))'
             /\ \A f \in SameKind(e) : id'[e] # 0 /\ id'[e] = id'[f] => e = f
  <2>1. e \in Clients /\ (id'[e] = IF e = c THEN 1 + n ELSE id[e])
    BY <1>1 DEF SameKind
  <2>2. Cardinality(Connected(SameKind(e)))' = n + 1
    <3>1. Connected(SameKind(e))' = Connected(SameKind(c))'
      BY <1>3 DEF Connected, SameKind
    <3> QED
      BY <1>1, <1>5, <3>1
  <2>3. \A f \in SameKind(e) : f \in SameKind(c) /\ f \in Clients
                               /\ (id'[f] = IF f = c THEN 1 + n ELSE id[f])
    BY <1>1, <1>3 DEF SameKind
  <2> QED
    BY <1>1, <1>2, <1>3, <2>1, <2>2, <2>3 DEF Numbered
<1>8. ASSUME NEW e \in Clients \ SameKind(c)
      PROVE  /\ id'[e] <= Cardinality(Connected(SameKind(e)))'
             /\ \A f \in SameKind(e) : id'[e] # 0 /\ id'[e] = id'[f] => e = f
  <2>1. id'[e] = id[e] /\ \A f \in SameKind(e) : id'[f] = id[f]
    BY <1>1, <1>4 DEF SameKind
  <2> QED
    BY <1>6, <2>1 DEF Numbered
<1> QED
  BY <1>7, <1>8 DEF Numbered, SameKind

WatchTypes ==
    /\ watched \in [Ids -> [Slots -> {"none", "clean", "dirty"}]]
    /\ watching \in [Clients -> SUBSET Slots]
    /\ changed \in [Clients -> SUBSET (Slots \X Causes)]

\* The types of the watch table and of its history, after one command.
LEMMA EffectTypes ==
    ASSUME WatchTypes, NEW c \in Clients, Effect(c)
    PROVE  WatchTypes'
<1>1. CASE MarkBumped /\ (NoteChanges("command") \/ NoteChanges("bulk"))
  <2>1. watched' \in [Ids -> [Slots -> {"none", "clean", "dirty"}]]
    BY <1>1 DEF WatchTypes, MarkBumped
  <2>2. watching' = watching
    BY <1>1 DEF NoteChanges
  <2>3. changed' \in [Clients -> SUBSET (Slots \X Causes)]
    BY <1>1 DEF WatchTypes, NoteChanges, Causes
  <2> QED
    BY <2>1, <2>2, <2>3 DEF WatchTypes
<1>2. CASE UNCHANGED watched /\ ForgetNothing
  BY <1>2 DEF WatchTypes, ForgetNothing
<1>3. CASE UnwatchAll(id[c]) /\ Forget(c)
  BY <1>3 DEF WatchTypes, UnwatchAll, Forget, NoWatches
<1> QED
  BY <1>1, <1>2, <1>3 DEF Effect

\* Types after a command that arrives, or that EXEC takes from the queue.
LEMMA DoTyped ==
    ASSUME TxTyped, NEW c \in Clients, NEW r \in Requests, Do(c, r)
    PROVE  TxTyped'
<1>1. Effect(c) /\ db' \in [Clients -> DBs]
  BY HandleEffect DEF Do, TxTyped, TxTypeOK
<1>2. WatchTypes'
  BY <1>1, EffectTypes DEF TxTyped, TxTypeOK, WatchTypes
<1> QED
  BY <1>1, <1>2 DEF TxTyped, TxTypeOK, WatchTypes, Do, connVars

\* One entry of the queue: the rest of it stays to be run.
LEMMA ExecEntryTyped ==
    ASSUME TxTyped, NEW c \in Clients, ExecEntry(c)
    PROVE  TxTyped'
<1>1. c \in executing /\ queue[c] # <<>> /\ queue' = [queue EXCEPT ![c] = Tail(@)]
      /\ executing \subseteq open \ multi
  BY DEF TxTyped, TxTypeOK, ExecEntry
<1>2. Effect(c) /\ db' \in [Clients -> DBs]
  BY <1>1, HandleEffect, QueueFacts DEF ExecEntry, TxTyped, TxTypeOK
<1>3. WatchTypes'
  BY <1>2, EffectTypes DEF TxTyped, TxTypeOK, WatchTypes
<1>4. queue' \in [Clients -> Seq([req : Requests, db : DBs])]
  BY <1>1, QueueFacts DEF TxTyped, TxTypeOK
<1>5. UNCHANGED <<id, open, multi>>
      /\ executing' = IF Len(queue[c]) = 1 THEN {} ELSE executing
  BY DEF ExecEntry
<1>6. \A e \in Clients : queue'[e] = IF e = c THEN Tail(queue[c]) ELSE queue[e]
  BY <1>1 DEF TxTyped, TxTypeOK
<1>7. ASSUME NEW e \in Clients, queue'[e] # <<>>
      PROVE  e \in multi \cup executing'
  <2>1. CASE e = c
    BY <1>1, <1>5, <1>6, <1>7, <2>1, QueueFacts
  <2>2. CASE e # c
    BY <1>1, <1>6, <1>7, <2>2 DEF TxTyped, TxTypeOK
  <2> QED
    BY <2>1, <2>2
<1>8. \A e \in executing' : queue'[e] # <<>> /\ executing' = {e}
  BY <1>1, <1>5, <1>6, QueueFacts DEF TxTyped, TxTypeOK
<1> QED
  BY <1>2, <1>3, <1>4, <1>5, <1>7, <1>8 DEF TxTyped, TxTypeOK, WatchTypes

\* Types after a step of a connection that runs no command.
LEMMA ConnectionTyped ==
    ASSUME TxTyped, NEW c \in Clients,
           \/ Connect(c) \/ Close(c) \/ Multi(c)
           \/ \E k \in Keys : Watch(c, k)
           \/ \E r \in Requests : Queue(c, r)
    PROVE  TxTyped'
<1>1. /\ id \in [Clients -> {0} \cup Ids]
      /\ open \subseteq {e \in Clients : id[e] # 0} /\ multi \subseteq open
      /\ executing = {} /\ executing' = {}
      /\ db \in [Clients -> DBs] /\ db' = db
      /\ queue \in [Clients -> Seq([req : Requests, db : DBs])]
      /\ \A e \in Clients : queue[e] # <<>> => e \in multi
      /\ WatchTypes
  BY DEF TxTyped, TxTypeOK, WatchTypes, Connect, Close, Multi, Watch, Queue, Idle, connVars
<1>2. CASE Connect(c)
  <2>1. id' \in [Clients -> {0} \cup Ids] /\ id'[c] # 0
    <3> DEFINE n == Cardinality(Connected(SameKind(c)))
    <3>1. n \in Nat /\ 1 + n \in Ids
      BY <1>2, NextNumber DEF Connect
    <3>2. id' = [id EXCEPT ![c] = 1 + n]
      BY <1>2 DEF Connect, Connected
    <3> HIDE DEF n
    <3> QED
      BY <1>1, <3>1, <3>2
  <2> QED
    BY <1>1, <1>2, <2>1 DEF Connect, TxTyped, TxTypeOK, WatchTypes
<1>3. CASE Close(c)
  <2>1. WatchTypes'
    BY <1>1, <1>3 DEF Close, WatchTypes, UnwatchAll, Forget, NoWatches
  <2>2. queue' \in [Clients -> Seq([req : Requests, db : DBs])]
        /\ \A e \in Clients : queue'[e] # <<>> => e \in multi'
    BY <1>1, <1>3, EmptyQueue DEF Close
  <2> QED
    BY <1>1, <1>3, <2>1, <2>2 DEF Close, TxTyped, TxTypeOK, WatchTypes
<1>4. CASE Multi(c)
  BY <1>1, <1>4 DEF Multi, TxTyped, TxTypeOK, WatchTypes
<1>5. ASSUME NEW k \in Keys, Watch(c, k)
      PROVE  TxTyped'
  <2>1. <<db[c], k>> \in Slots /\ id[c] \in Ids
    BY <1>1, <1>5 DEF Slots, Watch
  <2>2. WatchTypes'
    BY <1>1, <1>5, <2>1 DEF Watch, WatchTypes
  <2> QED
    BY <1>1, <1>5, <2>2 DEF Watch, TxTyped, TxTypeOK, WatchTypes, connVars
<1>6. ASSUME NEW r \in Requests, Queue(c, r)
      PROVE  TxTyped'
  <2> DEFINE entry == [req |-> r, db |-> db[c]]
  <2>1. entry \in [req : Requests, db : DBs]
    BY <1>1
  <2>2. Append(queue[c], entry) \in Seq([req : Requests, db : DBs])
    BY <1>1, <2>1, AppendProperties
  <2>3. queue' = [queue EXCEPT ![c] = Append(queue[c], entry)]
    BY <1>6 DEF Queue
  <2>4. queue' \in [Clients -> Seq([req : Requests, db : DBs])]
        /\ \A e \in Clients : queue'[e] # <<>> => e \in multi
    BY <1>1, <1>6, <2>2, <2>3 DEF Queue
  <2> QED
    BY <1>1, <1>6, <2>4 DEF Queue, TxTyped, TxTypeOK, WatchTypes
<1> QED
  BY <1>2, <1>3, <1>4, <1>5, <1>6

\* Types when a transaction ends or begins to run.
LEMMA LeaveTyped ==
    ASSUME TxTyped, NEW c \in Clients, Discard(c) \/ ExecAbort(c) \/ ExecCommit(c)
    PROVE  TxTyped'
<1>1. /\ LeaveMulti(c)
      /\ executing' = {} \/ (executing' = {c} /\ queue[c] # <<>>)
      /\ \/ queue' = [queue EXCEPT ![c] = <<>>] /\ executing' = {}
         \/ queue' = queue /\ (queue[c] # <<>> => executing' = {c})
  BY DEF Discard, ExecAbort, ExecCommit, LeaveMulti, Idle
<1>2. WatchTypes'
  BY <1>1 DEF LeaveMulti, TxTyped, TxTypeOK, WatchTypes, UnwatchAll, Forget, NoWatches
<1>3. executing = {}
  BY <1>1 DEF LeaveMulti, Idle
<1>4. queue' \in [Clients -> Seq([req : Requests, db : DBs])]
  BY <1>1, EmptyQueue DEF TxTyped, TxTypeOK
<1>5. \A e \in Clients : queue'[e] # <<>> => e \in multi' \cup executing'
  BY <1>1, <1>3 DEF LeaveMulti, TxTyped, TxTypeOK
<1>6. \A e \in executing' : queue'[e] # <<>> /\ executing' = {e}
  BY <1>1
<1> QED
  BY <1>1, <1>2, <1>4, <1>5, <1>6 DEF LeaveMulti, TxTyped, TxTypeOK, WatchTypes

\* Types after any step.
LEMMA TxStepTyped ==
    ASSUME TxTyped, [TxNext]_txVars
    PROVE  TxTyped'
<1>1. CASE SweepTimer
  <2>1. MarkBumped /\ NoteChanges("command") /\ UNCHANGED <<db, connVars>>
    BY <1>1 DEF SweepTimer
  <2>2. WatchTypes'
    <3>1. watched' \in [Ids -> [Slots -> {"none", "clean", "dirty"}]]
      BY <2>1 DEF TxTyped, TxTypeOK, MarkBumped
    <3> QED
      BY <2>1, <3>1 DEF TxTyped, TxTypeOK, WatchTypes, NoteChanges, Causes
  <2> QED
    BY <2>1, <2>2 DEF TxTyped, TxTypeOK, WatchTypes, connVars
<1>2. CASE ClockTick
  BY <1>2 DEF ClockTick, TxTyped, TxTypeOK, connVars
<1>3. CASE UNCHANGED txVars
  BY <1>3 DEF txVars, TxTyped, TxTypeOK, connVars
<1> QED
  BY <1>1, <1>2, <1>3, DoTyped, ExecEntryTyped, ConnectionTyped, LeaveTyped DEF TxNext

-----------------------------------------------------------------------------
(* The watch table. *)

\* The ways in which a step may concern the watches.
Marks ==
    /\ MarkBumped /\ UNCHANGED <<id, open>>
    /\ \/ KeyStep /\ NoteChanges("command")
       \/ BulkStep /\ NoteChanges("bulk")
Keeps == UNCHANGED <<watched, watching, changed, id, open>>
Unwatches(c) ==
    /\ c \in open /\ UnwatchAll(id[c]) /\ Forget(c)
    /\ id' = id /\ open' \in {open, open \ {c}}

\* Every step is of one of these kinds, opens a connection or is a WATCH.
LEMMA WatchSteps ==
    ASSUME TxTyped, Bridged = {}, [TxNext]_txVars
    PROVE  \/ Marks \/ Keeps
           \/ \E c \in Clients : Unwatches(c) \/ Connect(c) \/ \E k \in Keys : Watch(c, k)
<1>1. ASSUME NEW c \in Clients, c \in open, Effect(c), UNCHANGED <<id, open>>
      PROVE  Marks \/ Keeps \/ Unwatches(c)
  BY <1>1 DEF Effect, Marks, Keeps, Unwatches, ForgetNothing
<1>2. ASSUME NEW c \in Clients, \E r \in Requests : Do(c, r)
      PROVE  Marks \/ Keeps \/ Unwatches(c)
  BY <1>1, <1>2, HandleEffect DEF Do, connVars, TxTyped, TxTypeOK
<1>3. ASSUME NEW c \in Clients, ExecEntry(c)
      PROVE  Marks \/ Keeps \/ Unwatches(c)
  <2>1. c \in open /\ queue[c] # <<>>
    BY <1>3 DEF ExecEntry, TxTyped, TxTypeOK
  <2>2. Effect(c)
    BY <1>3, <2>1, HandleEffect, QueueFacts DEF ExecEntry, TxTyped, TxTypeOK
  <2> QED
    BY <1>1, <1>3, <2>1, <2>2 DEF ExecEntry
<1>4. ASSUME NEW c \in Clients, Multi(c) \/ \E r \in Requests : Queue(c, r)
      PROVE  Keeps
  BY <1>4 DEF Multi, Queue, Keeps
<1>5. ASSUME NEW c \in Clients, Close(c) \/ Discard(c) \/ ExecAbort(c) \/ ExecCommit(c)
      PROVE  Unwatches(c)
  BY <1>5 DEF Close, Discard, ExecAbort, ExecCommit, LeaveMulti, Unwatches
<1>6. CASE SweepTimer
  BY <1>6 DEF SweepTimer, Marks, KeyStep, connVars
<1>7. CASE ClockTick \/ UNCHANGED txVars
  BY <1>7 DEF ClockTick, txVars, connVars, Keeps
<1> QED
  BY <1>2, <1>3, <1>4, <1>5, <1>6, <1>7 DEF TxNext

\* A client that has gone watches nothing.
Exactness ==
    /\ WatchTableExact
    /\ \A c \in Clients \ open : watching[c] = {}

\* TCP connections share no id.
LEMMA IdsDiffer ==
    ASSUME TxTyped, Numbered, Bridged = {}
    PROVE  \A c, e \in open : /\ c \in Clients /\ id[c] \in Ids
                              /\ id[c] = id[e] => c = e
<1>1. \A c \in Clients : SameKind(c) = Clients
  BY DEF SameKind
<1> QED
  BY <1>1 DEF TxTyped, TxTypeOK, Numbered

\* Every step keeps the watch table exact.
LEMMA ExactStep ==
    ASSUME TxTyped, Numbered, Bridged = {}, Exactness, [TxNext]_txVars
    PROVE  Exactness'
<1>1. /\ WatchTypes /\ open \subseteq Clients
      /\ \A c \in open : id[c] \in Ids
      /\ \A c, e \in open : id[c] = id[e] => c = e
  BY IdsDiffer DEF TxTyped, TxTypeOK, WatchTypes
<1>2. CASE Marks
  <2>1. \A i \in Ids, x \in Slots : watched'[i][x] # "none" <=> watched[i][x] # "none"
    BY <1>1, <1>2 DEF Marks, MarkBumped, WatchTypes
  <2> QED
    BY <1>2, <2>1 DEF Marks, NoteChanges, Exactness, WatchTableExact
<1>3. CASE Keeps
  BY <1>3 DEF Keeps, Exactness, WatchTableExact
<1>4. ASSUME NEW c \in Clients, Unwatches(c)
      PROVE  Exactness'
  <2>1. \A i \in Ids, x \in Slots :
           watched'[i][x] = IF i = id[c] THEN "none" ELSE watched[i][x]
    BY <1>4 DEF Unwatches, UnwatchAll, NoWatches
  <2>2. \A e \in Clients : watching'[e] = IF e = c THEN {} ELSE watching[e]
    BY <1>1, <1>4 DEF Unwatches, Forget, WatchTypes
  <2>3. id' = id /\ open' \subseteq open /\ open \ {c} \subseteq open' /\ c \in open
    BY <1>4 DEF Unwatches
  <2> QED
    BY <1>1, <2>1, <2>2, <2>3 DEF Exactness, WatchTableExact
<1>5. ASSUME NEW c \in Clients, Connect(c)
      PROVE  Exactness'
  <2>1. /\ UNCHANGED <<watched, watching>> /\ open' = open \cup {c} /\ c \notin open
        /\ \A e \in open : id'[e] = id[e]
    BY <1>5 DEF Connect, TxTyped, TxTypeOK
  <2>2. watching[c] = {}
    BY <2>1 DEF Exactness
  <2> QED
    BY <1>1, <2>1, <2>2 DEF Exactness, WatchTableExact
<1>6. ASSUME NEW c \in Clients, NEW k \in Keys, Watch(c, k)
      PROVE  Exactness'
  <2> DEFINE y == <<db[c], k>>
  <2>1. y \in Slots /\ c \in open /\ id[c] \in Ids /\ UNCHANGED <<id, open>>
    BY <1>1, <1>6 DEF Watch, connVars, Slots, TxTyped, TxTypeOK
  <2>2. \A i \in Ids, x \in Slots :
           watched'[i][x] = IF i = id[c] /\ x = y THEN "clean" ELSE watched[i][x]
    BY <1>1, <1>6, <2>1 DEF Watch, WatchTypes
  <2>3. \A e \in Clients : watching'[e] = IF e = c THEN watching[e] \cup {y} ELSE watching[e]
    BY <1>1, <1>6 DEF Watch, WatchTypes
  <2> HIDE DEF y
  <2>4. ASSUME NEW i \in Ids, NEW x \in Slots
        PROVE  watched'[i][x] # "none" <=> \E e \in open : id[e] = i /\ x \in watching'[e]
    <3>1. watched[i][x] # "none" <=> \E e \in open : id[e] = i /\ x \in watching[e]
      BY DEF Exactness, WatchTableExact
    <3>2. CASE i = id[c] /\ x = y
      BY <1>1, <2>1, <2>2, <2>3, <3>2
    <3>3. CASE ~(i = id[c] /\ x = y)
      <4>1. watched'[i][x] = watched[i][x]
        BY <2>2, <3>3
      <4>2. ASSUME NEW e \in open
            PROVE  (id[e] = i /\ x \in watching'[e]) <=> (id[e] = i /\ x \in watching[e])
        <5>1. CASE e = c
          BY <1>1, <2>3, <3>3, <5>1
        <5>2. CASE e # c
          BY <1>1, <2>3, <5>2
        <5> QED
          BY <5>1, <5>2
      <4> QED
        BY <3>1, <4>1, <4>2
    <3> QED
      BY <3>2, <3>3
  <2>5. WatchTableExact'
    BY <2>1, <2>4 DEF WatchTableExact
  <2>6. \A e \in Clients \ open : watching'[e] = {}
    BY <2>1, <2>3 DEF Exactness
  <2> QED
    BY <2>1, <2>5, <2>6 DEF Exactness
<1> QED
  BY <1>2, <1>3, <1>4, <1>5, <1>6, WatchSteps

\* What a client has seen change through a command is marked in the table.
Marked ==
    \A c \in open : \A x \in watching[c] :
        <<x, "command">> \in changed[c] => watched[id[c]][x] = "dirty"

\* The table marks whatever a command changes.
LEMMA MarkedStep ==
    ASSUME ~MemoryLimited, Inv, TxTyped, Numbered, Bridged = {}, Exactness, Marked,
           [TxNext]_txVars
    PROVE  Marked'
<1>1. /\ WatchTypes /\ open \subseteq Clients
      /\ \A c \in open : id[c] \in Ids
      /\ \A c, e \in open : id[c] = id[e] => c = e
  BY IdsDiffer DEF TxTyped, TxTypeOK, WatchTypes
<1>2. CASE Marks
  <2> SUFFICES ASSUME NEW c \in open, NEW x \in watching[c], <<x, "command">> \in changed'[c]
               PROVE  watched'[id[c]][x] = "dirty"
    BY <1>2 DEF Marks, NoteChanges, Marked
  <2>1. c \in Clients /\ x \in Slots /\ id[c] \in Ids
    BY <1>1 DEF WatchTypes
  <2>2. watched'[id[c]][x] = IF watched[id[c]][x] = "clean" /\ x \in store'.mod
                             THEN "dirty" ELSE watched[id[c]][x]
    BY <1>2, <2>1 DEF Marks, MarkBumped
  <2>3. watched[id[c]][x] \in {"clean", "dirty"}
    BY <1>1, <2>1 DEF Exactness, WatchTableExact, WatchTypes
  <2>4. CASE <<x, "command">> \in changed[c]
    BY <2>2, <2>4 DEF Marked
  <2>5. CASE <<x, "command">> \notin changed[c]
    <3>1. KeyStep /\ VisibleValue(store', now, x) # VisibleValue(store, now, x)
      BY <1>2, <2>1, <2>5 DEF Marks, NoteChanges
    <3>2. x \in store'.mod
      BY <2>1, <3>1, KeyStepGuarded, FreshFacts DEF Guarded, Tidy, Noted
    <3> QED
      BY <2>2, <2>3, <3>2
  <2> QED
    BY <2>4, <2>5
<1>3. CASE Keeps
  BY <1>3 DEF Keeps, Marked
<1>4. ASSUME NEW c \in Clients, Unwatches(c)
      PROVE  Marked'
  <2>1. \A i \in Ids \ {id[c]} : watched'[i] = watched[i]
    BY <1>4 DEF Unwatches, UnwatchAll
  <2>2. \A e \in Clients : /\ watching'[e] = IF e = c THEN {} ELSE watching[e]
                           /\ e # c => changed'[e] = changed[e]
    BY <1>1, <1>4 DEF Unwatches, Forget, WatchTypes
  <2>3. id' = id /\ open' \subseteq open /\ c \in open
    BY <1>4 DEF Unwatches
  <2> QED
    BY <1>1, <2>1, <2>2, <2>3 DEF Marked
<1>5. ASSUME NEW c \in Clients, Connect(c)
      PROVE  Marked'
  <2>1. /\ UNCHANGED <<watched, watching, changed>> /\ open' = open \cup {c} /\ c \notin open
        /\ \A e \in open : id'[e] = id[e]
    BY <1>5 DEF Connect, TxTyped, TxTypeOK
  <2>2. watching[c] = {}
    BY <2>1 DEF Exactness
  <2> QED
    BY <1>1, <2>1, <2>2 DEF Marked
<1>6. ASSUME NEW c \in Clients, NEW k \in Keys, Watch(c, k)
      PROVE  Marked'
  <2> DEFINE y == <<db[c], k>>
  <2>1. y \in Slots /\ c \in open /\ id[c] \in Ids /\ UNCHANGED <<id, open>>
    BY <1>1, <1>6 DEF Watch, connVars, Slots, TxTyped, TxTypeOK
  <2>2. \A i \in Ids, x \in Slots :
           watched'[i][x] = IF i = id[c] /\ x = y THEN "clean" ELSE watched[i][x]
    BY <1>1, <1>6, <2>1 DEF Watch, WatchTypes
  <2>3. \A e \in Clients :
           /\ watching'[e] = IF e = c THEN watching[e] \cup {y} ELSE watching[e]
           /\ changed'[e] = IF e = c THEN changed[e] \ ({y} \X Causes) ELSE changed[e]
    BY <1>1, <1>6 DEF Watch, WatchTypes
  <2> HIDE DEF y
  <2> SUFFICES ASSUME NEW e \in open, NEW x \in watching'[e], <<x, "command">> \in changed'[e]
               PROVE  watched'[id[e]][x] = "dirty"
    BY <2>1 DEF Marked
  <2>4. ~(e = c /\ x = y)
    <3>1. <<y, "command">> \in {y} \X Causes
      BY DEF Causes
    <3> QED
      BY <1>1, <2>1, <2>3, <3>1
  <2>5. x \in watching[e] /\ <<x, "command">> \in changed[e] /\ x \in Slots
    BY <1>1, <2>3, <2>4 DEF WatchTypes
  <2> QED
    BY <1>1, <2>1, <2>2, <2>4, <2>5 DEF Marked
<1> QED
  BY <1>2, <1>3, <1>4, <1>5, <1>6, WatchSteps

\* The ids of connections that are there do not change.
LEMMA NumberedStep ==
    ASSUME TxTyped, Numbered, [TxNext]_txVars
    PROVE  Numbered'
<1>1. CASE UNCHANGED id
  BY <1>1 DEF Numbered, Connected, SameKind
<1>2. CASE ~UNCHANGED id
  <2>1. PICK c \in Clients : Connect(c)
    BY <1>2 DEF TxNext, SweepTimer, ClockTick, txVars, connVars, Close, Multi, Watch, Do,
                Queue, Discard, ExecAbort, ExecCommit, ExecEntry, LeaveMulti
  <2> QED
    BY <2>1, ConnectNumbered
<1> QED
  BY <1>1, <1>2

\* The first state.
LEMMA TxInitial == TxInit => Init /\ TxTyped /\ Numbered /\ Exactness /\ Marked
<1> SUFFICES ASSUME TxInit
             PROVE  TxTyped /\ Numbered /\ Exactness /\ Marked
  BY DEF TxInit
<1>1. TxTyped
  BY EmptyQueue, ClientParameters DEF TxInit, TxTyped, TxTypeOK, NoWatches
<1>2. Numbered
  <2>1. \A c \in Clients : Connected(SameKind(c)) = {}
    BY DEF TxInit, Connected, SameKind
  <2>2. \A c \in Clients : Cardinality(Connected(SameKind(c))) = 0 /\ id[c] = 0
    BY <2>1, FS_EmptySet DEF TxInit
  <2> QED
    BY <2>2 DEF Numbered
<1>3. Exactness /\ Marked
  BY DEF TxInit, Exactness, WatchTableExact, Marked, NoWatches
<1> QED
  BY <1>1, <1>2, <1>3

-----------------------------------------------------------------------------
\* The type invariant of the connections (connection.js:11-26,
\* transaction.js:5-56): among the rest, only a connection inside MULTI or
\* whose EXEC is running has commands queued.
THEOREM ConnectionsTyped == TxSpec => []TxTypeOK
<1>1. TxInit => TxTyped
  BY TxInitial
<1>2. TxTyped /\ [TxNext]_txVars => TxTyped'
  BY TxStepTyped
<1>3. TxTyped => TxTypeOK
  BY DEF TxTyped
<1> QED
  BY <1>1, <1>2, <1>3, PTL DEF TxSpec

\* Whatever connections and transactions do, the keyspace takes only steps of
\* its own specification, so that its theorems hold under them too
\* (registry.js:135-157).
THEOREM TransactionsDriveKeyspace == TxSpec => Spec
<1>1. TxInit => Init /\ TxTyped
  BY TxInitial
<1>2. TxTyped /\ [TxNext]_txVars => TxTyped'
  BY TxStepTyped
<1>3. TxTyped /\ [TxNext]_txVars => [Next]_vars
  BY TxStepKeyspace
<1> QED
  BY <1>1, <1>2, <1>3, PTL DEF TxSpec, Spec

\* Over TCP alone the watch table holds what the open connections watch and
\* nothing else (transaction.js:18-27, 53-54, connection.js:108-113).
THEOREM WatchTableIsExact == ASSUME Bridged = {} PROVE TxSpec => []WatchTableExact
<1> DEFINE I == TxTyped /\ Numbered /\ Exactness
<1>1. TxInit => I
  BY TxInitial
<1>2. I /\ [TxNext]_txVars => I'
  BY TxStepTyped, NumberedStep, ExactStep
<1>3. I => WatchTableExact
  BY DEF Exactness
<1> QED
  BY <1>1, <1>2, <1>3, PTL DEF TxSpec

\* Over TCP alone and without a memory limit, EXEC runs only if no command has
\* changed a watched key (store.js:199-225, transaction.js:18).
THEOREM OptimisticLocking ==
    ASSUME ~MemoryLimited, Bridged = {}
    PROVE  TxSpec => CommitMeansUnchanged
<1> DEFINE I == TxTyped /\ Numbered /\ Exactness /\ Marked
           A == \A c \in Clients :
                    Runs(c) => \A x \in watching[c] : <<x, "command">> \notin changed[c]
<1>1. TxInit => I
  BY TxInitial
<1>2. Inv /\ I /\ [TxNext]_txVars => I'
  BY TxStepTyped, NumberedStep, ExactStep, MarkedStep
<1>3. I /\ [TxNext]_txVars => [A]_txVars
  <2> SUFFICES ASSUME I, TxNext, NEW c \in Clients, Runs(c), NEW x \in watching[c]
               PROVE  <<x, "command">> \notin changed[c]
    OBVIOUS
  <2>1. ExecCommit(c)
    BY DEF TxNext, Runs, SweepTimer, ClockTick, connVars, Connect, Close, Multi, Watch, Do,
           Queue, Discard, ExecAbort, ExecCommit, ExecEntry, LeaveMulti, Idle
  <2>2. c \in open /\ x \in Slots /\ ~IsWatchDirty(c)
    BY <2>1 DEF ExecCommit, LeaveMulti, TxTyped, TxTypeOK
  <2> QED
    BY <2>2 DEF IsWatchDirty, Marked
<1>4. Spec => []Inv
  BY StoreConsistent DEF Inv
<1> QED
  BY <1>1, <1>2, <1>3, <1>4, TransactionsDriveKeyspace, PTL DEF TxSpec, CommitMeansUnchanged
=============================================================================
