----------------------------- MODULE Keyspace ------------------------------
(***************************************************************************)
(* The keyspace as a state machine: a store, a clock, and one action per   *)
(* command handler, per tick of the clock and per run of the active-expiry *)
(* sweep.  Every action is one turn of the event loop.                     *)
(*                                                                         *)
(* store.mod is an output: each command starts from Fresh, so after a step *)
(* it holds the slots whose version that step bumped.  Versions only grow, *)
(* so that is all WATCH can tell of them.                                  *)
(***************************************************************************)
EXTENDS Commands

CONSTANT MaxTime      \* bound: the clock stops there, no deadline lies beyond MaxTime + 1

ASSUME TimeBound == MaxTime \in Nat \ {0}

VARIABLES store, now

vars == <<store, now>>

Deadlines == 1 .. (MaxTime + 1)

Init == store = EmptyStore /\ now = 1

Fresh == Store(store.val, store.typ, store.ttl, store.acc, {})

\* One turn of the event loop that leaves one of the given stores.
Turn(outcomes) == store' \in outcomes /\ UNCHANGED now

-----------------------------------------------------------------------------
Exists(x) == Turn(CmdExists(Fresh, now, x))
Read(x, ty) == Turn(CmdRead(Fresh, now, x, ty))
KeysOf(d) == Turn(CmdKeys(Fresh, now, {d}))
Info == Turn(CmdKeys(Fresh, now, DBs))

Set(x, v, cond, keep, ex) == Turn(CmdSet(Fresh, now, x, v, cond, keep, ex))
Update(x, v) == Turn(CmdUpdate(Fresh, now, x, v))
Setnx(x, v) == Turn(CmdSetnx(Fresh, now, x, v))
Mset(x, v, y, w) == x[1] = y[1] /\ Turn(CmdMset(Fresh, now, x, v, y, w))
Getdel(x) == Turn(CmdGetdel(Fresh, now, x))

Del(S) == Turn(CmdDel(Fresh, S))
Expire(x, deadline) == Turn(CmdExpire(Fresh, now, x, deadline))
Persist(x) == Turn(CmdPersist(Fresh, now, x))
Rename(x, y) == x[1] = y[1] /\ Turn(CmdRename(Fresh, now, x, y))
Renamenx(x, y) == x[1] = y[1] /\ Turn(CmdRenamenx(Fresh, now, x, y))

Sadd(x, M) == Turn(CmdSadd(Fresh, now, x, M))
Srem(x, M) == Turn(CmdSrem(Fresh, now, x, M))
Spop(x, M) == Turn(CmdSpop(Fresh, now, x, M))

FlushDb(d) == Turn({FlushDbs(Fresh, {d})})
FlushAll == Turn({FlushDbs(Fresh, DBs)})
SwapDb(a, b) == Turn({SwapDbs(Fresh, a, b)})

\* Mutant: only deadlines of keys that still have a value are collected.
Sweep_PresentOnly(S) ==
    /\ S # {}
    /\ \A x \in S : IsExpired(store, now, x) /\ Present(store, x)
    /\ Turn({DeleteKeys(Fresh, S)})

\* One run of _sweep: random samples, with replacement, of the entries of
\* _timers; S is what was drawn and due.
Sweep(S) ==
    /\ S # {}
    /\ \A x \in S : IsExpired(store, now, x)
    /\ Turn({DeleteKeys(Fresh, S)})

Tick ==
    /\ now < MaxTime
    /\ now' = now + 1
    /\ store' = Fresh

-----------------------------------------------------------------------------
\* Multi-key commands take their keys from one database; DEL of more than
\* two keys and SADD of more than one member are repetitions of these.
KeyPairs == {S \in SUBSET Slots : \E x, y \in Slots : x[1] = y[1] /\ S = {x, y}}
MemberSets == {{e} : e \in Elems}

ReadStep ==
    \/ \E x \in Slots : Exists(x)
    \/ \E x \in Slots, ty \in {"string", "set"} : Read(x, ty)
    \/ \E d \in DBs : KeysOf(d)
    \/ Info

\* Commands that end in store.set on the slot x.
WriteTo(x) ==
    \/ \E v \in Strings, cond \in {"any", "nx", "xx"}, keep \in BOOLEAN,
          ex \in {NoDeadline} \cup Deadlines : Set(x, v, cond, keep, ex)
    \/ \E v \in Strings : Update(x, v) \/ Setnx(x, v)
    \/ \E M \in MemberSets : Sadd(x, M)

\* Commands that remove the slot x or part of it.
RemoveFrom(x) ==
    \/ Getdel(x)
    \/ \E M \in MemberSets : Srem(x, M)
    \/ \E M \in MemberSets \cup {{}} : Spop(x, M)

ExpiryStep ==
    \/ \E x \in Slots, deadline \in Deadlines : Expire(x, deadline)
    \/ \E x \in Slots : Persist(x)

MultiKeyStep ==
    \/ \E x, y \in Slots, v, w \in Strings : Mset(x, v, y, w)
    \/ \E x, y \in Slots : Rename(x, y) \/ Renamenx(x, y)
    \/ \E S \in KeyPairs : Del(S)

\* The steps that change many slots without touching any key version.
BulkStep ==
    \/ \E d \in DBs : FlushDb(d)
    \/ FlushAll
    \/ \E a, b \in DBs : SwapDb(a, b)

SweepStep == \E S \in SUBSET Slots : Sweep(S)

Next ==
    \/ ReadStep
    \/ \E x \in Slots : WriteTo(x) \/ RemoveFrom(x)
    \/ ExpiryStep
    \/ MultiKeyStep
    \/ BulkStep
    \/ SweepStep
    \/ Tick

Spec == Init /\ [][Next]_vars

\* The sweep runs on a setInterval as long as the server does, and each run
\* draws every entry of _timers with a probability bounded away from zero.
SweepFairness == \A x \in Slots : WF_vars(\E S \in SUBSET Slots : x \in S /\ Sweep(S))

FairSpec == Spec /\ SweepFairness

-----------------------------------------------------------------------------
TypeOK ==
    /\ store \in StoreType
    /\ now \in 1 .. MaxTime

\* The maps of DataStore and LRUEviction, updated one after the other by every
\* method, name the same keys; the type recorded for a key is that of its
\* value; no empty collection is left behind (store.js:29-89, sets.js:38-39).
MapsAgree == MapsConsistent(store)

\* A deadline belongs to a value: a key re-created later does not inherit the
\* deadline of its predecessor (store.js:71-81, strings.js:82-92).
TimersOwned == \A x \in Slots : HasExpiry(store, x) => Present(store, x)

\* What a client can see of a key changes only by a step that bumps the key's
\* version, so that WATCH notices it, or by the clock; FLUSHDB, FLUSHALL and
\* SWAPDB are the exceptions (store.js:49-81, 112-143).
VisibleChangeBumped ==
    [][ \A x \in Slots :
            VisibleValue(store', now', x) # VisibleValue(store, now, x)
            => x \in store'.mod \/ BulkStep \/ Tick ]_vars

\* However a key vanishes from sight, eviction included, its version is
\* bumped (lru.js:28, store.js:71-81).
VanishedKeysBumped ==
    [][ \A x \in Slots :
            Visible(store, now, x) /\ ~Visible(store', now', x)
            => x \in store'.mod \/ BulkStep \/ Tick ]_vars

\* With a memory limit and a policy that evicts, the only change of what a
\* client sees that bumps no version and is no work of the clock or of a bulk
\* command is that of a SADD whose write is refused: the members are in the
\* stored Set all the same, and nothing else is changed (sets.js:17-33,
\* store.js:49-69, lru.js:11-38).
SilentChangesAreRefusedSadds ==
    [][ Policy # "noeviction" =>
          \A x \in Slots :
            VisibleValue(store', now', x) # VisibleValue(store, now, x)
            => \/ x \in store'.mod \/ BulkStep \/ Tick
               \/ \E M \in MemberSets :
                    /\ Sadd(x, M) /\ store.typ[x] = "set"
                    /\ store'.val[x] = store.val[x] \cup M ]_vars

\* Under volatile-lru a write never costs another key that has no deadline
\* its value (lru.js:55-57).
PersistentKeysSurviveWrites ==
    [][ \A x \in Slots :
            (\E y \in Slots \ {x} : /\ Present(store, y) /\ ~HasExpiry(store, y)
                                    /\ store'.val[y] # store.val[y])
            => ~WriteTo(x) ]_vars

\* RENAME carries the deadline of the source, or its absence, to the target
\* (tests/expiry.test.js:149 'rename preserves expiry').
RenameCarriesDeadline ==
    [][ \A x, y \in Slots :
            Rename(x, y) /\ x # y /\ Visible(store, now, x)
            => store'.ttl[y] = store.ttl[x] ]_vars

\* What a client can see of a store: an entry per slot.
Seen(s) ==
    [x \in Slots |-> [val |-> VisibleValue(s, now, x), dl |-> VisibleDeadline(s, now, x)]]

Abstract == INSTANCE AbstractKeyspace WITH entries <- Seen(store), clock <- now

Promised(outcomes, maps) == \A s \in outcomes : Seen(s) \in maps

\* Every outcome of a command, and so every step of its action, shows what the
\* abstract command of that name and those arguments promises.
ReadsAsPromised ==
    /\ \A x \in Slots : Promised(CmdExists(Fresh, now, x), Abstract!Same)
    /\ \A x \in Slots, ty \in {"string", "set"} :
           Promised(CmdRead(Fresh, now, x, ty), Abstract!Same)
    /\ \A D \in SUBSET DBs : Promised(CmdKeys(Fresh, now, D), Abstract!Same)

WritesAsPromised ==
    /\ \A x \in Slots, v \in Strings :
           /\ \A cond \in {"any", "nx", "xx"}, keep \in BOOLEAN,
                 ex \in {NoDeadline} \cup Deadlines :
                  Promised(CmdSet(Fresh, now, x, v, cond, keep, ex),
                           Abstract!Set(x, v, cond, keep, ex))
           /\ Promised(CmdUpdate(Fresh, now, x, v), Abstract!Update(x, v))
           /\ Promised(CmdSetnx(Fresh, now, x, v), Abstract!Setnx(x, v))
    /\ \A x \in Slots, M \in MemberSets :
           Promised(CmdSadd(Fresh, now, x, M), Abstract!Sadd(x, M))

RemovalsAsPromised ==
    /\ \A x \in Slots : Promised(CmdGetdel(Fresh, now, x), Abstract!Getdel(x))
    /\ \A x \in Slots, M \in MemberSets :
           Promised(CmdSrem(Fresh, now, x, M), Abstract!Srem(x, M))
    /\ \A x \in Slots, M \in MemberSets \cup {{}} :
           Promised(CmdSpop(Fresh, now, x, M), Abstract!Spop(x, M))
    /\ \A S \in KeyPairs : Promised(CmdDel(Fresh, S), Abstract!Del(S))
    /\ \A d \in DBs : Promised({FlushDbs(Fresh, {d})}, Abstract!FlushDb(d))
    /\ Promised({FlushDbs(Fresh, DBs)}, Abstract!FlushAll)

DeadlinesAsPromised ==
    \A x \in Slots :
        /\ \A deadline \in Deadlines :
               Promised(CmdExpire(Fresh, now, x, deadline), Abstract!Expire(x, deadline))
        /\ Promised(CmdPersist(Fresh, now, x), Abstract!Persist(x))

PairsAsPromised ==
    /\ \A x, y \in Slots : x[1] = y[1] =>
           /\ \A v, w \in Strings :
                  Promised(CmdMset(Fresh, now, x, v, y, w), Abstract!Mset(x, v, y, w))
           /\ Promised(CmdRename(Fresh, now, x, y), Abstract!Rename(x, y))
           /\ Promised(CmdRenamenx(Fresh, now, x, y), Abstract!Renamenx(x, y))
    /\ \A a, b \in DBs : Promised({SwapDbs(Fresh, a, b)}, Abstract!SwapDb(a, b))

\* Without a memory limit the keyspace implements AbstractKeyspace, and each
\* step the part of it that bears its name: in whatever state the lazy expiry
\* has left the maps, a command changes what clients see only as the abstract
\* command of that name and those arguments may, so it touches only the slots
\* it names, never acts on a value that has expired and never brings one back;
\* the sweep changes nothing; a tick removes exactly what is due.
ImplementsAbstract ==
    /\ Abstract!Spec
    /\ [](/\ ReadsAsPromised /\ WritesAsPromised /\ RemovalsAsPromised
          /\ DeadlinesAsPromised /\ PairsAsPromised)
    /\ [][ /\ SweepStep => UNCHANGED Abstract!avars
           /\ Tick => Abstract!Pass ]_vars

\* A deadline that has passed does not stay behind for ever, even if no
\* client touches the key and even if its value is already gone
\* (expiry.js:77-107).
ExpiredEventuallyPurged ==
    \A x \in Slots : IsExpired(store, now, x) ~> ~IsExpired(store, now, x)
=============================================================================
