----------------------------- MODULE DataStore -----------------------------
(***************************************************************************)
(* The keyspace engine of RedisGen (src/src/datastore): the value and type *)
(* maps of every logical database, the expiry deadlines, the access times  *)
(* the evictor samples, and the key-version bumps that WATCH compares.     *)
(*                                                                         *)
(* The code keeps one Map per database and per aspect, the deadlines and   *)
(* the access times under "db:key".  Here a slot is such a pair, and a     *)
(* store is a record of maps over slots:                                   *)
(*   val   _dbs          the value, Absent when the map has no entry       *)
(*   typ   _types        "none" when the map has no entry                  *)
(*   ttl   _timers       the deadline, NoDeadline (-1, as getExpiry says)  *)
(*   acc   _accessTime   the slots that have an entry: the evictor samples *)
(*                       at random, so which is older decides nothing      *)
(*   mod   _keyVersions  the slots whose version this command has bumped   *)
(*                                                                         *)
(* The operators are the methods of DataStore, ExpiryManager and           *)
(* LRUEviction as functions from store to store.  A JavaScript handler     *)
(* runs to completion on the event loop, so one handler composes several   *)
(* of them and the composition is one step.  t stands for Date.now(),      *)
(* which is read as constant during one handler.                           *)
(***************************************************************************)
EXTENDS Integers, FiniteSets

CONSTANTS
    DBs,              \* logical databases, 0 .. dbCount - 1
    Keys,             \* key names
    Strings,          \* values of string keys
    Elems,            \* members of collections
    Absent,           \* no entry in a value map
    MemoryLimited,    \* is maxmemory set, so that a write may find it exceeded
    Policy,           \* maxmemory_policy
    TargetEvictions   \* keys one call of evict() removes: 10 in the code

ASSUME AbsentIsNoValue == Absent \notin Strings /\ \A M \in SUBSET Elems : Absent # M
ASSUME KindsDiffer == \A v \in Strings, M \in SUBSET Elems : v # M
ASSUME MemoryParameters ==
    /\ MemoryLimited \in BOOLEAN
    /\ Policy \in {"noeviction", "allkeys-lru", "volatile-lru"}
    /\ TargetEvictions \in Nat \ {0}

NoDeadline == -1
MaxAttempts == 128    \* passes of the eviction loop in enforceMemoryLimit

Slots == DBs \X Keys
Values == Strings \cup SUBSET Elems
Types == {"none", "string", "set"}

StoreType ==
    [val : [Slots -> {Absent} \cup Values],
     typ : [Slots -> Types],
     ttl : [Slots -> {NoDeadline} \cup (Nat \ {0})],
     acc : SUBSET Slots,
     mod : SUBSET Slots]

Store(val, typ, ttl, acc, mod) ==
    [val |-> val, typ |-> typ, ttl |-> ttl, acc |-> acc, mod |-> mod]

EmptyStore ==
    Store([x \in Slots |-> Absent], [x \in Slots |-> "none"],
          [x \in Slots |-> NoDeadline], {}, {})

-----------------------------------------------------------------------------
(* Looking at a store. *)

Present(s, x) == s.val[x] # Absent
HasExpiry(s, x) == s.ttl[x] # NoDeadline

\* Mutant: the deadline itself still counts as alive.
IsExpired_Late(s, t, x) == HasExpiry(s, x) /\ t > s.ttl[x]

IsExpired(s, t, x) == HasExpiry(s, x) /\ t >= s.ttl[x]

\* What a client can observe of a slot: lazy expiry hides an entry whose
\* deadline has passed, whether or not something has purged it yet.
Visible(s, t, x) == Present(s, x) /\ ~IsExpired(s, t, x)
VisibleValue(s, t, x) == IF Visible(s, t, x) THEN s.val[x] ELSE Absent
VisibleDeadline(s, t, x) == IF Visible(s, t, x) THEN s.ttl[x] ELSE NoDeadline

\* The value, type and access maps name the same slots, the type recorded is
\* that of the value, and no collection is empty.
MapsConsistent(s) ==
    /\ s.acc = {x \in Slots : Present(s, x)}
    /\ \A x \in Slots : s.typ[x] = "none" <=> ~Present(s, x)
    /\ \A x \in Slots : s.typ[x] = "string" <=> s.val[x] \in Strings
    /\ \A x \in Slots : s.val[x] # {}

WrongType(s, x, ty) == s.typ[x] # "none" /\ s.typ[x] # ty

-----------------------------------------------------------------------------
(* Removing entries. *)

\* Mutant: the deadline outlives its entry.
DropSlots_KeepsTimer(s, S) ==
    Store([x \in Slots |-> IF x \in S THEN Absent ELSE s.val[x]],
          [x \in Slots |-> IF x \in S THEN "none" ELSE s.typ[x]],
          s.ttl, s.acc \ S, s.mod)

\* The four deletions _checkExpired, deleteKey and the flushes share.
DropSlots(s, S) ==
    Store([x \in Slots |-> IF x \in S THEN Absent ELSE s.val[x]],
          [x \in Slots |-> IF x \in S THEN "none" ELSE s.typ[x]],
          [x \in Slots |-> IF x \in S THEN NoDeadline ELSE s.ttl[x]],
          s.acc \ S,
          s.mod)

\* Lazy expiry: no version bump and nothing counted as dirty.
CheckExpired(s, t, S) == DropSlots(s, {x \in S : IsExpired(s, t, x)})

\* keysInDb checks the keys of the value map, so a deadline that belongs to
\* no value is never purged by it.
KeysInDb(s, t, D) ==
    CheckExpired(s, t, {x \in Slots : x[1] \in D /\ Present(s, x)})

\* Key versions grow.
Bump(s, S) == Store(s.val, s.typ, s.ttl, s.acc, s.mod \cup S)

\* Mutant: a deletion bumps no version.
DeleteKeys_Silent(s, S) == DropSlots(s, S)

\* deleteKey on each slot of S; it does not look at the deadline.
DeleteKeys(s, S) == Bump(DropSlots(s, S), {x \in S : Present(s, x)})

\* flushDb and flushAll bump no version.
FlushDbs(s, D) == DropSlots(s, {x \in Slots : x[1] \in D})

\* swapDb exchanges all four maps and bumps no version.
SwappedSlot(a, b, x) ==
    CASE x[1] = a -> <<b, x[2]>>
      [] x[1] = b /\ a # b -> <<a, x[2]>>
      [] OTHER -> x

SwapDbs(s, a, b) ==
    Store([x \in Slots |-> s.val[SwappedSlot(a, b, x)]],
          [x \in Slots |-> s.typ[SwappedSlot(a, b, x)]],
          [x \in Slots |-> s.ttl[SwappedSlot(a, b, x)]],
          {x \in Slots : SwappedSlot(a, b, x) \in s.acc},
          s.mod)

-----------------------------------------------------------------------------
(* Reading and writing entries. *)

\* Map.set on one of the maps.
MapSet(f, x, v) == [y \in Slots |-> IF y = x THEN v ELSE f[y]]

Touch(s, x) == Store(s.val, s.typ, s.ttl, s.acc \cup {x}, s.mod)

\* The store that get leaves; the value it returns is val[x] of the result.
Get(s, t, x) ==
    LET p == CheckExpired(s, t, {x})
    IN  IF Present(p, x) THEN Touch(p, x) ELSE p

MarkDirty(s, x) == Bump(Touch(s, x), {x})

\* The second half of set, once memory allows it: the deadline stays.
PutValue(s, x, v, ty) ==
    Store(MapSet(s.val, x, v), MapSet(s.typ, x, ty), s.ttl,
          s.acc \cup {x}, s.mod \cup {x})

\* A handler changes the Set object that get returned: nothing else notices.
MutateInPlace(s, x, v) == Store(MapSet(s.val, x, v), s.typ, s.ttl, s.acc, s.mod)

SetExpireAt(s, x, deadline) ==
    Store(s.val, s.typ, MapSet(s.ttl, x, deadline), s.acc, s.mod)

\* Mutant: the deadline is zeroed instead of deleted.
RemoveExpiry_Zero(s, x) == SetExpireAt(s, x, 0)

RemoveExpiry(s, x) == SetExpireAt(s, x, NoDeadline)

-----------------------------------------------------------------------------
(* The memory limit.  The heap size is the allocator's business: whether a *)
(* write finds it above maxmemory, and still above after an eviction, is   *)
(* a free choice.                                                          *)

LiveSlots(s) == {x \in Slots : Present(s, x)}

\* Mutant: the policy is not consulted.
Evictable_Any(s) == LiveSlots(s)

Evictable(s) ==
    IF Policy = "volatile-lru"
    THEN {x \in LiveSlots(s) : HasExpiry(s, x)}
    ELSE LiveSlots(s)

\* _pickCandidate returns null: there is no key, or none of its five samples
\* has a deadline as volatile-lru demands.
NoCandidate(s) == Evictable(s) # LiveSlots(s) \/ LiveSlots(s) = {}

\* The slots E that calls of evict which freed something can have removed
\* from s: each call removes TargetEvictions keys or stops for want of a
\* candidate.
EvictedBy(s, E) ==
    /\ E # {}
    /\ E \subseteq Evictable(s)
    /\ \/ NoCandidate(s)
       \/ NoCandidate(DropSlots(s, E))
       \/ Cardinality(E) % TargetEvictions = 0

\* enforceMemoryLimit returns true: an evict freed nothing, or attempts ran
\* out.
GivesUpAfter(s, E) == NoCandidate(DropSlots(s, E)) \/ Cardinality(E) >= MaxAttempts

\* Every store that set may leave: written without eviction, written after an
\* eviction (of any slot, x itself included), or rejected.
SetOutcomes(s, t, x, v, ty) ==
    LET p == KeysInDb(s, t, DBs)
        Passes == {E \in SUBSET Evictable(p) : EvictedBy(p, E)}
    IN  {PutValue(s, x, v, ty)}
        \cup (IF MemoryLimited /\ Policy = "noeviction" THEN {s} ELSE {})
        \cup (IF MemoryLimited /\ Policy # "noeviction"
              THEN {PutValue(DeleteKeys(p, E), x, v, ty) : E \in Passes}
                   \cup {DeleteKeys(p, E) :
                            E \in {F \in Passes \cup {{}} : GivesUpAfter(p, F)}}
              ELSE {})
=============================================================================
