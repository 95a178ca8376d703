--------------------------- MODULE KeyspaceProofs --------------------------
(***************************************************************************)
(* Theorems about Keyspace for all values of its constants.  The type      *)
(* invariant and the agreement of the maps are inductive only together: a  *)
(* rename, say, writes under the new name the type it found under the old  *)
(* one, which is right because the maps agreed before.  The last section   *)
(* proves that Keyspace implements AbstractKeyspace when memory is not     *)
(* limited.                                                                *)
(***************************************************************************)
EXTENDS Keyspace, CommandsProofs

Inv == TypeOK /\ MapsAgree

\* The turns of the event loop that are about single keys.
KeyStep ==
    \/ ReadStep
    \/ \E x \in Slots : WriteTo(x) \/ RemoveFrom(x)
    \/ ExpiryStep
    \/ MultiKeyStep
    \/ SweepStep

\* What such a turn guarantees.
Guarded ==
    /\ Consistent(store')
    /\ now' = now
    /\ NoLoss(Fresh, store', now)
    /\ ~MemoryLimited => Tidy(Fresh, store', now)

\* The invariant in the terms of CommandsProofs.
LEMMA InvConsistent == Inv <=> Consistent(store) /\ now \in 1 .. MaxTime
  BY DEF Inv, TypeOK, MapsAgree, Consistent

\* Resetting the record of bumped versions changes nothing else.
LEMMA FreshFacts ==
    ASSUME Inv
    PROVE  /\ Consistent(Fresh) /\ Fresh.mod = {} /\ now \in Int
           /\ TimersOk(Fresh) <=> TimersOk(store)
           /\ \A t, x : /\ VisibleValue(Fresh, t, x) = VisibleValue(store, t, x)
                        /\ Visible(Fresh, t, x) <=> Visible(store, t, x)
<1>1. Consistent(store) /\ now \in 1 .. MaxTime
  BY InvConsistent
<1>2. Consistent(Fresh)
  BY <1>1, StoreFields DEF Fresh, Store, Consistent, StoreType, MapsConsistent, Present
<1>3. now \in Int
  BY <1>1, TimeBound
<1> QED
  BY <1>2, <1>3 DEF Fresh, Store, VisibleValue, Visible, Present, IsExpired, HasExpiry, TimersOk

\* The parameters Next draws are those the command lemmas ask for.
LEMMA ParameterFacts ==
    /\ \A M \in MemberSets : M \in NonEmptySets /\ M \in SUBSET Elems
    /\ Deadlines \subseteq Nat \ {0}
    /\ {NoDeadline} \cup Deadlines \subseteq DeadlineOptions
    /\ \A S \in KeyPairs : S \in SUBSET Slots
  BY TimeBound DEF MemberSets, NonEmptySets, Deadlines, DeadlineOptions, KeyPairs

\* Reads keep the guarantees.
LEMMA ReadsGuarded == ASSUME Inv, ReadStep PROVE Guarded
<1> USE FreshFacts
<1>1. CASE \E x \in Slots : Exists(x)
  BY <1>1, ReadsConsistent, ReadsTidy DEF Exists, Turn, Guarded
<1>2. CASE \E x \in Slots, ty \in {"string", "set"} : Read(x, ty)
  BY <1>2, ReadsConsistent, ReadsTidy DEF Read, Turn, Guarded
<1>3. ASSUME NEW D, Turn(CmdKeys(Fresh, now, D))
      PROVE  Guarded
  BY <1>3, KeysInDbConsistent, KeysInDbTidy DEF Turn, Guarded, CmdKeys
<1> QED
  BY <1>1, <1>2, <1>3 DEF ReadStep, KeysOf, Info

\* So do the commands that end in store.set,
LEMMA WritesGuarded == ASSUME Inv, NEW x \in Slots, WriteTo(x) PROVE Guarded
<1> USE FreshFacts, ParameterFacts
<1>1. ASSUME NEW v \in Strings, NEW cond, NEW keep,
             NEW ex \in {NoDeadline} \cup Deadlines, Set(x, v, cond, keep, ex)
      PROVE  Guarded
  <2>1. ex \in DeadlineOptions
    OBVIOUS
  <2> QED
    BY <1>1, <2>1, SetCommandConsistent, SetCommandTidy, SetCommandNoLoss
       DEF Set, Turn, Guarded
<1>2. ASSUME NEW v \in Strings, Update(x, v) \/ Setnx(x, v)
      PROVE  Guarded
  BY <1>2, UpdateConsistent, SetnxConsistent, StringsTidy DEF Update, Setnx, Turn, Guarded
<1>3. ASSUME NEW M \in MemberSets, Sadd(x, M)
      PROVE  Guarded
  BY <1>3, SaddConsistent, SaddTidy DEF Sadd, Turn, Guarded
<1> QED
  BY <1>1, <1>2, <1>3 DEF WriteTo

\* those that remove members or keys,
LEMMA RemovalsGuarded == ASSUME Inv, NEW x \in Slots, RemoveFrom(x) PROVE Guarded
<1> USE FreshFacts, ParameterFacts
<1>1. CASE Getdel(x)
  BY <1>1, RemovalsConsistent, RemovalsTidy DEF Getdel, Turn, Guarded
<1>2. ASSUME NEW M \in SUBSET Elems, Srem(x, M) \/ Spop(x, M)
      PROVE  Guarded
  BY <1>2, SremSpopConsistent, SremSpopTidy DEF Srem, Spop, Turn, Guarded
<1> QED
  BY <1>1, <1>2 DEF RemoveFrom

\* those that change deadlines,
LEMMA ExpiryGuarded == ASSUME Inv, ExpiryStep PROVE Guarded
<1> USE FreshFacts, ParameterFacts
<1>1. ASSUME NEW x \in Slots, NEW deadline \in Deadlines, Expire(x, deadline)
      PROVE  Guarded
  BY <1>1, ExpireConsistent, ExpireTidy DEF Expire, Turn, Guarded
<1>2. ASSUME NEW x \in Slots, Persist(x)
      PROVE  Guarded
  <2>1. 1 \in Nat \ {0}
    OBVIOUS
  <2> QED
    BY <1>2, <2>1, ExpireConsistent, ExpireTidy DEF Persist, Turn, Guarded
<1> QED
  BY <1>1, <1>2 DEF ExpiryStep

\* those on several keys,
LEMMA MultiKeyGuarded == ASSUME Inv, MultiKeyStep PROVE Guarded
<1> USE FreshFacts, ParameterFacts
<1>1. ASSUME NEW x \in Slots, NEW y \in Slots, NEW v \in Strings, NEW w \in Strings,
             Mset(x, v, y, w)
      PROVE  Guarded
  BY <1>1, MsetConsistent, MsetTidy DEF Mset, Turn, Guarded
<1>2. ASSUME NEW x \in Slots, NEW y \in Slots, Rename(x, y) \/ Renamenx(x, y)
      PROVE  Guarded
  BY <1>2, RenamesConsistent, RenamesTidy DEF Rename, Renamenx, Turn, Guarded
<1>3. ASSUME NEW S \in SUBSET Slots, Del(S)
      PROVE  Guarded
  BY <1>3, DeleteConsistent, DeleteTidy DEF Del, CmdDel, Turn, Guarded
<1> QED
  BY <1>1, <1>2, <1>3 DEF MultiKeyStep

\* and the sweep.
LEMMA SweepGuarded == ASSUME Inv, SweepStep PROVE Guarded
  BY FreshFacts, DeleteConsistent, DeleteTidy DEF SweepStep, Sweep, Turn, Guarded

\* Together: every turn that is about single keys keeps them.
LEMMA KeyStepGuarded == ASSUME Inv, KeyStep PROVE Guarded
  BY ReadsGuarded, WritesGuarded, RemovalsGuarded, ExpiryGuarded, MultiKeyGuarded,
     SweepGuarded DEF KeyStep

\* The other steps: a flush, an exchange of databases, a tick.
LEMMA OtherSteps ==
    ASSUME Inv, BulkStep \/ Tick
    PROVE  /\ Consistent(store') /\ now' \in 1 .. MaxTime
           /\ TimersOk(store) => TimersOk(store')
<1>1. /\ now \in 1 .. MaxTime /\ Consistent(Fresh)
      /\ TimersOk(Fresh) <=> TimersOk(store)
  BY FreshFacts, InvConsistent
<1>2. ASSUME NEW D, Turn({FlushDbs(Fresh, D)})
      PROVE  Consistent(store') /\ now' = now /\ (TimersOk(Fresh) => TimersOk(store'))
  <2>1. store' = FlushDbs(Fresh, D) /\ now' = now
    BY <1>2 DEF Turn
  <2>2. TimersOk(Fresh) => TimersOk(FlushDbs(Fresh, D))
    BY DEF FlushDbs, DropSlots, Store, TimersOk, HasExpiry, Present
  <2> QED
    BY <1>1, <2>1, <2>2, FlushConsistent
<1>3. ASSUME NEW a \in DBs, NEW b \in DBs, SwapDb(a, b)
      PROVE  Consistent(store') /\ now' = now /\ (TimersOk(Fresh) => TimersOk(store'))
  <2>1. \A x \in Slots : SwappedSlot(a, b, x) \in Slots
    BY DEF Slots, SwappedSlot
  <2>2. store' = SwapDbs(Fresh, a, b) /\ now' = now
    BY <1>3 DEF SwapDb, Turn
  <2>3. \A x \in Slots : /\ store'.val[x] = Fresh.val[SwappedSlot(a, b, x)]
                         /\ store'.ttl[x] = Fresh.ttl[SwappedSlot(a, b, x)]
    BY <2>2 DEF SwapDbs, Store
  <2> QED
    BY <1>1, <2>1, <2>2, <2>3, SwapConsistent DEF TimersOk, HasExpiry, Present
<1>4. CASE Tick
  BY <1>1, <1>4, TimeBound DEF Tick
<1> QED
  BY <1>1, <1>2, <1>3, <1>4 DEF BulkStep, FlushDb, FlushAll

-----------------------------------------------------------------------------
\* The type invariant and the agreement of the value, type and access maps
\* hold throughout, with and without a memory limit (store.js:29-89).
THEOREM StoreConsistent == Spec => [](TypeOK /\ MapsAgree)
<1>1. Init => Inv
  BY EmptyConsistent, InvConsistent, TimeBound DEF Init
<1>2. Inv /\ [Next]_vars => Inv'
  <2> SUFFICES ASSUME Inv, [Next]_vars
               PROVE  Consistent(store') /\ now' \in 1 .. MaxTime
    BY DEF Inv, TypeOK, MapsAgree, Consistent
  <2>1. Consistent(store) /\ now \in 1 .. MaxTime
    BY InvConsistent
  <2>2. CASE KeyStep
    BY <2>1, <2>2, KeyStepGuarded DEF Guarded
  <2>3. CASE BulkStep \/ Tick
    BY <2>3, OtherSteps
  <2>4. CASE UNCHANGED vars
    BY <2>1, <2>4 DEF vars
  <2> QED
    BY <2>2, <2>3, <2>4 DEF Next, KeyStep
<1> QED
  BY <1>1, <1>2, PTL DEF Spec, Inv

\* Without a memory limit no deadline outlives its value, so a key that is
\* created again starts without one (store.js:71-81, strings.js:82-92).
THEOREM TimersStayOwned == ASSUME ~MemoryLimited PROVE Spec => []TimersOwned
<1>1. Init => TimersOwned
  BY DEF Init, TimersOwned, EmptyStore, Store, HasExpiry
<1>2. Inv /\ TimersOwned /\ [Next]_vars => TimersOwned'
  <2> SUFFICES ASSUME Inv, TimersOk(store), [Next]_vars
               PROVE  TimersOk(store')
    BY DEF TimersOwned, TimersOk
  <2>1. CASE KeyStep
    BY <2>1, KeyStepGuarded, FreshFacts DEF Guarded, Tidy
  <2>2. CASE BulkStep \/ Tick
    BY <2>2, OtherSteps
  <2>3. CASE UNCHANGED vars
    BY <2>3 DEF vars
  <2> QED
    BY <2>1, <2>2, <2>3 DEF Next, KeyStep
<1> QED
  BY <1>1, <1>2, StoreConsistent, PTL DEF Spec, Inv

\* The type invariant by itself: no sequence of commands, sweeps and evictions
\* stores a value under the name of another type or a deadline that is no time
\* (store.js:71-81, expiry.js:17-41).
THEOREM KeyspaceTyped == Spec => []TypeOK
  BY StoreConsistent, PTL

\* With and without a memory limit, whatever vanishes is bumped, unless a
\* flush, an exchange or the clock takes it (store.js:71-81, lru.js:28).
THEOREM NothingVanishesUnnoticed == Spec => VanishedKeysBumped
<1> DEFINE A == \A x \in Slots :
                    Visible(store, now, x) /\ ~Visible(store', now', x)
                    => x \in store'.mod \/ BulkStep \/ Tick
<1>1. Inv /\ [Next]_vars => [A]_vars
  <2> SUFFICES ASSUME Inv, Next, ~BulkStep, ~Tick
               PROVE  A
    OBVIOUS
  <2>1. Guarded
    BY KeyStepGuarded DEF Next, KeyStep
  <2> QED
    BY <2>1, FreshFacts DEF Guarded, NoLoss
<1> QED
  BY <1>1, StoreConsistent, PTL DEF Spec, Inv, VanishedKeysBumped

\* Without a memory limit, whatever changes is bumped, with the same
\* exceptions: WATCH can trust the versions (store.js:49-81).
THEOREM ChangesAreBumped == ASSUME ~MemoryLimited PROVE Spec => VisibleChangeBumped
<1> DEFINE A == \A x \in Slots :
                    VisibleValue(store', now', x) # VisibleValue(store, now, x)
                    => x \in store'.mod \/ BulkStep \/ Tick
<1>1. Inv /\ [Next]_vars => [A]_vars
  <2> SUFFICES ASSUME Inv, Next, ~BulkStep, ~Tick
               PROVE  A
    OBVIOUS
  <2>1. Guarded
    BY KeyStepGuarded DEF Next, KeyStep
  <2> QED
    BY <2>1, FreshFacts DEF Guarded, Tidy, Noted
<1> QED
  BY <1>1, StoreConsistent, PTL DEF Spec, Inv, VisibleChangeBumped

-----------------------------------------------------------------------------
\* A turn that is about single keys, under a policy that evicts.
LEMMA EvictingKeyStep ==
    ASSUME Inv, Policy # "noeviction", KeyStep
    PROVE  \/ Noted(Fresh, store', now)
           \/ \E x \in Slots, M \in MemberSets :
                  /\ Sadd(x, M) /\ store.typ[x] = "set" /\ store'.val[x] = store.val[x] \cup M
                  /\ \A y \in Slots \ {x} : \/ y \in store'.mod
                                            \/ VisibleValue(store', now, y) = VisibleValue(Fresh, now, y)
<1> USE FreshFacts, ParameterFacts
<1>1. CASE ReadStep
  <2>1. CASE \E x \in Slots : Exists(x)
    BY <2>1, ReadsTidy DEF Exists, Turn, Tidy
  <2>2. CASE \E x \in Slots, ty \in {"string", "set"} : Read(x, ty)
    BY <2>2, ReadsTidy DEF Read, Turn, Tidy
  <2>3. ASSUME NEW D, Turn(CmdKeys(Fresh, now, D))
        PROVE  Noted(Fresh, store', now)
    BY <2>3, KeysInDbTidy DEF Turn, CmdKeys, Tidy
  <2> QED
    BY <1>1, <2>1, <2>2, <2>3 DEF ReadStep, KeysOf, Info
<1>2. ASSUME NEW x \in Slots, NEW v \in Strings, NEW cond, NEW keep,
             NEW ex \in {NoDeadline} \cup Deadlines, Set(x, v, cond, keep, ex)
      PROVE  Noted(Fresh, store', now)
  <2>1. ex \in DeadlineOptions
    OBVIOUS
  <2> QED
    BY <1>2, <2>1, SetCommandNoted DEF Set, Turn
<1>3. ASSUME NEW x \in Slots, NEW v \in Strings, Update(x, v) \/ Setnx(x, v)
      PROVE  Noted(Fresh, store', now)
  BY <1>3, StringsNoted DEF Update, Setnx, Turn
<1>4. ASSUME NEW x \in Slots, NEW M \in MemberSets, Sadd(x, M)
      PROVE  \/ Noted(Fresh, store', now)
             \/ /\ store.typ[x] = "set" /\ store'.val[x] = store.val[x] \cup M
                /\ \A y \in Slots \ {x} : \/ y \in store'.mod
                                          \/ VisibleValue(store', now, y) = VisibleValue(Fresh, now, y)
  <2>1. Fresh.typ = store.typ /\ Fresh.val = store.val
    BY DEF Fresh, Store
  <2>2. store' \in CmdSadd(Fresh, now, x, M)
    BY <1>4 DEF Sadd, Turn
  <2> QED
    BY <2>1, <2>2, SaddNoted
<1>5. ASSUME NEW x \in Slots, RemoveFrom(x)
      PROVE  Noted(Fresh, store', now)
  <2>1. CASE Getdel(x)
    BY <2>1, RemovalsTidy DEF Getdel, Turn, Tidy
  <2>2. ASSUME NEW M \in SUBSET Elems, Srem(x, M) \/ Spop(x, M)
        PROVE  Noted(Fresh, store', now)
    BY <2>2, SremSpopTidy DEF Srem, Spop, Turn, Tidy
  <2> QED
    BY <1>5, <2>1, <2>2 DEF RemoveFrom
<1>6. CASE ExpiryStep
  <2>1. 1 \in Nat \ {0}
    OBVIOUS
  <2>2. ASSUME NEW x \in Slots, NEW deadline \in Deadlines, Expire(x, deadline)
        PROVE  Noted(Fresh, store', now)
    BY <2>2, ExpireTidy DEF Expire, Turn, Tidy
  <2>3. ASSUME NEW x \in Slots, Persist(x)
        PROVE  Noted(Fresh, store', now)
    BY <2>1, <2>3, ExpireTidy DEF Persist, Turn, Tidy
  <2> QED
    BY <1>6, <2>2, <2>3 DEF ExpiryStep
<1>7. CASE MultiKeyStep
  <2>1. ASSUME NEW x \in Slots, NEW y \in Slots, NEW v \in Strings, NEW w \in Strings,
               Mset(x, v, y, w)
        PROVE  Noted(Fresh, store', now)
    BY <2>1, MsetNoted DEF Mset, Turn
  <2>2. ASSUME NEW x \in Slots, NEW y \in Slots, Rename(x, y) \/ Renamenx(x, y)
        PROVE  Noted(Fresh, store', now)
    BY <2>2, RenamesNoted DEF Rename, Renamenx, Turn
  <2>3. ASSUME NEW S \in SUBSET Slots, Del(S)
        PROVE  Noted(Fresh, store', now)
    BY <2>3, DeleteTidy DEF Del, CmdDel, Turn, Tidy
  <2> QED
    BY <1>7, <2>1, <2>2, <2>3 DEF MultiKeyStep
<1>8. CASE SweepStep
  BY <1>8, DeleteTidy DEF SweepStep, Sweep, Turn, Tidy
<1> QED
  BY <1>1, <1>2, <1>3, <1>4, <1>5, <1>6, <1>7, <1>8 DEF KeyStep, WriteTo

\* Under a policy that evicts, whatever else changes unnoticed, a refused SADD
\* is the only command to do it, and to its own key (sets.js:17-33, lru.js:11-38).
THEOREM OnlyRefusedSaddsAreSilent == Spec => SilentChangesAreRefusedSadds
<1> DEFINE A == Policy # "noeviction" =>
                  \A x \in Slots :
                    VisibleValue(store', now', x) # VisibleValue(store, now, x)
                    => \/ x \in store'.mod \/ BulkStep \/ Tick
                       \/ \E M \in MemberSets :
                            /\ Sadd(x, M) /\ store.typ[x] = "set"
                            /\ store'.val[x] = store.val[x] \cup M
<1>1. Inv /\ [Next]_vars => [A]_vars
  <2> SUFFICES ASSUME Inv, Next, ~BulkStep, ~Tick, Policy # "noeviction", NEW x \in Slots,
                      VisibleValue(store', now', x) # VisibleValue(store, now, x),
                      x \notin store'.mod
               PROVE  \E M \in MemberSets :
                          /\ Sadd(x, M) /\ store.typ[x] = "set"
                          /\ store'.val[x] = store.val[x] \cup M
    OBVIOUS
  <2>1. KeyStep
    BY DEF Next, KeyStep
  <2>2. now' = now
    BY <2>1, KeyStepGuarded DEF Guarded
  <2>3. VisibleValue(store', now, x) # VisibleValue(Fresh, now, x)
    BY <2>2, FreshFacts
  <2>4. ~Noted(Fresh, store', now)
    BY <2>3 DEF Noted
  <2> QED
    BY <2>1, <2>3, <2>4, EvictingKeyStep
<1> QED
  BY <1>1, StoreConsistent, PTL DEF Spec, Inv, SilentChangesAreRefusedSadds

\* Under volatile-lru a write costs no other key that has no deadline its
\* value, whatever it evicts (lru.js:55-57).
THEOREM PersistentKeysSurvive ==
    ASSUME Policy = "volatile-lru" PROVE Spec => PersistentKeysSurviveWrites
<1> DEFINE A == \A x \in Slots :
                    (\E y \in Slots \ {x} : /\ Present(store, y) /\ ~HasExpiry(store, y)
                                            /\ store'.val[y] # store.val[y])
                    => ~WriteTo(x)
<1>1. [Next]_vars => [A]_vars
  <2> SUFFICES ASSUME NEW x \in Slots, WriteTo(x), NEW y \in Slots \ {x},
                      Present(store, y), ~HasExpiry(store, y)
               PROVE  store'.val[y] = store.val[y]
    OBVIOUS
  <2>1. Kept(Fresh, store', x)
    BY WritesKeep DEF WriteTo, Set, Update, Setnx, Sadd, Turn
  <2> QED
    BY <2>1 DEF Kept, Fresh, Store, Present, HasExpiry
<1> QED
  BY <1>1, PTL DEF Spec, PersistentKeysSurviveWrites

-----------------------------------------------------------------------------
(* The keyspace implements AbstractKeyspace: first what every command may   *)
(* leave in sight, in the order of Commands, then that this is what the     *)
(* abstract command of the same name allows.                                *)

\* What a client sees under x: a string, or a set.
HoldsString(s, t, x) == Visible(s, t, x) /\ s.val[x] \in Strings
HoldsSet(s, t, x) == Visible(s, t, x) /\ s.val[x] \notin Strings

\* From s to o nothing but x changes in sight, and x shows the value v until dl.
Gets(s, o, t, x, v, dl) ==
    Elsewhere(s, o, t, {x}) /\ Shown(o, t, x) = [val |-> v, dl |-> dl]

AnyDeadline == {NoDeadline} \cup (Nat \ {0})

\* A store between two commands, without a memory limit.
Ready(s, t) == ~MemoryLimited /\ Consistent(s) /\ TimersOk(s) /\ t \in Nat \ {0}

\* A deadline that has not passed is to come.
LEMMA DeadlinesComing ==
    ASSUME NEW t \in Nat \ {0}, NEW dl \in AnyDeadline
    PROVE  /\ dl > 0 <=> dl # NoDeadline
           /\ dl # NoDeadline => (dl <= t <=> t >= dl)
  BY DEF AnyDeadline, NoDeadline

\* What a command finds at the slot it has checked or fetched.
LEMMA FetchedEntry ==
    ASSUME NEW s, NEW t, Ready(s, t), NEW x \in Slots,
           NEW g \in {CheckExpired(s, t, {x}), Get(s, t, x), Get(CheckExpired(s, t, {x}), t, x)}
    PROVE  /\ Same(s, g, t) /\ Consistent(g) /\ TimersOk(g)
           /\ ~IsExpired(g, t, x)
           /\ Present(g, x) <=> Visible(s, t, x)
           /\ g.ttl[x] = Shown(s, t, x).dl /\ g.ttl[x] \in AnyDeadline
           /\ Present(g, x) => g.val[x] = s.val[x] /\ g.typ[x] = s.typ[x]
<1>1. /\ g.val[x] = (IF IsExpired(s, t, x) THEN Absent ELSE s.val[x])
      /\ g.typ[x] = (IF IsExpired(s, t, x) THEN "none" ELSE s.typ[x])
      /\ g.ttl[x] = (IF IsExpired(s, t, x) THEN NoDeadline ELSE s.ttl[x])
  <2>1. ASSUME NEW r
        PROVE  LET c == CheckExpired(r, t, {x})
               IN  /\ c.val[x] = (IF IsExpired(r, t, x) THEN Absent ELSE r.val[x])
                   /\ c.typ[x] = (IF IsExpired(r, t, x) THEN "none" ELSE r.typ[x])
                   /\ c.ttl[x] = (IF IsExpired(r, t, x) THEN NoDeadline ELSE r.ttl[x])
                   /\ ~IsExpired(c, t, x)
    BY DEF CheckExpired, DropSlots, Store, IsExpired, HasExpiry
  <2>2. ASSUME NEW r
        PROVE  LET c == CheckExpired(r, t, {x})
               IN  /\ Get(r, t, x).val[x] = c.val[x]
                   /\ Get(r, t, x).typ[x] = c.typ[x]
                   /\ Get(r, t, x).ttl[x] = c.ttl[x]
    BY DEF Get, Touch, Store
  <2> DEFINE c == CheckExpired(s, t, {x})
             d == CheckExpired(c, t, {x})
  <2>3. /\ c.val[x] = (IF IsExpired(s, t, x) THEN Absent ELSE s.val[x])
        /\ c.typ[x] = (IF IsExpired(s, t, x) THEN "none" ELSE s.typ[x])
        /\ c.ttl[x] = (IF IsExpired(s, t, x) THEN NoDeadline ELSE s.ttl[x])
        /\ ~IsExpired(c, t, x)
    BY <2>1
  <2>4. d.val[x] = c.val[x] /\ d.typ[x] = c.typ[x] /\ d.ttl[x] = c.ttl[x]
    BY <2>1, <2>3
  <2>5. /\ Get(s, t, x).val[x] = c.val[x] /\ Get(s, t, x).typ[x] = c.typ[x]
        /\ Get(s, t, x).ttl[x] = c.ttl[x]
        /\ Get(c, t, x).val[x] = d.val[x] /\ Get(c, t, x).typ[x] = d.typ[x]
        /\ Get(c, t, x).ttl[x] = d.ttl[x]
    BY <2>2
  <2>6. g \in {c, Get(s, t, x), Get(c, t, x)}
    OBVIOUS
  <2> HIDE DEF c, d
  <2> QED
    BY <2>3, <2>4, <2>5, <2>6
<1>2. Same(s, g, t)
  <2>1. /\ Same(s, CheckExpired(s, t, {x}), t) /\ Same(s, Get(s, t, x), t)
        /\ Same(CheckExpired(s, t, {x}), Get(CheckExpired(s, t, {x}), t, x), t)
    BY CallEntries
  <2> QED
    BY <2>1 DEF Same
<1>3. Consistent(g)
  BY CheckExpiredConsistent, GetConsistent DEF Ready
<1>4. TimersOk(g)
  BY CheckExpiredTidy, GetTidy DEF Tidy, Ready
<1>5. HasExpiry(s, x) => Present(s, x)
  BY DEF Ready, TimersOk
<1>6. g.ttl[x] \in AnyDeadline
  BY <1>3 DEF Consistent, StoreType, AnyDeadline
<1> QED
  BY <1>1, <1>2, <1>3, <1>4, <1>5, <1>6
  DEF Shown, VisibleDeadline, Visible, Present, IsExpired, HasExpiry

\* What checkType finds out.
LEMMA TypeChecks ==
    ASSUME NEW s, NEW t, Ready(s, t), NEW x \in Slots
    PROVE  LET p == CheckExpired(s, t, {x})
           IN  /\ WrongType(p, x, "string") <=> HoldsSet(s, t, x)
               /\ WrongType(p, x, "set") <=> HoldsString(s, t, x)
<1> DEFINE p == CheckExpired(s, t, {x})
<1>1. /\ Consistent(p)
      /\ Present(p, x) <=> Visible(s, t, x)
      /\ Present(p, x) => p.val[x] = s.val[x]
  BY FetchedEntry
<1> HIDE DEF p
<1>2. /\ p.typ[x] = "none" <=> ~Present(p, x)
      /\ p.typ[x] = "string" <=> p.val[x] \in Strings
      /\ p.typ[x] \in Types
  BY <1>1 DEF Consistent, MapsConsistent, StoreType
<1>3. Absent \notin Strings
  BY AbsentIsNoValue
<1>4. /\ WrongType(p, x, "string") <=> HoldsSet(s, t, x)
      /\ WrongType(p, x, "set") <=> HoldsString(s, t, x)
  BY <1>1, <1>2, <1>3 DEF WrongType, HoldsSet, HoldsString, Present, Types
<1> QED
  BY <1>4 DEF p

\* A set that a command has fetched is a set of members.
LEMMA FetchedSet ==
    ASSUME NEW s, NEW t, Ready(s, t), NEW x \in Slots, HoldsSet(s, t, x)
    PROVE  s.val[x] \in SUBSET Elems /\ s.val[x] # {}
  BY DEF HoldsSet, Visible, Present, Ready, Consistent, MapsConsistent, StoreType, Values

\* Without a limit a write is just that.
LEMMA PutEntry ==
    ASSUME NEW s, NEW t, NEW g, NEW x \in Slots, NEW v, v # Absent, NEW ty,
           ~MemoryLimited, Same(s, g, t), ~IsExpired(g, t, x), NEW o \in SetOutcomes(g, t, x, v, ty)
    PROVE  /\ o = PutValue(g, x, v, ty)
           /\ Gets(s, o, t, x, v, g.ttl[x])
           /\ o.val[x] = v /\ o.ttl = g.ttl
<1>1. o = PutValue(g, x, v, ty)
  BY SetUnlimited
<1>2. /\ Elsewhere(g, PutValue(g, x, v, ty), t, {x})
      /\ Shown(PutValue(g, x, v, ty), t, x) = [val |-> v, dl |-> g.ttl[x]]
  BY PutEntries
<1> QED
  BY <1>1, <1>2 DEF Gets, Elsewhere, Same, PutValue, MapSet, Store

\* Reads.
LEMMA ReadEntries ==
    ASSUME NEW s, NEW t, Ready(s, t), NEW x \in Slots, NEW ty, NEW D,
           NEW o \in CmdExists(s, t, x) \cup CmdRead(s, t, x, ty) \cup CmdKeys(s, t, D)
    PROVE  Same(s, o, t)
<1>1. CASE o \in {CheckExpired(s, t, {x}), Get(CheckExpired(s, t, {x}), t, x)}
  BY <1>1, FetchedEntry
<1>2. CASE o = KeysInDb(s, t, D)
  BY <1>2, CallEntries DEF KeysInDb
<1> QED
  BY <1>1, <1>2 DEF CmdExists, CmdRead, CmdKeys

\* SET with its options.
LEMMA SetEntries ==
    ASSUME NEW s, NEW t, Ready(s, t), NEW x \in Slots, NEW v \in Strings, NEW cond,
           NEW keep \in BOOLEAN, NEW ex \in AnyDeadline,
           NEW o \in CmdSet(s, t, x, v, cond, keep, ex)
    PROVE  LET Refused == \/ HoldsSet(s, t, x)
                          \/ (cond = "nx" /\ Visible(s, t, x)) \/ (cond = "xx" /\ ~Visible(s, t, x))
               old == Shown(s, t, x).dl
           IN  IF Refused THEN Same(s, o, t)
               ELSE IF ex # NoDeadline /\ ex <= t THEN Removes(s, o, t, {x})
               ELSE Gets(s, o, t, x, v, IF keep /\ old # NoDeadline THEN old ELSE ex)
<1> DEFINE p == CheckExpired(s, t, {x})
           g == Get(p, t, x)
           prev == IF keep THEN g.ttl[x] ELSE NoDeadline
           Refused == \/ HoldsSet(s, t, x)
                      \/ (cond = "nx" /\ Visible(s, t, x)) \/ (cond = "xx" /\ ~Visible(s, t, x))
           old == Shown(s, t, x).dl
           dl == IF keep /\ old # NoDeadline THEN old ELSE ex
<1>1. /\ Same(s, p, t) /\ Same(s, g, t) /\ ~IsExpired(g, t, x)
      /\ Present(g, x) <=> Visible(s, t, x)
      /\ g.ttl[x] = old /\ g.ttl[x] \in AnyDeadline
  BY FetchedEntry
<1>2. t \in Nat \ {0} /\ ~MemoryLimited /\ v # Absent
  BY AbsentIsNoValue DEF Ready
<1>3. CASE Refused
  <2>1. o \in {p, g}
    BY <1>1, <1>3, TypeChecks DEF CmdSet
  <2> QED
    BY <1>1, <1>3, <2>1
<1>4. CASE ~Refused
  <2>1. PICK q \in SetOutcomes(g, t, x, v, "string") :
            o = ApplyTtlOptions(q, t, x, keep, prev, ex)
    BY <1>1, <1>4, TypeChecks DEF CmdSet
  <2> HIDE DEF p, g
  <2>2. Gets(s, q, t, x, v, g.ttl[x]) /\ q.val[x] = v /\ q.ttl = g.ttl
    BY <1>1, <1>2, PutEntry
  <2>3. Elsewhere(s, q, t, {x})
    BY <2>2 DEF Gets
  <2>4. CASE ex # NoDeadline /\ ex <= t
    <3>1. o = DeleteKeys(q, {x})
      BY <2>1, <2>4 DEF ApplyTtlOptions
    <3>2. Removes(s, o, t, {x})
      BY <2>3, <3>1, DeleteEntries
    <3> QED
      BY <1>4, <2>4, <3>2
  <2>5. CASE ~(ex # NoDeadline /\ ex <= t)
    <3>1. prev > 0 <=> prev # NoDeadline
      <4>1. prev \in AnyDeadline
        BY <1>1 DEF AnyDeadline
      <4> HIDE DEF prev
      <4> QED
        BY <1>2, <4>1, DeadlinesComing
    <3>2. dl = NoDeadline \/ ~(t >= dl)
      BY <1>1, <1>2, <2>5, DeadlinesComing DEF IsExpired, HasExpiry
    <3>3. o = SetExpireAt(q, x, dl) \/ (o = q /\ dl = g.ttl[x])
      <4>1. CASE keep /\ prev > 0
        BY <1>1, <2>1, <2>5, <3>1, <4>1 DEF ApplyTtlOptions
      <4>2. CASE ~(keep /\ prev > 0)
        <5>1. dl = ex
          BY <1>1, <3>1, <4>2
        <5>2. CASE ex # NoDeadline
          BY <2>1, <2>5, <4>2, <5>1, <5>2 DEF ApplyTtlOptions
        <5>3. CASE ex = NoDeadline
          BY <1>1, <2>1, <2>5, <3>1, <4>2, <5>1, <5>3 DEF ApplyTtlOptions, RemoveExpiry
        <5> QED
          BY <5>2, <5>3
      <4> QED
        BY <4>1, <4>2
    <3> HIDE DEF dl
    <3>4. Gets(s, o, t, x, v, dl)
      <4>1. CASE o = SetExpireAt(q, x, dl)
        <5>1. Present(q, x)
          BY <1>2, <2>2 DEF Present
        <5>2. /\ Elsewhere(q, SetExpireAt(q, x, dl), t, {x})
              /\ Shown(SetExpireAt(q, x, dl), t, x) = [val |-> q.val[x], dl |-> dl]
          BY <3>2, <5>1, ExpireEntries
        <5> QED
          BY <2>2, <2>3, <4>1, <5>2 DEF Gets, Elsewhere
      <4>2. CASE o = q /\ dl = g.ttl[x]
        BY <2>2, <4>2
      <4> QED
        BY <3>3, <4>1, <4>2
    <3> QED
      BY <1>4, <2>5, <3>4 DEF dl
  <2> QED
    BY <2>4, <2>5
<1> QED
  BY <1>3, <1>4

\* The commands that compute a string from the old one,
LEMMA UpdateEntries ==
    ASSUME NEW s, NEW t, Ready(s, t), NEW x \in Slots, NEW v \in Strings,
           NEW o \in CmdUpdate(s, t, x, v)
    PROVE  \/ Same(s, o, t)
           \/ ~HoldsSet(s, t, x) /\ Gets(s, o, t, x, v, Shown(s, t, x).dl)
<1> DEFINE p == CheckExpired(s, t, {x})
           g == Get(p, t, x)
<1>1. /\ Same(s, p, t) /\ Same(s, g, t) /\ ~IsExpired(g, t, x) /\ g.ttl[x] = Shown(s, t, x).dl
      /\ ~MemoryLimited /\ v # Absent
  BY FetchedEntry, AbsentIsNoValue DEF Ready
<1>2. CASE o \in {p, g}
  BY <1>1, <1>2
<1>3. CASE ~WrongType(p, x, "string") /\ o \in SetOutcomes(g, t, x, v, "string")
  <2>1. ~HoldsSet(s, t, x)
    BY <1>3, TypeChecks
  <2> HIDE DEF p, g
  <2> QED
    BY <1>1, <1>3, <2>1, PutEntry
<1> QED
  BY <1>2, <1>3 DEF CmdUpdate

\* SETNX,
LEMMA SetnxEntries ==
    ASSUME NEW s, NEW t, Ready(s, t), NEW x \in Slots, NEW v \in Strings,
           NEW o \in CmdSetnx(s, t, x, v)
    PROVE  IF Visible(s, t, x) THEN Same(s, o, t) ELSE Gets(s, o, t, x, v, NoDeadline)
<1> DEFINE p == CheckExpired(s, t, {x})
<1>1. /\ Same(s, p, t) /\ ~IsExpired(p, t, x) /\ p.ttl[x] = Shown(s, t, x).dl
      /\ Present(p, x) <=> Visible(s, t, x)
      /\ ~MemoryLimited /\ v # Absent
  BY FetchedEntry, AbsentIsNoValue DEF Ready
<1>2. CASE Visible(s, t, x)
  BY <1>1, <1>2 DEF CmdSetnx
<1>3. CASE ~Visible(s, t, x)
  <2>1. o \in SetOutcomes(p, t, x, v, "string") /\ p.ttl[x] = NoDeadline
    BY <1>1, <1>3 DEF CmdSetnx, Shown, VisibleDeadline
  <2> HIDE DEF p
  <2> QED
    BY <1>1, <1>3, <2>1, PutEntry
<1> QED
  BY <1>2, <1>3

\* and MSET: each pair ends up as a string without a deadline.
LEMMA MsetEntries ==
    ASSUME NEW s, NEW t, Ready(s, t), NEW x \in Slots, NEW v \in Strings, NEW y \in Slots,
           NEW w \in Strings, NEW o \in CmdMset(s, t, x, v, y, w)
    PROVE  /\ Elsewhere(s, o, t, {x, y})
           /\ x # y => Shown(o, t, x) = [val |-> v, dl |-> NoDeadline]
           /\ Shown(o, t, y) = [val |-> w, dl |-> NoDeadline]
<1>1. ASSUME NEW r, NEW z \in Slots, NEW u \in Strings, NEW q \in MsetPair(r, t, z, u)
      PROVE  Gets(r, q, t, z, u, NoDeadline)
  <2>1. ~MemoryLimited /\ u # Absent
    BY AbsentIsNoValue DEF Ready
  <2>2. q = SetExpireAt(PutValue(r, z, u, "string"), z, NoDeadline)
    BY <2>1, SetUnlimited DEF MsetPair, RemoveExpiry
  <2>3. Present(PutValue(r, z, u, "string"), z) /\ PutValue(r, z, u, "string").val[z] = u
    BY <2>1 DEF PutValue, MapSet, Store, Present
  <2>4. Elsewhere(r, PutValue(r, z, u, "string"), t, {z})
    BY <2>1, PutEntries
  <2>5. /\ Elsewhere(PutValue(r, z, u, "string"), q, t, {z})
        /\ Shown(q, t, z) = [val |-> u, dl |-> NoDeadline]
    BY <2>2, <2>3, ExpireEntries
  <2> QED
    BY <2>4, <2>5 DEF Elsewhere, Gets
<1>2. PICK q \in MsetPair(s, t, x, v) : o \in MsetPair(q, t, y, w)
  BY DEF CmdMset
<1>3. Gets(s, q, t, x, v, NoDeadline) /\ Gets(q, o, t, y, w, NoDeadline)
  BY <1>1, <1>2
<1> QED
  BY <1>3 DEF Elsewhere, Gets

\* GETDEL.
LEMMA GetdelEntries ==
    ASSUME NEW s, NEW t, Ready(s, t), NEW x \in Slots, NEW o \in CmdGetdel(s, t, x)
    PROVE  IF HoldsString(s, t, x) THEN Removes(s, o, t, {x}) ELSE Same(s, o, t)
<1> DEFINE p == CheckExpired(s, t, {x})
           g == Get(p, t, x)
<1>1. /\ Same(s, p, t) /\ Same(s, g, t)
      /\ Present(g, x) <=> Visible(s, t, x)
  BY FetchedEntry
<1>2. Removes(s, DeleteKeys(g, {x}), t, {x})
  <2>1. Elsewhere(s, g, t, {x})
    BY <1>1 DEF Same, Elsewhere
  <2> HIDE DEF g
  <2> QED
    BY <2>1, DeleteEntries
<1>3. o = IF WrongType(p, x, "string") THEN p
          ELSE IF ~Present(g, x) THEN g ELSE DeleteKeys(g, {x})
  BY DEF CmdGetdel
<1>4. HoldsString(s, t, x) <=> ~WrongType(p, x, "string") /\ Present(g, x)
  BY <1>1, TypeChecks DEF HoldsString, HoldsSet
<1> HIDE DEF p, g
<1> QED
  BY <1>1, <1>2, <1>3, <1>4

\* DEL.
LEMMA DelEntries ==
    ASSUME NEW s, NEW t, NEW S, NEW o \in CmdDel(s, S)
    PROVE  Removes(s, o, t, S)
  BY DeleteEntries DEF CmdDel, Elsewhere

\* EXPIRE
LEMMA ExpireCommandEntries ==
    ASSUME NEW s, NEW t, Ready(s, t), NEW x \in Slots, NEW deadline \in Nat \ {0},
           NEW o \in CmdExpire(s, t, x, deadline)
    PROVE  IF ~Visible(s, t, x) THEN Same(s, o, t)
           ELSE IF deadline <= t THEN Removes(s, o, t, {x})
           ELSE Gets(s, o, t, x, s.val[x], deadline)
<1> DEFINE p == CheckExpired(s, t, {x})
<1>1. /\ Same(s, p, t) /\ Elsewhere(s, p, t, {x})
      /\ Present(p, x) <=> Visible(s, t, x)
      /\ Present(p, x) => p.val[x] = s.val[x]
  BY FetchedEntry DEF Same, Elsewhere
<1>2. o = IF ~Present(p, x) THEN p
          ELSE IF deadline <= t THEN DeleteKeys(p, {x})
          ELSE SetExpireAt(p, x, deadline)
  BY DEF CmdExpire
<1> HIDE DEF p
<1>3. CASE ~Present(p, x)
  BY <1>1, <1>2, <1>3
<1>4. CASE Present(p, x) /\ deadline <= t
  BY <1>1, <1>2, <1>4, DeleteEntries
<1>5. CASE Present(p, x) /\ ~(deadline <= t)
  <2>1. ~(t >= deadline)
    BY <1>5 DEF Ready
  <2>2. /\ Elsewhere(p, SetExpireAt(p, x, deadline), t, {x})
        /\ Shown(SetExpireAt(p, x, deadline), t, x) = [val |-> p.val[x], dl |-> deadline]
    BY <1>5, <2>1, ExpireEntries
  <2> QED
    BY <1>1, <1>2, <1>5, <2>2 DEF Gets, Elsewhere
<1> QED
  BY <1>3, <1>4, <1>5

\* and PERSIST.
LEMMA PersistEntries ==
    ASSUME NEW s, NEW t, Ready(s, t), NEW x \in Slots, NEW o \in CmdPersist(s, t, x)
    PROVE  IF Visible(s, t, x) THEN Gets(s, o, t, x, s.val[x], NoDeadline) ELSE Same(s, o, t)
<1> DEFINE p == CheckExpired(s, t, {x})
<1>1. /\ Same(s, p, t) /\ Elsewhere(s, p, t, {x})
      /\ Present(p, x) <=> Visible(s, t, x)
      /\ Present(p, x) => p.val[x] = s.val[x]
  BY FetchedEntry DEF Same, Elsewhere
<1>2. o = IF Present(p, x) THEN SetExpireAt(p, x, NoDeadline) ELSE p
  BY DEF CmdPersist, RemoveExpiry
<1> HIDE DEF p
<1>3. CASE Present(p, x)
  <2>1. /\ Elsewhere(p, SetExpireAt(p, x, NoDeadline), t, {x})
        /\ Shown(SetExpireAt(p, x, NoDeadline), t, x) = [val |-> p.val[x], dl |-> NoDeadline]
    BY <1>3, ExpireEntries
  <2> QED
    BY <1>1, <1>2, <1>3, <2>1 DEF Gets, Elsewhere
<1> QED
  BY <1>1, <1>2, <1>3

\* RENAME moves what is in sight; without a deadline of its own it meets the
\* one that was at the new name.
Moves(s, o, t, x, y) ==
    /\ Elsewhere(s, o, t, {x, y})
    /\ x # y => Shown(o, t, x) = Nothing
    /\ \/ /\ s.ttl[x] # NoDeadline \/ x = y \/ s.ttl[y] = NoDeadline
          /\ Shown(o, t, y) = Shown(s, t, x)
       \/ /\ s.ttl[x] = NoDeadline /\ x # y
          /\ \/ Shown(o, t, y) = [val |-> s.val[x], dl |-> Shown(s, t, y).dl]
             \/ ~Visible(s, t, y) /\ Shown(o, t, y) = Nothing

\* DataStore.rename.
LEMMA RenameEntries ==
    ASSUME NEW s, NEW t, Ready(s, t), NEW x \in Slots, NEW y \in Slots,
           NEW o \in RenameOutcomes(s, t, x, y)
    PROVE  /\ ~Visible(s, t, x) => Same(s, o, t)
           /\ Visible(s, t, x) => Moves(s, o, t, x, y)
           /\ Visible(s, t, x) /\ s.ttl[y] = NoDeadline => Shown(o, t, y) = Shown(s, t, x)
<1> DEFINE p == CheckExpired(s, t, {x})
           d == DeleteKeys(p, {x})
<1>1. /\ Same(s, p, t) /\ ~IsExpired(p, t, x)
      /\ Present(p, x) <=> Visible(s, t, x)
      /\ p.ttl[x] = Shown(s, t, x).dl /\ p.ttl[x] \in AnyDeadline
      /\ Present(p, x) => p.val[x] = s.val[x]
  BY FetchedEntry
<1>2. CASE ~Present(p, x)
  BY <1>1, <1>2 DEF RenameOutcomes
<1>3. CASE Present(p, x)
  <2> DEFINE q == PutValue(d, y, p.val[x], p.typ[x])
  <2>1. ~MemoryLimited /\ p.val[x] # Absent /\ t \in Nat \ {0}
    BY <1>3 DEF Present, Ready
  <2>2. o = IF p.ttl[x] > 0 THEN SetExpireAt(q, y, p.ttl[x]) ELSE q
    <3>1. PICK r \in SetOutcomes(d, t, y, p.val[x], p.typ[x]) :
              o = IF p.ttl[x] > 0 THEN SetExpireAt(r, y, p.ttl[x]) ELSE r
      BY <1>3 DEF RenameOutcomes
    <3>2. r = q
      BY <2>1 DEF SetOutcomes
    <3> QED
      BY <3>1, <3>2
  <2>3. p.ttl[x] = s.ttl[x] /\ Shown(s, t, x) = [val |-> s.val[x], dl |-> s.ttl[x]]
    BY <1>1, <1>3 DEF Shown, VisibleValue, VisibleDeadline
  <2>4. d.ttl[y] = IF x = y THEN NoDeadline ELSE s.ttl[y]
    BY DEF DeleteKeys, Bump, DropSlots, CheckExpired, Store
  <2>5. Removes(s, d, t, {x})
    <3>1. Elsewhere(s, p, t, {x})
      BY <1>1 DEF Same, Elsewhere
    <3> HIDE DEF p
    <3> QED
      BY <3>1, DeleteEntries
  <2>6. Elsewhere(d, q, t, {y})
    <3> HIDE DEF p, d
    <3> QED
      BY <2>1, PutEntries
  <2>7. Present(q, y) /\ q.val[y] = p.val[x] /\ q.ttl[y] = d.ttl[y]
    BY <2>1 DEF PutValue, MapSet, Store, Present
  <2> HIDE DEF p, d, q
  <2>8. /\ p.ttl[x] > 0 <=> p.ttl[x] # NoDeadline
        /\ p.ttl[x] = NoDeadline \/ ~(t >= p.ttl[x])
    BY <1>1, <2>1, DeadlinesComing DEF IsExpired, HasExpiry
  <2>9. ASSUME NEW e, Elsewhere(q, e, t, {y})
        PROVE  /\ Elsewhere(s, e, t, {x, y})
               /\ x # y => Shown(e, t, x) = Nothing
    BY <2>5, <2>6, <2>9 DEF Elsewhere, Removes
  <2>10. CASE p.ttl[x] # NoDeadline
    <3>1. o = SetExpireAt(q, y, p.ttl[x])
      BY <2>2, <2>8, <2>10
    <3>2. Elsewhere(q, o, t, {y}) /\ Shown(o, t, y) = Shown(s, t, x)
      <4>1. \A dl : dl = NoDeadline \/ ~(t >= dl) =>
                /\ Elsewhere(q, SetExpireAt(q, y, dl), t, {y})
                /\ Shown(SetExpireAt(q, y, dl), t, y) = [val |-> q.val[y], dl |-> dl]
        BY <2>7, ExpireEntries
      <4>2. /\ Elsewhere(q, o, t, {y})
            /\ Shown(o, t, y) = [val |-> q.val[y], dl |-> p.ttl[x]]
        BY <2>8, <3>1, <4>1
      <4> QED
        BY <1>1, <1>3, <2>3, <2>7, <4>2
    <3> QED
      BY <1>1, <1>3, <2>3, <2>9, <2>10, <3>2 DEF Moves
  <2>11. CASE p.ttl[x] = NoDeadline
    <3>1. o = q
      BY <2>2, <2>8, <2>11
    <3>2. Elsewhere(s, o, t, {x, y}) /\ (x # y => Shown(o, t, x) = Nothing)
      BY <2>9, <3>1 DEF Elsewhere
    <3>3. Shown(o, t, y) = IF IsExpired(d, t, y) THEN Nothing
                           ELSE [val |-> p.val[x], dl |-> d.ttl[y]]
      BY <2>1, <2>7, <3>1
         DEF Shown, Nothing, VisibleValue, VisibleDeadline, Visible, Present, IsExpired, HasExpiry
    <3>4. CASE x = y \/ s.ttl[y] = NoDeadline
      <4>1. Shown(o, t, y) = Shown(s, t, x)
        BY <1>1, <1>3, <2>3, <2>4, <2>11, <3>3, <3>4 DEF IsExpired, HasExpiry
      <4> QED
        BY <1>1, <1>3, <3>2, <3>4, <4>1 DEF Moves
    <3>5. CASE x # y /\ s.ttl[y] # NoDeadline
      <4>1. IsExpired(d, t, y) <=> IsExpired(s, t, y)
        BY <2>4, <3>5 DEF IsExpired, HasExpiry
      <4>2. ~IsExpired(s, t, y) => Shown(s, t, y).dl = s.ttl[y]
        BY DEF Ready, TimersOk, Shown, VisibleDeadline, Visible, HasExpiry
      <4>3. IsExpired(s, t, y) => ~Visible(s, t, y)
        BY DEF Visible
      <4>4. \/ Shown(o, t, y) = [val |-> s.val[x], dl |-> Shown(s, t, y).dl]
            \/ ~Visible(s, t, y) /\ Shown(o, t, y) = Nothing
        BY <1>1, <1>3, <2>4, <3>3, <3>5, <4>1, <4>2, <4>3
      <4> QED
        BY <1>1, <1>3, <2>3, <2>11, <3>2, <3>5, <4>4 DEF Moves
    <3> QED
      BY <3>4, <3>5
  <2> QED
    BY <2>10, <2>11
<1> QED
  BY <1>2, <1>3

\* RENAMENX looks at the new name first, which purges it: the entry keeps its
\* own deadline.
LEMMA RenamenxEntries ==
    ASSUME NEW s, NEW t, Ready(s, t), NEW x \in Slots, NEW y \in Slots,
           NEW o \in CmdRenamenx(s, t, x, y)
    PROVE  IF Visible(s, t, x) /\ ~Visible(s, t, y)
           THEN /\ Elsewhere(s, o, t, {x, y})
                /\ Shown(o, t, x) = Nothing
                /\ Shown(o, t, y) = Shown(s, t, x)
           ELSE Same(s, o, t)
<1> DEFINE p == CheckExpired(s, t, {x})
           q == CheckExpired(p, t, {y})
<1>1. /\ Same(s, p, t) /\ Ready(p, t)
      /\ Present(p, x) <=> Visible(s, t, x)
  BY FetchedEntry DEF Ready
<1>2. /\ Same(p, q, t) /\ Ready(q, t)
      /\ Present(q, y) <=> Visible(p, t, y)
      /\ q.ttl[y] = Shown(p, t, y).dl
  <2> HIDE DEF p
  <2> QED
    BY <1>1, FetchedEntry DEF Ready
<1>3. o \in IF ~Present(p, x) THEN {p}
            ELSE IF Present(q, y) THEN {q} ELSE RenameOutcomes(q, t, x, y)
  BY DEF CmdRenamenx
<1> HIDE DEF p, q
<1>4. ASSUME NEW a, NEW b, Same(a, b, t)
      PROVE  \A z \in Slots : Visible(a, t, z) <=> Visible(b, t, z)
  <2>1. \A z \in Slots : VisibleValue(a, t, z) = VisibleValue(b, t, z)
    BY <1>4 DEF Same, Shown
  <2> QED
    BY <2>1 DEF VisibleValue, Visible, Present
<1>5. Same(s, q, t)
  BY <1>1, <1>2 DEF Same
<1>6. \A z \in Slots : /\ Visible(p, t, z) <=> Visible(s, t, z)
                       /\ Visible(q, t, z) <=> Visible(s, t, z)
  BY <1>1, <1>4, <1>5
<1>7. CASE Visible(s, t, x) /\ ~Visible(s, t, y)
  <2>1. o \in RenameOutcomes(q, t, x, y) /\ Visible(q, t, x) /\ x # y
    BY <1>1, <1>2, <1>3, <1>6, <1>7
  <2>2. q.ttl[y] = NoDeadline
    BY <1>2, <1>6, <1>7 DEF Shown, VisibleDeadline
  <2>3. /\ Moves(q, o, t, x, y)
        /\ Shown(o, t, y) = Shown(q, t, x)
    BY <1>2, <2>1, <2>2, RenameEntries
  <2> QED
    BY <1>5, <1>7, <2>1, <2>3 DEF Moves, Elsewhere, Same
<1>8. CASE ~(Visible(s, t, x) /\ ~Visible(s, t, y))
  BY <1>1, <1>2, <1>3, <1>5, <1>6, <1>8
<1> QED
  BY <1>7, <1>8

\* SADD.
LEMMA SaddEntries ==
    ASSUME NEW s, NEW t, Ready(s, t), NEW x \in Slots, NEW M \in NonEmptySets,
           NEW o \in CmdSadd(s, t, x, M)
    PROVE  IF HoldsString(s, t, x) THEN Same(s, o, t)
           ELSE Gets(s, o, t, x, M \cup (IF Visible(s, t, x) THEN s.val[x] ELSE {}),
                     Shown(s, t, x).dl)
<1> DEFINE p == CheckExpired(s, t, {x})
           g == Get(p, t, x)
           grown == g.val[x] \cup M
           m == MutateInPlace(g, x, grown)
<1>1. /\ Same(s, p, t) /\ ~MemoryLimited /\ Consistent(s)
      /\ Same(s, g, t) /\ ~IsExpired(g, t, x)
      /\ Present(g, x) <=> Visible(s, t, x)
      /\ Present(g, x) => g.val[x] = s.val[x]
      /\ g.ttl[x] = Shown(s, t, x).dl
      /\ WrongType(p, x, "set") <=> HoldsString(s, t, x)
  BY FetchedEntry, TypeChecks DEF Ready
<1>2. CASE HoldsString(s, t, x)
  BY <1>1, <1>2 DEF CmdSadd
<1>3. CASE ~HoldsString(s, t, x) /\ ~Present(g, x)
  <2>1. o \in SetOutcomes(g, t, x, M, "set")
    BY <1>1, <1>3 DEF CmdSadd
  <2>2. M # Absent
    BY AbsentIsNoValue DEF NonEmptySets
  <2> HIDE DEF p, g, grown, m
  <2>3. Gets(s, o, t, x, M, g.ttl[x])
    <3>1. /\ ~MemoryLimited /\ Same(s, g, t) /\ ~IsExpired(g, t, x) /\ M # Absent
          /\ o \in SetOutcomes(g, t, x, M, "set")
      BY <1>1, <2>1, <2>2
    <3> QED
      BY <3>1, PutEntry, Z3
  <2>4. M \cup {} = M
    OBVIOUS
  <2> QED
    BY <1>1, <1>3, <2>3, <2>4
<1>4. CASE ~HoldsString(s, t, x) /\ Present(g, x)
  <2>1. o \in SetOutcomes(m, t, x, grown, "set")
    BY <1>1, <1>4 DEF CmdSadd
  <2>2. s.val[x] \in SUBSET Elems /\ g.val[x] = s.val[x]
    BY <1>1, <1>4, FetchedSet DEF HoldsSet, HoldsString
  <2>3. grown # Absent /\ grown = M \cup s.val[x]
    BY <2>2, AbsentIsNoValue DEF NonEmptySets
  <2>4. ~IsExpired(m, t, x) /\ m.ttl = g.ttl
    BY <1>1 DEF MutateInPlace, Store, IsExpired, HasExpiry
  <2>5. Elsewhere(g, m, t, {x})
    BY <1>1, <2>3, MutateEntries
  <2> HIDE DEF p, g, grown, m
  <2>6. Gets(m, o, t, x, grown, m.ttl[x])
    BY <1>1, <2>1, <2>3, <2>4, PutEntry DEF Same
  <2>7. Elsewhere(s, o, t, {x})
    BY <1>1, <2>5, <2>6 DEF Gets, Elsewhere, Same
  <2> QED
    BY <1>1, <1>4, <2>3, <2>4, <2>6, <2>7 DEF Gets
<1> QED
  BY <1>2, <1>3, <1>4

\* SREM and SPOP.
LEMMA SremSpopEntries ==
    ASSUME NEW s, NEW t, Ready(s, t), NEW x \in Slots, NEW M,
           NEW o \in CmdSrem(s, t, x, M) \cup CmdSpop(s, t, x, M)
    PROVE  IF ~HoldsSet(s, t, x) THEN Same(s, o, t)
           ELSE IF s.val[x] \subseteq M THEN Removes(s, o, t, {x})
           ELSE Gets(s, o, t, x, s.val[x] \ M, Shown(s, t, x).dl)
<1> DEFINE p == CheckExpired(s, t, {x})
           g == Get(p, t, x)
           v == g.val[x] \ M
           m == MutateInPlace(g, x, v)
<1>1. /\ Same(s, p, t) /\ Same(s, g, t) /\ ~IsExpired(g, t, x)
      /\ Present(g, x) <=> Visible(s, t, x)
      /\ Present(g, x) => g.val[x] = s.val[x]
      /\ g.ttl[x] = Shown(s, t, x).dl
      /\ WrongType(p, x, "set") <=> HoldsString(s, t, x)
  BY FetchedEntry, TypeChecks
<1>2. HoldsSet(s, t, x) <=> ~WrongType(p, x, "set") /\ Present(g, x)
  BY <1>1 DEF HoldsSet, HoldsString
<1>3. CASE ~HoldsSet(s, t, x)
  <2>1. o \in {p, g}
    BY <1>2, <1>3 DEF CmdSrem, CmdSpop
  <2> QED
    BY <1>1, <1>3, <2>1
<1>4. CASE HoldsSet(s, t, x)
  <2>1. PICK k \in {m, MarkDirty(m, x)} : o = IF k.val[x] = {} THEN DeleteKeys(k, {x}) ELSE k
    BY <1>2, <1>4 DEF CmdSrem, CmdSpop, DropIfEmpty
  <2>2. s.val[x] \in SUBSET Elems /\ v = s.val[x] \ M
    BY <1>1, <1>2, <1>4, FetchedSet
  <2>3. v # Absent
    BY <2>2, AbsentIsNoValue
  <2>4. k.val[x] = v
    BY <2>1 DEF MutateInPlace, MapSet, MarkDirty, Touch, Bump, Store
  <2> HIDE DEF v
  <2>5. /\ Elsewhere(g, m, t, {x}) /\ Shown(m, t, x) = [val |-> v, dl |-> g.ttl[x]]
    BY <1>1, <2>3, MutateEntries
  <2> HIDE DEF p, g, m
  <2>6. Same(m, k, t)
    <3>1. Same(m, MarkDirty(m, x), t)
      BY CallEntries
    <3>2. Same(m, m, t)
      BY DEF Same
    <3> QED
      BY <2>1, <3>1, <3>2
  <2>7. Gets(s, k, t, x, v, Shown(s, t, x).dl)
    BY <1>1, <2>5, <2>6 DEF Gets, Elsewhere, Same
  <2>8. Removes(s, DeleteKeys(k, {x}), t, {x})
    BY <2>7, DeleteEntries DEF Gets
  <2>9. v = {} <=> s.val[x] \subseteq M
    BY <2>2
  <2> QED
    BY <1>4, <2>1, <2>2, <2>4, <2>7, <2>8, <2>9
<1> QED
  BY <1>3, <1>4

\* The bulk commands.
LEMMA BulkEntries ==
    ASSUME NEW s, NEW t
    PROVE  /\ \A D : Removes(s, FlushDbs(s, D), t, {x \in Slots : x[1] \in D})
           /\ \A a, b \in DBs : \A x \in Slots :
                  Shown(SwapDbs(s, a, b), t, x) = Shown(s, t, SwappedSlot(a, b, x))
<1>1. \A D : Removes(s, FlushDbs(s, D), t, {x \in Slots : x[1] \in D})
  BY DEF FlushDbs, DropSlots, Removes, Shown, Nothing, VisibleValue, VisibleDeadline, Visible,
         Present, IsExpired, HasExpiry, Store
<1>2. ASSUME NEW a \in DBs, NEW b \in DBs
      PROVE  \A x \in Slots : Shown(SwapDbs(s, a, b), t, x) = Shown(s, t, SwappedSlot(a, b, x))
  <2>1. \A x \in Slots : SwappedSlot(a, b, x) \in Slots
    BY DEF Slots, SwappedSlot
  <2> QED
    BY <2>1 DEF SwapDbs, Shown, VisibleValue, VisibleDeadline, Visible, Present, IsExpired,
                HasExpiry, Store
<1> QED
  BY <1>1, <1>2

\* The sweep deletes only what is out of sight already.
LEMMA SweepEntries ==
    ASSUME NEW s, NEW t, NEW S, \A x \in S : IsExpired(s, t, x)
    PROVE  Same(s, DeleteKeys(s, S), t)
<1>1. Removes(s, DeleteKeys(s, S), t, S)
  BY DeleteEntries DEF Elsewhere
<1>2. \A x \in S : Shown(s, t, x) = Nothing
  BY DEF Shown, Nothing, VisibleValue, VisibleDeadline, Visible
<1> QED
  BY <1>1, <1>2 DEF Removes, Same

\* A tick hides exactly what is due.
LEMMA TickEntries ==
    ASSUME NEW s, NEW t \in Nat, NEW x \in Slots,
           s.ttl[x] = NoDeadline \/ s.ttl[x] \in Nat,
           s.ttl[x] # NoDeadline => Present(s, x)
    PROVE  LET e == Shown(s, t, x)
           IN  Shown(s, t + 1, x) =
                   IF e # Nothing /\ e.dl # NoDeadline /\ e.dl <= t + 1 THEN Nothing ELSE e
<1>1. CASE s.ttl[x] = NoDeadline
  BY <1>1 DEF Shown, Nothing, VisibleValue, VisibleDeadline, Visible, Present, IsExpired, HasExpiry
<1>2. CASE s.ttl[x] # NoDeadline
  <2>1. s.ttl[x] \in Nat /\ s.val[x] # Absent
    BY <1>2 DEF Present
  <2>2. CASE t >= s.ttl[x]
    <3>1. t + 1 >= s.ttl[x]
      BY <2>1, <2>2
    <3> QED
      BY <1>2, <2>2, <3>1
         DEF Shown, Nothing, VisibleValue, VisibleDeadline, Visible, IsExpired, HasExpiry
  <2>3. CASE ~(t >= s.ttl[x])
    <3>1. Shown(s, t, x) = [val |-> s.val[x], dl |-> s.ttl[x]]
      BY <2>1, <2>3
         DEF Shown, VisibleValue, VisibleDeadline, Visible, Present, IsExpired, HasExpiry
    <3>2. Shown(s, t, x) # Nothing /\ Shown(s, t, x).dl = s.ttl[x]
      BY <2>1, <3>1 DEF Nothing
    <3>3. s.ttl[x] <= t + 1 <=> t + 1 >= s.ttl[x]
      BY <2>1
    <3>4. Shown(s, t + 1, x) = IF t + 1 >= s.ttl[x] THEN Nothing ELSE Shown(s, t, x)
      BY <1>2, <2>1, <3>1
         DEF Shown, Nothing, VisibleValue, VisibleDeadline, Visible, Present, IsExpired, HasExpiry
    <3> QED
      BY <1>2, <3>2, <3>3, <3>4
  <2> QED
    BY <2>2, <2>3
<1> QED
  BY <1>1, <1>2

-----------------------------------------------------------------------------
\* Between two steps, without a memory limit.
Steady == ~MemoryLimited /\ Inv /\ TimersOwned

\* A turn starts from a store that is ready and looks like the one before.
LEMMA FreshEntries ==
    ASSUME Steady
    PROVE  /\ Ready(Fresh, now)
           /\ \A t, x : Shown(Fresh, t, x) = Shown(store, t, x)
           /\ Seen(store) = [x \in Slots |-> Shown(Fresh, now, x)]
           /\ Seen(Fresh) = Seen(store)
<1>1. Fresh.val = store.val /\ Fresh.typ = store.typ /\ Fresh.ttl = store.ttl
  BY DEF Fresh, Store
<1>2. \A t, x : Shown(Fresh, t, x) = Shown(store, t, x)
  BY <1>1 DEF Shown, VisibleValue, VisibleDeadline, Visible, Present, IsExpired, HasExpiry
<1>3. Ready(Fresh, now)
  <2>1. now \in Nat \ {0}
    BY InvConsistent, TimeBound DEF Steady
  <2> QED
    BY <1>1, <2>1, FreshFacts, InvConsistent DEF Ready, Steady, TimersOwned, TimersOk
<1>4. Seen(store) = [x \in Slots |-> Shown(Fresh, now, x)] /\ Seen(Fresh) = Seen(store)
  BY <1>2 DEF Seen, Shown
<1> QED
  BY <1>2, <1>3, <1>4

\* What the abstract specification sees of a slot,
LEMMA AbstractSlot ==
    ASSUME Steady, NEW x \in Slots
    PROVE  /\ Abstract!Has(x) <=> Visible(Fresh, now, x)
           /\ Abstract!HasString(x) <=> HoldsString(Fresh, now, x)
           /\ Abstract!HasSet(x) <=> HoldsSet(Fresh, now, x)
           /\ Seen(store)[x].dl = Shown(Fresh, now, x).dl
           /\ Visible(Fresh, now, x) => Seen(store)[x].val = Fresh.val[x]
<1>1. /\ Seen(store)[x] = Shown(Fresh, now, x)
      /\ Shown(Fresh, now, x).val = VisibleValue(Fresh, now, x)
      /\ Shown(Fresh, now, x) # Nothing <=> Visible(Fresh, now, x)
  BY FreshEntries DEF Shown, Nothing, VisibleValue, VisibleDeadline, Visible, Present
<1>2. /\ Seen(store)[x].val \in Strings <=> HoldsString(Fresh, now, x)
      /\ Visible(Fresh, now, x) => Seen(store)[x].val = Fresh.val[x]
  BY <1>1, AbsentIsNoValue DEF HoldsString, VisibleValue
<1>3. Abstract!Has(x) <=> Visible(Fresh, now, x)
  BY <1>1 DEF Abstract!Has, Abstract!NoEntry, Abstract!Entry, Nothing
<1>4. Abstract!HasString(x) <=> HoldsString(Fresh, now, x)
  BY <1>2 DEF Abstract!HasString
<1>5. Abstract!HasSet(x) <=> HoldsSet(Fresh, now, x)
  BY <1>3, <1>4 DEF Abstract!HasSet, HoldsString, HoldsSet
<1> QED
  BY <1>1, <1>2, <1>3, <1>4, <1>5

\* and the maps that its building blocks allow.
LEMMA AbstractMaps ==
    ASSUME Steady, NEW o
    PROVE  /\ Same(Fresh, o, now) => Seen(o) \in Abstract!Same
           /\ \A S : Removes(Fresh, o, now, S) => Seen(o) \in Abstract!Without(S)
           /\ \A x \in Slots : \A v, dl :
                  Gets(Fresh, o, now, x, v, dl) => Seen(o) \in Abstract!Becomes(x, v, dl)
<1> DEFINE e == Seen(store)
           f == Seen(o)
<1>1. /\ e = [x \in Slots |-> Shown(Fresh, now, x)]
      /\ f = [x \in Slots |-> Shown(o, now, x)]
  BY FreshEntries DEF Seen, Shown
<1> HIDE DEF e, f
<1>2. Same(Fresh, o, now) => f = e
  BY <1>1 DEF Same
<1>3. ASSUME NEW S, Removes(Fresh, o, now, S)
      PROVE  f = [x \in Slots |-> IF x \in S THEN Nothing ELSE e[x]]
  BY <1>1, <1>3 DEF Removes
<1>4. ASSUME NEW x \in Slots, NEW v, NEW dl, Gets(Fresh, o, now, x, v, dl)
      PROVE  f = [e EXCEPT ![x] = [val |-> v, dl |-> dl]]
  BY <1>1, <1>4 DEF Gets, Elsewhere
<1>5. Same(Fresh, o, now) => Seen(o) \in Abstract!Same
  BY <1>2 DEF e, f, Abstract!Same
<1>6. \A S : Removes(Fresh, o, now, S) => Seen(o) \in Abstract!Without(S)
  BY <1>3 DEF e, f, Abstract!Without, Abstract!Entry, Abstract!NoEntry, Abstract!Slots, Slots,
              Nothing
<1>7. \A x \in Slots : \A v, dl :
          Gets(Fresh, o, now, x, v, dl) => Seen(o) \in Abstract!Becomes(x, v, dl)
  BY <1>4 DEF e, f, Abstract!Becomes, Abstract!Entry
<1> QED
  BY <1>5, <1>6, <1>7

-----------------------------------------------------------------------------
(* Every command is the abstract one of its name. *)

LEMMA ReadsKept == ASSUME Steady PROVE ReadsAsPromised
<1>1. Ready(Fresh, now)
  BY FreshEntries
<1>2. ASSUME NEW x \in Slots, NEW ty, NEW o \in CmdExists(Fresh, now, x) \cup CmdRead(Fresh, now, x, ty)
      PROVE  Seen(o) \in Abstract!Same
  BY <1>1, <1>2, ReadEntries, AbstractMaps
<1>3. ASSUME NEW D, NEW o \in CmdKeys(Fresh, now, D)
      PROVE  Seen(o) \in Abstract!Same
  <2>1. CASE Slots = {}
    BY <2>1, AbstractMaps DEF Same
  <2>2. ASSUME NEW x \in Slots
        PROVE  Seen(o) \in Abstract!Same
    BY <1>1, <1>3, ReadEntries, AbstractMaps
  <2> QED
    BY <2>1, <2>2
<1> QED
  BY <1>2, <1>3 DEF ReadsAsPromised, Promised

LEMMA StringsKept ==
    ASSUME Steady, NEW x \in Slots, NEW v \in Strings
    PROVE  /\ \A cond \in {"any", "nx", "xx"}, keep \in BOOLEAN, ex \in {NoDeadline} \cup Deadlines :
                  Promised(CmdSet(Fresh, now, x, v, cond, keep, ex),
                           Abstract!Set(x, v, cond, keep, ex))
           /\ Promised(CmdUpdate(Fresh, now, x, v), Abstract!Update(x, v))
           /\ Promised(CmdSetnx(Fresh, now, x, v), Abstract!Setnx(x, v))
<1>1. Ready(Fresh, now)
  BY FreshEntries
<1>2. ASSUME NEW cond \in {"any", "nx", "xx"}, NEW keep \in BOOLEAN,
             NEW ex \in {NoDeadline} \cup Deadlines,
             NEW o \in CmdSet(Fresh, now, x, v, cond, keep, ex)
      PROVE  Seen(o) \in Abstract!Set(x, v, cond, keep, ex)
  <2>1. ex \in AnyDeadline
    BY TimeBound DEF AnyDeadline, Deadlines
  <2> DEFINE Refused == \/ HoldsSet(Fresh, now, x)
                        \/ cond = "nx" /\ Visible(Fresh, now, x)
                        \/ cond = "xx" /\ ~Visible(Fresh, now, x)
             old == Shown(Fresh, now, x).dl
             dl == IF keep /\ old # NoDeadline THEN old ELSE ex
  <2>2. IF Refused THEN Same(Fresh, o, now)
        ELSE IF ex # NoDeadline /\ ex <= now THEN Removes(Fresh, o, now, {x})
        ELSE Gets(Fresh, o, now, x, v, dl)
    BY <1>1, <2>1, SetEntries
  <2>3. Seen(o) \in IF Refused THEN Abstract!Same
                    ELSE IF ex # NoDeadline /\ ex <= now THEN Abstract!Without({x})
                    ELSE Abstract!Becomes(x, v, dl)
    <3> HIDE DEF Refused, dl
    <3> QED
      BY <2>2, AbstractMaps
  <2> QED
    BY <2>3, AbstractSlot DEF Abstract!Set
<1>3. ASSUME NEW o \in CmdUpdate(Fresh, now, x, v)
      PROVE  Seen(o) \in Abstract!Update(x, v)
  <2>1. \/ Same(Fresh, o, now)
        \/ ~HoldsSet(Fresh, now, x) /\ Gets(Fresh, o, now, x, v, Shown(Fresh, now, x).dl)
    BY <1>1, <1>3, UpdateEntries
  <2>2. \/ Seen(o) \in Abstract!Same
        \/ ~HoldsSet(Fresh, now, x) /\ Seen(o) \in Abstract!Becomes(x, v, Shown(Fresh, now, x).dl)
    BY <2>1, AbstractMaps
  <2> QED
    BY <2>2, AbstractSlot DEF Abstract!Update
<1>4. ASSUME NEW o \in CmdSetnx(Fresh, now, x, v)
      PROVE  Seen(o) \in Abstract!Setnx(x, v)
  <2>1. IF Visible(Fresh, now, x) THEN Same(Fresh, o, now)
        ELSE Gets(Fresh, o, now, x, v, NoDeadline)
    BY <1>1, <1>4, SetnxEntries
  <2> QED
    BY <2>1, AbstractMaps, AbstractSlot DEF Abstract!Setnx
<1> QED
  BY <1>2, <1>3, <1>4 DEF Promised

LEMMA SetsKept ==
    ASSUME Steady, NEW x \in Slots, NEW M
    PROVE  /\ M \in MemberSets => Promised(CmdSadd(Fresh, now, x, M), Abstract!Sadd(x, M))
           /\ Promised(CmdSrem(Fresh, now, x, M), Abstract!Srem(x, M))
           /\ Promised(CmdSpop(Fresh, now, x, M), Abstract!Spop(x, M))
<1>1. Ready(Fresh, now)
  BY FreshEntries
<1>2. ASSUME M \in MemberSets, NEW o \in CmdSadd(Fresh, now, x, M)
      PROVE  Seen(o) \in Abstract!Sadd(x, M)
  <2> DEFINE old == IF Visible(Fresh, now, x) THEN Fresh.val[x] ELSE {}
             dl == Shown(Fresh, now, x).dl
  <2>1. M \in NonEmptySets
    BY <1>2, ParameterFacts
  <2>2. IF HoldsString(Fresh, now, x) THEN Same(Fresh, o, now)
        ELSE Gets(Fresh, o, now, x, M \cup old, dl)
    BY <1>1, <1>2, <2>1, SaddEntries
  <2>3. Seen(o) \in IF HoldsString(Fresh, now, x) THEN Abstract!Same
                    ELSE Abstract!Becomes(x, M \cup old, dl)
    <3> HIDE DEF old, dl
    <3> QED
      BY <2>2, AbstractMaps
  <2>4. (IF Abstract!Has(x) THEN Seen(store)[x].val ELSE {}) = old
    BY AbstractSlot
  <2> QED
    BY <2>3, <2>4, AbstractSlot DEF Abstract!Sadd
<1>3. ASSUME NEW o \in CmdSrem(Fresh, now, x, M) \cup CmdSpop(Fresh, now, x, M)
      PROVE  Seen(o) \in Abstract!Srem(x, M)
  <2>1. IF ~HoldsSet(Fresh, now, x) THEN Same(Fresh, o, now)
        ELSE IF Fresh.val[x] \subseteq M THEN Removes(Fresh, o, now, {x})
        ELSE Gets(Fresh, o, now, x, Fresh.val[x] \ M, Shown(Fresh, now, x).dl)
    BY <1>1, <1>3, SremSpopEntries
  <2>2. Seen(o) \in IF ~HoldsSet(Fresh, now, x) THEN Abstract!Same
                    ELSE IF Fresh.val[x] \subseteq M THEN Abstract!Without({x})
                    ELSE Abstract!Becomes(x, Fresh.val[x] \ M, Shown(Fresh, now, x).dl)
    BY <2>1, AbstractMaps
  <2>3. HoldsSet(Fresh, now, x) => Seen(store)[x].val = Fresh.val[x]
    BY AbstractSlot DEF HoldsSet
  <2> QED
    BY <2>2, <2>3, AbstractSlot DEF Abstract!Srem
<1> QED
  BY <1>2, <1>3 DEF Promised, Abstract!Spop

LEMMA RemovalsKept == ASSUME Steady PROVE RemovalsAsPromised
<1>1. Ready(Fresh, now)
  BY FreshEntries
<1>2. ASSUME NEW x \in Slots, NEW o \in CmdGetdel(Fresh, now, x)
      PROVE  Seen(o) \in Abstract!Getdel(x)
  <2>1. IF HoldsString(Fresh, now, x) THEN Removes(Fresh, o, now, {x}) ELSE Same(Fresh, o, now)
    BY <1>1, <1>2, GetdelEntries
  <2> QED
    BY <2>1, AbstractMaps, AbstractSlot DEF Abstract!Getdel
<1>3. ASSUME NEW S, NEW o \in CmdDel(Fresh, S)
      PROVE  Seen(o) \in Abstract!Del(S)
  BY <1>3, DelEntries, AbstractMaps DEF Abstract!Del
<1>4. ASSUME NEW D
      PROVE  Seen(FlushDbs(Fresh, D)) \in Abstract!Without({x \in Slots : x[1] \in D})
  BY BulkEntries, AbstractMaps
<1>5. /\ \A d \in DBs : Seen(FlushDbs(Fresh, {d})) \in Abstract!FlushDb(d)
      /\ Seen(FlushDbs(Fresh, DBs)) \in Abstract!FlushAll
  <2>1. /\ \A d : {x \in Slots : x[1] \in {d}} = {x \in Abstract!Slots : x[1] = d}
        /\ {x \in Slots : x[1] \in DBs} = Abstract!Slots
    BY DEF Slots, Abstract!Slots
  <2>2. \A d \in DBs : Seen(FlushDbs(Fresh, {d})) \in Abstract!Without({x \in Abstract!Slots : x[1] = d})
    BY <1>4, <2>1
  <2>3. Seen(FlushDbs(Fresh, DBs)) \in Abstract!Without(Abstract!Slots)
    BY <1>4, <2>1
  <2> QED
    BY <2>2, <2>3 DEF Abstract!FlushDb, Abstract!FlushAll
<1> QED
  BY <1>2, <1>3, <1>5, SetsKept DEF RemovalsAsPromised, Promised

LEMMA DeadlinesKept == ASSUME Steady PROVE DeadlinesAsPromised
<1>1. Ready(Fresh, now)
  BY FreshEntries
<1>2. ASSUME NEW x \in Slots, NEW deadline \in Deadlines, NEW o \in CmdExpire(Fresh, now, x, deadline)
      PROVE  Seen(o) \in Abstract!Expire(x, deadline)
  <2>1. deadline \in Nat \ {0}
    BY TimeBound DEF Deadlines
  <2>2. IF ~Visible(Fresh, now, x) THEN Same(Fresh, o, now)
        ELSE IF deadline <= now THEN Removes(Fresh, o, now, {x})
        ELSE Gets(Fresh, o, now, x, Fresh.val[x], deadline)
    BY <1>1, <1>2, <2>1, ExpireCommandEntries
  <2>3. Seen(o) \in IF ~Visible(Fresh, now, x) THEN Abstract!Same
                    ELSE IF deadline <= now THEN Abstract!Without({x})
                    ELSE Abstract!Becomes(x, Fresh.val[x], deadline)
    BY <2>2, AbstractMaps
  <2> QED
    BY <2>3, AbstractSlot DEF Abstract!Expire
<1>3. ASSUME NEW x \in Slots, NEW o \in CmdPersist(Fresh, now, x)
      PROVE  Seen(o) \in Abstract!Persist(x)
  <2>1. IF Visible(Fresh, now, x) THEN Gets(Fresh, o, now, x, Fresh.val[x], NoDeadline)
        ELSE Same(Fresh, o, now)
    BY <1>1, <1>3, PersistEntries
  <2>2. Seen(o) \in IF Visible(Fresh, now, x) THEN Abstract!Becomes(x, Fresh.val[x], NoDeadline)
                    ELSE Abstract!Same
    BY <2>1, AbstractMaps
  <2> QED
    BY <2>2, AbstractSlot DEF Abstract!Persist
<1> QED
  BY <1>2, <1>3 DEF DeadlinesAsPromised, Promised

LEMMA MsetKept ==
    ASSUME Steady, NEW x \in Slots, NEW y \in Slots, NEW v \in Strings, NEW w \in Strings,
           NEW o \in CmdMset(Fresh, now, x, v, y, w)
    PROVE  Seen(o) \in Abstract!Mset(x, v, y, w)
<1> DEFINE e == Seen(store)
           f == Seen(o)
<1>1. /\ e = [z \in Slots |-> Shown(Fresh, now, z)]
      /\ f = [z \in Slots |-> Shown(o, now, z)]
  BY FreshEntries DEF Seen, Shown
<1>2. /\ Elsewhere(Fresh, o, now, {x, y})
      /\ x # y => Shown(o, now, x) = [val |-> v, dl |-> NoDeadline]
      /\ Shown(o, now, y) = [val |-> w, dl |-> NoDeadline]
  BY FreshEntries, MsetEntries
<1> HIDE DEF e, f
<1>3. f = [e EXCEPT ![x] = [val |-> v, dl |-> NoDeadline], ![y] = [val |-> w, dl |-> NoDeadline]]
  BY <1>1, <1>2 DEF Elsewhere
<1> QED
  BY <1>3 DEF e, f, Abstract!Mset, Abstract!Entry

LEMMA RenamesKept ==
    ASSUME Steady, NEW x \in Slots, NEW y \in Slots
    PROVE  /\ Promised(CmdRename(Fresh, now, x, y), Abstract!Rename(x, y))
           /\ Promised(CmdRenamenx(Fresh, now, x, y), Abstract!Renamenx(x, y))
<1>1. Ready(Fresh, now)
  BY FreshEntries
<1>2. ASSUME NEW o, Elsewhere(Fresh, o, now, {x, y}), x # y => Shown(o, now, x) = Nothing
      PROVE  Seen(o) = Abstract!Moved(x, y, Shown(o, now, y))
  <2> DEFINE e == Seen(store)
             f == Seen(o)
  <2>1. /\ e = [z \in Slots |-> Shown(Fresh, now, z)]
        /\ f = [z \in Slots |-> Shown(o, now, z)]
    BY FreshEntries DEF Seen, Shown
  <2> HIDE DEF e, f
  <2>2. f = [z \in Slots |-> CASE z = y -> Shown(o, now, y)
                               [] z = x /\ x # y -> Nothing
                               [] OTHER -> e[z]]
    BY <1>2, <2>1 DEF Elsewhere
  <2> QED
    BY <2>2 DEF e, f, Abstract!Moved, Abstract!NoEntry, Abstract!Entry, Abstract!Slots, Slots, Nothing
<1>3. /\ Seen(store)[x] = Shown(Fresh, now, x)
      /\ Seen(store)[y] = Shown(Fresh, now, y)
  BY FreshEntries
<1>4. Visible(Fresh, now, x) => Shown(Fresh, now, x) = [val |-> Fresh.val[x], dl |-> Fresh.ttl[x]]
  BY DEF Shown, VisibleValue, VisibleDeadline
<1>5. ASSUME NEW o \in CmdRename(Fresh, now, x, y)
      PROVE  Seen(o) \in Abstract!Rename(x, y)
  <2>1. /\ ~Visible(Fresh, now, x) => Same(Fresh, o, now)
        /\ Visible(Fresh, now, x) => Moves(Fresh, o, now, x, y)
        /\ Visible(Fresh, now, x) /\ Fresh.ttl[y] = NoDeadline =>
               Shown(o, now, y) = Shown(Fresh, now, x)
    BY <1>1, <1>5, RenameEntries DEF CmdRename
  <2>2. CASE ~Visible(Fresh, now, x)
    BY <2>1, <2>2, AbstractMaps, AbstractSlot DEF Abstract!Rename
  <2>3. CASE Visible(Fresh, now, x)
    <3>1. Seen(o) = Abstract!Moved(x, y, Shown(o, now, y))
      BY <1>2, <2>1, <2>3 DEF Moves
    <3>2. Abstract!Has(x) /\ (Abstract!Has(y) <=> Visible(Fresh, now, y))
      BY <2>3, AbstractSlot
    <3>3. CASE x = y \/ Fresh.ttl[x] # NoDeadline
      <4>1. Shown(o, now, y) = Seen(store)[x]
        BY <1>3, <2>1, <2>3, <3>3 DEF Moves
      <4>2. x = y \/ Seen(store)[x].dl # NoDeadline
        BY <1>3, <1>4, <2>3, <3>3
      <4> QED
        BY <3>1, <3>2, <4>1, <4>2 DEF Abstract!Rename
    <3>4. CASE x # y /\ Fresh.ttl[x] = NoDeadline
      <4>1. Seen(store)[x] = [val |-> Fresh.val[x], dl |-> NoDeadline]
        BY <1>3, <1>4, <2>3, <3>4
      <4>2. Shown(o, now, y) \in {[val |-> Fresh.val[x], dl |-> Seen(store)[y].dl]}
                                  \cup (IF Visible(Fresh, now, y) THEN {} ELSE {Nothing})
        <5>1. CASE Fresh.ttl[y] = NoDeadline
          <6>1. Seen(store)[y].dl = NoDeadline
            BY <1>3, <5>1 DEF Shown, VisibleDeadline
          <6>2. Shown(o, now, y) = Shown(Fresh, now, x)
            BY <2>1, <2>3, <5>1
          <6> QED
            BY <1>3, <4>1, <6>1, <6>2
        <5>2. CASE Fresh.ttl[y] # NoDeadline
          BY <1>3, <2>1, <2>3, <3>4, <5>2 DEF Moves
        <5> QED
          BY <5>1, <5>2
      <4>3. Shown(o, now, y) \in {[val |-> Seen(store)[x].val, dl |-> Seen(store)[y].dl]}
                                  \cup (IF Abstract!Has(y) THEN {} ELSE {Nothing})
        BY <3>2, <4>1, <4>2
      <4>4. ~(x = y \/ Seen(store)[x].dl # NoDeadline)
        BY <3>4, <4>1
      <4> DEFINE moved == Shown(o, now, y)
      <4> HIDE DEF moved
      <4> QED
        BY <3>1, <3>2, <4>3, <4>4
        DEF moved, Abstract!Rename, Abstract!Entry, Abstract!NoEntry, Nothing
    <3> QED
      BY <3>3, <3>4
  <2> QED
    BY <2>2, <2>3
<1>6. ASSUME NEW o \in CmdRenamenx(Fresh, now, x, y)
      PROVE  Seen(o) \in Abstract!Renamenx(x, y)
  <2>1. IF Visible(Fresh, now, x) /\ ~Visible(Fresh, now, y)
        THEN /\ Elsewhere(Fresh, o, now, {x, y})
             /\ Shown(o, now, x) = Nothing
             /\ Shown(o, now, y) = Shown(Fresh, now, x)
        ELSE Same(Fresh, o, now)
    BY <1>1, <1>6, RenamenxEntries
  <2>2. CASE Visible(Fresh, now, x) /\ ~Visible(Fresh, now, y)
    <3>1. Seen(o) = Abstract!Moved(x, y, Seen(store)[x])
      BY <1>2, <1>3, <2>1, <2>2
    <3> QED
      BY <2>2, <3>1, AbstractSlot DEF Abstract!Renamenx
  <2>3. CASE ~(Visible(Fresh, now, x) /\ ~Visible(Fresh, now, y))
    BY <2>1, <2>3, AbstractMaps, AbstractSlot DEF Abstract!Renamenx
  <2> QED
    BY <2>2, <2>3
<1> QED
  BY <1>5, <1>6 DEF Promised

LEMMA SwapKept ==
    ASSUME Steady, NEW a \in DBs, NEW b \in DBs
    PROVE  Seen(SwapDbs(Fresh, a, b)) \in Abstract!SwapDb(a, b)
<1> DEFINE e == Seen(store)
           o == SwapDbs(Fresh, a, b)
           f == Seen(o)
<1>1. /\ e = [x \in Slots |-> Shown(Fresh, now, x)]
      /\ f = [x \in Slots |-> Shown(o, now, x)]
  BY FreshEntries DEF Seen, Shown
<1>2. \A x \in Slots : Shown(o, now, x) = Shown(Fresh, now, SwappedSlot(a, b, x))
  BY BulkEntries
<1>3. \A x \in Slots : SwappedSlot(a, b, x) \in Slots
  BY DEF Slots, SwappedSlot
<1>4. f = [x \in Slots |-> e[SwappedSlot(a, b, x)]]
  <2> HIDE DEF e, f, o
  <2> QED
    BY <1>1, <1>2, <1>3
<1>5. Abstract!SwapDb(a, b) = {[x \in Slots |-> e[SwappedSlot(a, b, x)]]}
  BY DEF Abstract!SwapDb, Abstract!Other, SwappedSlot, Abstract!Slots, Slots
<1> QED
  BY <1>4, <1>5

CommandsAsPromised ==
    /\ ReadsAsPromised /\ WritesAsPromised /\ RemovalsAsPromised
    /\ DeadlinesAsPromised /\ PairsAsPromised

LEMMA CommandsKept == ASSUME Steady PROVE CommandsAsPromised
<1>1. ReadsAsPromised /\ RemovalsAsPromised /\ DeadlinesAsPromised
  BY ReadsKept, RemovalsKept, DeadlinesKept
<1>2. WritesAsPromised
  BY StringsKept, SetsKept DEF WritesAsPromised
<1>3. PairsAsPromised
  <2>1. \A x, y \in Slots, v, w \in Strings :
            Promised(CmdMset(Fresh, now, x, v, y, w), Abstract!Mset(x, v, y, w))
    BY MsetKept DEF Promised
  <2>2. \A a, b \in DBs : Promised({SwapDbs(Fresh, a, b)}, Abstract!SwapDb(a, b))
    BY SwapKept DEF Promised
  <2> QED
    BY <2>1, <2>2, RenamesKept DEF PairsAsPromised
<1> QED
  BY <1>1, <1>2, <1>3 DEF CommandsAsPromised

-----------------------------------------------------------------------------
(* The steps. *)

\* What a turn shows is what was promised of its outcomes.
LEMMA TurnSeen ==
    ASSUME NEW outcomes, Turn(outcomes)
    PROVE  /\ UNCHANGED now
           /\ \A maps : Promised(outcomes, maps) => Seen(store)' \in maps
<1>1. store' \in outcomes /\ now' = now
  BY DEF Turn
<1>2. Seen(store)' = Seen(store')
  BY <1>1 DEF Seen
<1> QED
  BY <1>1, <1>2 DEF Promised

\* The clock and the sweep, which are no commands.
QuietOrPass ==
    /\ SweepStep => UNCHANGED Abstract!avars
    /\ Tick => Abstract!Pass

LEMMA SweepKept == ASSUME Steady, SweepStep PROVE UNCHANGED Abstract!avars
<1>1. PICK S \in SUBSET Slots : Sweep(S)
  BY DEF SweepStep
<1>2. Turn({DeleteKeys(Fresh, S)}) /\ \A x \in S : IsExpired(Fresh, now, x)
  BY <1>1 DEF Sweep, IsExpired, HasExpiry, Fresh, Store
<1>3. Promised({DeleteKeys(Fresh, S)}, Abstract!Same)
  BY <1>2, SweepEntries, AbstractMaps DEF Promised
<1>4. UNCHANGED now /\ Seen(store)' \in Abstract!Same
  BY <1>2, <1>3, TurnSeen
<1> QED
  BY <1>4 DEF Abstract!avars, Abstract!Same

LEMMA PassKept == ASSUME Steady, Tick PROVE Abstract!Pass
<1> DEFINE e == Seen(store)
           f == Seen(store)'
           due == {z \in Slots : e[z] # Nothing /\ e[z].dl # NoDeadline /\ e[z].dl <= now'}
<1>1. now' = now + 1 /\ now \in Nat
  BY FreshFacts, InvConsistent, TimeBound DEF Tick, Steady
<1>2. \A z \in Slots : Shown(store', now', z) = Shown(store, now + 1, z)
  BY <1>1 DEF Tick, Fresh, Store, Shown, VisibleValue, VisibleDeadline, Visible, Present,
              IsExpired, HasExpiry
<1>3. \A z \in Slots : /\ store.ttl[z] = NoDeadline \/ store.ttl[z] \in Nat
                       /\ store.ttl[z] # NoDeadline => Present(store, z)
  BY DEF Steady, Inv, TypeOK, StoreType, TimersOwned, HasExpiry
<1>4. /\ e = [z \in Slots |-> Shown(store, now, z)]
      /\ f = [z \in Slots |-> Shown(store', now', z)]
  BY DEF Seen, Shown
<1>5. \A z \in Slots : Shown(store, now + 1, z) = IF z \in due THEN Nothing ELSE Shown(store, now, z)
  BY <1>1, <1>3, <1>4, TickEntries
<1>6. f = [z \in Slots |-> IF z \in due THEN Nothing ELSE e[z]]
  BY <1>2, <1>4, <1>5
<1> QED
  BY <1>1, <1>6 DEF Abstract!Pass, Abstract!Without, Abstract!Has, Abstract!NoEntry,
                    Abstract!Entry, Abstract!Slots, Slots, Nothing

\* A command on one slot leaves the others alone.
LEMMA OthersAlone ==
    ASSUME NEW x, Abstract!OnStrings(x) \/ Abstract!OnSets(x) \/ Abstract!OnDeadlines(x)
    PROVE  Abstract!Alone(x)
<1> DEFINE e == Seen(store)
           f == Seen(store)'
<1>1. ASSUME \/ f \in Abstract!Same \/ f \in Abstract!Without({x})
             \/ \E v, dl : f \in Abstract!Becomes(x, v, dl)
      PROVE  Abstract!Alone(x)
  <2>1. e = [y \in Slots |-> e[y]]
    BY DEF Seen
  <2> HIDE DEF e, f
  <2>2. \A y \in Slots \ {x} : f[y] = e[y]
    BY <1>1, <2>1 DEF e, Abstract!Same, Abstract!Without, Abstract!Becomes, Abstract!Slots, Slots
  <2> QED
    BY <2>2 DEF e, f, Abstract!Alone, Abstract!Slots, Slots
<1>2. CASE Abstract!OnStrings(x)
  BY <1>1, <1>2 DEF Abstract!OnStrings, Abstract!Set, Abstract!Update, Abstract!Setnx,
                    Abstract!Getdel
<1>3. CASE Abstract!OnSets(x)
  BY <1>1, <1>3 DEF Abstract!OnSets, Abstract!Sadd, Abstract!Srem, Abstract!Spop
<1>4. CASE Abstract!OnDeadlines(x)
  BY <1>1, <1>4 DEF Abstract!OnDeadlines, Abstract!Expire, Abstract!Persist
<1> QED
  BY <1>2, <1>3, <1>4

\* The steps on one slot,
LEMMA SlotStep ==
    ASSUME Steady, NEW x \in Slots,
           WriteTo(x) \/ RemoveFrom(x) \/ Persist(x)
           \/ \E deadline \in Deadlines : Expire(x, deadline)
    PROVE  UNCHANGED now /\ (UNCHANGED Seen(store) \/ Abstract!Command)
<1> DEFINE e == Seen(store)
           f == Seen(store)'
           Done == /\ UNCHANGED now
                   /\ f = e \/ Abstract!OnStrings(x) \/ Abstract!OnSets(x) \/ Abstract!OnDeadlines(x)
<1>1. WritesAsPromised /\ RemovalsAsPromised /\ DeadlinesAsPromised
  BY CommandsKept DEF CommandsAsPromised
<1>2. Deadlines = Abstract!Times /\ Slots = Abstract!Slots
  BY DEF Deadlines, Abstract!Times, Slots, Abstract!Slots
<1>3. \A M \in MemberSets \cup {{}} : M \in SUBSET Elems
  BY ParameterFacts
<1>4. ASSUME NEW v \in Strings, NEW cond \in {"any", "nx", "xx"}, NEW keep \in BOOLEAN,
             NEW ex \in {NoDeadline} \cup Deadlines, Set(x, v, cond, keep, ex)
      PROVE  Done
  BY <1>1, <1>2, <1>4, TurnSeen DEF Set, WritesAsPromised, Abstract!OnStrings
<1>5. ASSUME NEW v \in Strings, Update(x, v) \/ Setnx(x, v)
      PROVE  Done
  BY <1>1, <1>5, TurnSeen DEF Update, Setnx, WritesAsPromised, Abstract!OnStrings
<1>6. ASSUME NEW M \in MemberSets, Sadd(x, M)
      PROVE  Done
  BY <1>1, <1>3, <1>6, TurnSeen DEF Sadd, WritesAsPromised, Abstract!OnSets
<1>7. ASSUME Getdel(x)
      PROVE  Done
  BY <1>1, <1>7, TurnSeen DEF Getdel, RemovalsAsPromised, Abstract!OnStrings
<1>8. ASSUME NEW M \in MemberSets, Srem(x, M)
      PROVE  Done
  BY <1>1, <1>3, <1>8, TurnSeen DEF Srem, RemovalsAsPromised, Abstract!OnSets
<1>9. ASSUME NEW M \in MemberSets \cup {{}}, Spop(x, M)
      PROVE  Done
  BY <1>1, <1>3, <1>9, TurnSeen DEF Spop, RemovalsAsPromised, Abstract!OnSets
<1>10. ASSUME Persist(x)
       PROVE  Done
  <2>1. 1 \in Abstract!Times
    BY TimeBound DEF Abstract!Times
  <2> QED
    BY <1>1, <1>10, <2>1, TurnSeen DEF Persist, DeadlinesAsPromised, Abstract!OnDeadlines
<1>11. ASSUME NEW deadline \in Deadlines, Expire(x, deadline)
       PROVE  Done
  BY <1>1, <1>2, <1>11, TurnSeen DEF Expire, DeadlinesAsPromised, Abstract!OnDeadlines
<1>12. Done
  <2> HIDE DEF Done
  <2> QED
    BY <1>4, <1>5, <1>6, <1>7, <1>8, <1>9, <1>10, <1>11 DEF WriteTo, RemoveFrom
<1> QED
  BY <1>2, <1>12, OthersAlone DEF Abstract!Command

\* on several,
LEMMA ManySlotsStep ==
    ASSUME Steady, MultiKeyStep \/ BulkStep
    PROVE  UNCHANGED now /\ Abstract!Command
<1>1. RemovalsAsPromised /\ PairsAsPromised
  BY CommandsKept DEF CommandsAsPromised
<1>2. Slots = Abstract!Slots
  BY DEF Slots, Abstract!Slots
<1>3. ASSUME NEW x \in Slots, NEW y \in Slots, NEW v \in Strings, NEW w \in Strings,
             Mset(x, v, y, w)
      PROVE  x[1] = y[1] /\ UNCHANGED now /\ Abstract!OnPairs(x, y)
  BY <1>1, <1>3, TurnSeen DEF Mset, PairsAsPromised, Abstract!OnPairs
<1>4. ASSUME NEW x \in Slots, NEW y \in Slots, Rename(x, y) \/ Renamenx(x, y)
      PROVE  x[1] = y[1] /\ UNCHANGED now /\ Abstract!OnPairs(x, y)
  BY <1>1, <1>4, TurnSeen DEF Rename, Renamenx, PairsAsPromised, Abstract!OnPairs
<1>5. ASSUME NEW S \in KeyPairs, Del(S)
      PROVE  \E x, y \in Slots : x[1] = y[1] /\ UNCHANGED now /\ Abstract!OnPairs(x, y)
  <2>1. PICK x \in Slots, y \in Slots : x[1] = y[1] /\ S = {x, y}
    BY DEF KeyPairs
  <2>2. UNCHANGED now /\ Seen(store)' \in Abstract!Del(S)
    BY <1>1, <1>5, TurnSeen DEF Del, RemovalsAsPromised
  <2> QED
    BY <2>1, <2>2 DEF Abstract!OnPairs
<1>6. ASSUME NEW d \in DBs, FlushDb(d)
      PROVE  UNCHANGED now /\ Seen(store)' \in Abstract!FlushDb(d)
  BY <1>1, <1>6, TurnSeen DEF FlushDb, RemovalsAsPromised
<1>7. ASSUME FlushAll
      PROVE  UNCHANGED now /\ Seen(store)' \in Abstract!FlushAll
  BY <1>1, <1>7, TurnSeen DEF FlushAll, RemovalsAsPromised
<1>8. ASSUME NEW a \in DBs, NEW b \in DBs, SwapDb(a, b)
      PROVE  UNCHANGED now /\ Seen(store)' \in Abstract!SwapDb(a, b)
  BY <1>1, <1>8, TurnSeen DEF SwapDb, PairsAsPromised
<1>9. CASE MultiKeyStep
  BY <1>2, <1>3, <1>4, <1>5, <1>9 DEF MultiKeyStep, Abstract!Command
<1>10. CASE BulkStep
  BY <1>6, <1>7, <1>8, <1>10 DEF BulkStep, Abstract!Command
<1> QED
  BY <1>9, <1>10

\* and on none.
LEMMA ReadStepSeen ==
    ASSUME Steady, ReadStep
    PROVE  UNCHANGED Abstract!avars
<1>1. ReadsAsPromised
  BY CommandsKept DEF CommandsAsPromised
<1>2. \A D \in SUBSET DBs : Promised(CmdKeys(Fresh, now, D), Abstract!Same)
  BY <1>1 DEF ReadsAsPromised
<1>3. UNCHANGED now /\ Seen(store)' \in Abstract!Same
  <2>1. ASSUME NEW x \in Slots, Exists(x)
        PROVE  UNCHANGED now /\ Seen(store)' \in Abstract!Same
    BY <1>1, <2>1, TurnSeen DEF Exists, ReadsAsPromised
  <2>2. ASSUME NEW x \in Slots, NEW ty \in {"string", "set"}, Read(x, ty)
        PROVE  UNCHANGED now /\ Seen(store)' \in Abstract!Same
    BY <1>1, <2>2, TurnSeen DEF Read, ReadsAsPromised
  <2>3. ASSUME NEW d \in DBs, KeysOf(d)
        PROVE  UNCHANGED now /\ Seen(store)' \in Abstract!Same
    BY <1>2, <2>3, TurnSeen DEF KeysOf
  <2>4. ASSUME Info
        PROVE  UNCHANGED now /\ Seen(store)' \in Abstract!Same
    BY <1>2, <2>4, TurnSeen DEF Info
  <2> QED
    BY <2>1, <2>2, <2>3, <2>4 DEF ReadStep
<1> QED
  BY <1>3 DEF Abstract!avars, Abstract!Same

\* Without a memory limit the keyspace implements AbstractKeyspace, command by
\* command: whatever has expired and not been purged, each command changes
\* what clients see as the abstract command of its name and arguments allows
\* and in no other way, the sweep changes nothing, and a tick of the clock
\* removes exactly what is due (store.js:29-143, expiry.js:23-107 and the
\* handlers of src/src/commands that Commands models).
THEOREM KeyspaceImplementsAbstract == ASSUME ~MemoryLimited PROVE Spec => ImplementsAbstract
<1> DEFINE AbstractStep == [Abstract!Next]_Abstract!avars
<1>1. Init => Abstract!Init
  <2> SUFFICES ASSUME Init
               PROVE  Abstract!Init
    OBVIOUS
  <2>1. store = EmptyStore /\ now = 1
    BY DEF Init
  <2>2. Seen(store) = [x \in Slots |-> Nothing]
    BY <2>1 DEF EmptyStore, Store, Seen, Nothing, VisibleValue, VisibleDeadline, Visible, Present
  <2> QED
    BY <2>1, <2>2 DEF Abstract!Init, Abstract!Slots, Abstract!NoEntry, Abstract!Entry, Slots, Nothing
<1>2. Inv /\ TimersOwned => CommandsAsPromised
  BY CommandsKept DEF Steady
<1>3. Inv /\ TimersOwned /\ [Next]_vars => AbstractStep /\ [QuietOrPass]_vars
  <2> SUFFICES ASSUME Steady, [Next]_vars
               PROVE  AbstractStep /\ [QuietOrPass]_vars
    BY DEF Steady
  <2>1. QuietOrPass
    BY SweepKept, PassKept DEF QuietOrPass
  <2>2. ASSUME UNCHANGED now, UNCHANGED Seen(store) \/ Abstract!Command
        PROVE  AbstractStep
    BY <2>2 DEF Abstract!Next, Abstract!avars
  <2>3. ASSUME NEW x \in Slots, WriteTo(x) \/ RemoveFrom(x)
        PROVE  AbstractStep
    BY <2>2, <2>3, SlotStep
  <2>4. ASSUME ExpiryStep
        PROVE  AbstractStep
    BY <2>2, <2>4, SlotStep DEF ExpiryStep
  <2>5. ASSUME MultiKeyStep \/ BulkStep
        PROVE  AbstractStep
    BY <2>2, <2>5, ManySlotsStep
  <2>6. ASSUME ReadStep \/ SweepStep
        PROVE  AbstractStep
    BY <2>6, ReadStepSeen, SweepKept
  <2>7. ASSUME Tick
        PROVE  AbstractStep
    BY <2>7, PassKept DEF Abstract!Next
  <2>8. ASSUME UNCHANGED vars
        PROVE  AbstractStep
    BY <2>8 DEF vars, Seen, Abstract!avars
  <2> QED
    BY <2>1, <2>3, <2>4, <2>5, <2>6, <2>7, <2>8 DEF Next
<1>4. Spec => []Inv
  BY StoreConsistent, PTL DEF Inv
<1>5. Spec => []TimersOwned
  BY TimersStayOwned
<1>6. Spec => Abstract!Init /\ [][Abstract!Next]_Abstract!avars /\ []CommandsAsPromised
              /\ [][QuietOrPass]_vars
  BY <1>1, <1>2, <1>3, <1>4, <1>5, PTL DEF Spec
<1> QED
  BY <1>6 DEF ImplementsAbstract, Abstract!Spec, QuietOrPass, CommandsAsPromised
=============================================================================
