--------------------------- MODULE CommandsProofs --------------------------
(***************************************************************************)
(* Every method of the store keeps it well typed and its maps consistent;  *)
(* every command handler, built from them, leaves a consistent store, with *)
(* and without a memory limit, and without one it leaves no deadline       *)
(* without a value.                                                        *)
(***************************************************************************)
EXTENDS Commands, TLAPS

-----------------------------------------------------------------------------
(* The methods of the store.                                               *)

Consistent(s) == s \in StoreType /\ MapsConsistent(s)

\* v is a value of type ty.
Fits(v, ty) ==
    \/ ty = "string" /\ v \in Strings
    \/ ty = "set" /\ v \in SUBSET Elems /\ v # {}

USE DEF NoDeadline, Types, Values

\* What a store of a given type is made of.
LEMMA StoreFields ==
    ASSUME NEW s \in StoreType
    PROVE  /\ s.val \in [Slots -> {Absent} \cup Values]
           /\ s.typ \in [Slots -> Types]
           /\ s.ttl \in [Slots -> {NoDeadline} \cup (Nat \ {0})]
           /\ s.acc \subseteq Slots
           /\ s.mod \subseteq Slots
  BY DEF StoreType

\* A value of a type fits no other type.
LEMMA FitsTypes ==
    ASSUME NEW v, NEW ty, Fits(v, ty)
    PROVE  /\ v \in Values /\ v # Absent /\ v # {}
           /\ ty \in Types \ {"none"}
           /\ ty = "string" <=> v \in Strings
  BY AbsentIsNoValue, KindsDiffer DEF Fits

\* The empty store is consistent.
LEMMA EmptyConsistent == Consistent(EmptyStore)
  BY AbsentIsNoValue, KindsDiffer
     DEF Consistent, StoreType, MapsConsistent, EmptyStore, Present, Store

\* Removing any slots from all four maps keeps them consistent.
LEMMA DropConsistent ==
    ASSUME NEW s, Consistent(s), NEW S
    PROVE  Consistent(DropSlots(s, S))
<1>1. DropSlots(s, S) \in StoreType
  BY StoreFields DEF Consistent, StoreType, DropSlots, Store
<1>2. MapsConsistent(DropSlots(s, S))
  BY StoreFields, AbsentIsNoValue, KindsDiffer
     DEF Consistent, MapsConsistent, DropSlots, Present, Store
<1> QED
  BY <1>1, <1>2 DEF Consistent

\* Key versions play no part in it.
LEMMA BumpConsistent ==
    ASSUME NEW s, Consistent(s), NEW S \in SUBSET Slots
    PROVE  Consistent(Bump(s, S))
  BY StoreFields DEF Consistent, StoreType, MapsConsistent, Bump, Present, Store

\* deleteKey.
LEMMA DeleteConsistent ==
    ASSUME NEW s, Consistent(s), NEW S \in SUBSET Slots
    PROVE  Consistent(DeleteKeys(s, S))
  BY DropConsistent, BumpConsistent DEF DeleteKeys

\* _checkExpired.
LEMMA CheckExpiredConsistent ==
    ASSUME NEW s, Consistent(s), NEW t, NEW S
    PROVE  Consistent(CheckExpired(s, t, S))
  BY DropConsistent DEF CheckExpired

\* keysInDb.
LEMMA KeysInDbConsistent ==
    ASSUME NEW s, Consistent(s), NEW t, NEW D
    PROVE  Consistent(KeysInDb(s, t, D))
  BY CheckExpiredConsistent DEF KeysInDb

\* flushDb and flushAll.
LEMMA FlushConsistent ==
    ASSUME NEW s, Consistent(s), NEW D
    PROVE  Consistent(FlushDbs(s, D))
  BY DropConsistent DEF FlushDbs

\* Exchanging two databases in all four maps keeps them consistent.
LEMMA SwapConsistent ==
    ASSUME NEW s, Consistent(s), NEW a \in DBs, NEW b \in DBs
    PROVE  Consistent(SwapDbs(s, a, b))
<1> DEFINE W(x) == SwappedSlot(a, b, x)
<1>1. \A x \in Slots : W(x) \in Slots
  BY DEF Slots, SwappedSlot
<1> HIDE DEF W
<1>2. SwapDbs(s, a, b) = Store([x \in Slots |-> s.val[W(x)]], [x \in Slots |-> s.typ[W(x)]],
                               [x \in Slots |-> s.ttl[W(x)]], {x \in Slots : W(x) \in s.acc},
                               s.mod)
  BY DEF SwapDbs, W
<1>3. SwapDbs(s, a, b) \in StoreType
  BY <1>1, <1>2, StoreFields DEF Consistent, StoreType, Store
<1>4. MapsConsistent(SwapDbs(s, a, b))
  BY <1>1, <1>2, StoreFields DEF Consistent, MapsConsistent, Present, Store
<1> QED
  BY <1>3, <1>4 DEF Consistent

-----------------------------------------------------------------------------
\* touch records an access time only for a key that is there.
LEMMA TouchConsistent ==
    ASSUME NEW s, Consistent(s), NEW x \in Slots, Present(s, x)
    PROVE  Consistent(Touch(s, x))
  BY StoreFields DEF Consistent, StoreType, MapsConsistent, Touch, Present, Store

\* get.
LEMMA GetConsistent ==
    ASSUME NEW s, Consistent(s), NEW t, NEW x \in Slots
    PROVE  Consistent(Get(s, t, x))
  BY CheckExpiredConsistent, TouchConsistent DEF Get

\* markDirty.
LEMMA MarkDirtyConsistent ==
    ASSUME NEW s, Consistent(s), NEW x \in Slots, Present(s, x)
    PROVE  Consistent(MarkDirty(s, x))
  BY TouchConsistent, BumpConsistent DEF MarkDirty

\* set writes the value, its type and the access time together.
LEMMA PutConsistent ==
    ASSUME NEW s, Consistent(s), NEW x \in Slots, NEW v, NEW ty, Fits(v, ty)
    PROVE  Consistent(PutValue(s, x, v, ty))
<1>1. PutValue(s, x, v, ty) \in StoreType
  BY StoreFields, FitsTypes DEF Consistent, StoreType, PutValue, MapSet, Store
<1>2. MapsConsistent(PutValue(s, x, v, ty))
  BY StoreFields, FitsTypes, AbsentIsNoValue, KindsDiffer
     DEF Consistent, MapsConsistent, PutValue, MapSet, Present, Store
<1> QED
  BY <1>1, <1>2 DEF Consistent

\* A collection may change in place as long as a member is left.
LEMMA MutateConsistent ==
    ASSUME NEW s, Consistent(s), NEW x \in Slots, NEW v, Fits(v, "set"), s.typ[x] = "set"
    PROVE  Consistent(MutateInPlace(s, x, v))
<1>1. MutateInPlace(s, x, v) \in StoreType
  BY StoreFields, FitsTypes DEF Consistent, StoreType, MutateInPlace, MapSet, Store
<1>2. MapsConsistent(MutateInPlace(s, x, v))
  BY StoreFields, FitsTypes, AbsentIsNoValue, KindsDiffer
     DEF Consistent, MapsConsistent, MutateInPlace, MapSet, Present, Store
<1> QED
  BY <1>1, <1>2 DEF Consistent

\* Deadlines play no part in the agreement of the other maps.
LEMMA SetExpireConsistent ==
    ASSUME NEW s, Consistent(s), NEW x \in Slots,
           NEW deadline \in {NoDeadline} \cup (Nat \ {0})
    PROVE  Consistent(SetExpireAt(s, x, deadline))
  BY StoreFields DEF Consistent, StoreType, MapsConsistent, SetExpireAt, MapSet, Present, Store

\* removeExpiry.
LEMMA RemoveExpiryConsistent ==
    ASSUME NEW s, Consistent(s), NEW x \in Slots
    PROVE  Consistent(RemoveExpiry(s, x))
  BY SetExpireConsistent DEF RemoveExpiry

\* Whatever the memory limit makes of it, set leaves a consistent store.
LEMMA SetConsistent ==
    ASSUME NEW s, Consistent(s), NEW t, NEW x \in Slots, NEW v, NEW ty, Fits(v, ty),
           NEW o \in SetOutcomes(s, t, x, v, ty)
    PROVE  Consistent(o)
<1> DEFINE p == KeysInDb(s, t, DBs)
<1>1. Consistent(p)
  BY KeysInDbConsistent
<1>2. Evictable(p) \subseteq Slots
  BY DEF Evictable, LiveSlots
<1>3. \A E \in SUBSET Evictable(p) : Consistent(DeleteKeys(p, E))
  BY <1>1, <1>2, DeleteConsistent
<1>4. \/ o = s
      \/ o = PutValue(s, x, v, ty)
      \/ \E E \in SUBSET Evictable(p) : \/ o = PutValue(DeleteKeys(p, E), x, v, ty)
                                        \/ o = DeleteKeys(p, E)
  BY DEF SetOutcomes
<1> QED
  BY <1>3, <1>4, PutConsistent

-----------------------------------------------------------------------------
(* What a step may change without telling WATCH. *)

TimersOk(s) == \A x \in Slots : HasExpiry(s, x) => Present(s, x)

\* From s to o versions only grow, and a slot whose version has not been
\* bumped looks the same as before.
Noted(s, o, t) ==
    /\ s.mod \subseteq o.mod
    /\ \A y \in Slots : y \in o.mod \/ VisibleValue(o, t, y) = VisibleValue(s, t, y)

\* Noted, and no deadline loses its value.
Tidy(s, o, t) == Noted(s, o, t) /\ (TimersOk(s) => TimersOk(o))

\* From s to o versions only grow, and a slot whose version has not been
\* bumped has not vanished.
NoLoss(s, o, t) ==
    /\ s.mod \subseteq o.mod
    /\ \A y \in Slots : y \in o.mod \/ (Visible(s, t, y) => Visible(o, t, y))

\* The relations are reflexive and transitive, so they hold of a handler if they
\* hold of each call it makes.
LEMMA TidyRefl ==
    ASSUME NEW s, NEW t
    PROVE  Tidy(s, s, t) /\ NoLoss(s, s, t)
  BY DEF Tidy, Noted, NoLoss

\* Transitivity of Tidy.
LEMMA TidyTrans ==
    ASSUME NEW s, NEW o, NEW r, NEW t, Tidy(s, o, t), Tidy(o, r, t)
    PROVE  Tidy(s, r, t)
  BY DEF Tidy, Noted

\* Transitivity of NoLoss.
LEMMA NoLossTrans ==
    ASSUME NEW s, NEW o, NEW r, NEW t, NoLoss(s, o, t), NoLoss(o, r, t)
    PROVE  NoLoss(s, r, t)
  BY DEF NoLoss

\* Lazy expiry removes only what nobody can see.
LEMMA CheckExpiredTidy ==
    ASSUME NEW s, NEW t, NEW S
    PROVE  Tidy(s, CheckExpired(s, t, S), t) /\ NoLoss(s, CheckExpired(s, t, S), t)
  BY DEF Tidy, Noted, NoLoss, TimersOk, CheckExpired, DropSlots, Store, VisibleValue,
         Visible, Present, IsExpired, HasExpiry

\* keysInDb purges like lazy expiry.
LEMMA KeysInDbTidy ==
    ASSUME NEW s, NEW t, NEW D
    PROVE  Tidy(s, KeysInDb(s, t, D), t) /\ NoLoss(s, KeysInDb(s, t, D), t)
  BY CheckExpiredTidy DEF KeysInDb

\* deleteKey bumps exactly the versions of what it removes.
LEMMA DeleteTidy ==
    ASSUME NEW s, NEW t, NEW S
    PROVE  Tidy(s, DeleteKeys(s, S), t) /\ NoLoss(s, DeleteKeys(s, S), t)
  BY DEF Tidy, Noted, NoLoss, TimersOk, DeleteKeys, Bump, DropSlots, Store, VisibleValue,
         Visible, Present, IsExpired, HasExpiry

\* Access times are invisible.
LEMMA TouchTidy ==
    ASSUME NEW s, NEW t, NEW x
    PROVE  Tidy(s, Touch(s, x), t) /\ NoLoss(s, Touch(s, x), t)
  BY DEF Tidy, Noted, NoLoss, TimersOk, Touch, Store, VisibleValue, Visible, Present,
         IsExpired, HasExpiry

\* get purges and touches.
LEMMA GetTidy ==
    ASSUME NEW s, NEW t, NEW x
    PROVE  Tidy(s, Get(s, t, x), t) /\ NoLoss(s, Get(s, t, x), t)
  BY CheckExpiredTidy, TouchTidy, TidyTrans, NoLossTrans DEF Get

\* Bumping more versions than necessary does no harm.
LEMMA BumpTidy ==
    ASSUME NEW s, NEW t, NEW S
    PROVE  Tidy(s, Bump(s, S), t) /\ NoLoss(s, Bump(s, S), t)
  BY DEF Tidy, Noted, NoLoss, TimersOk, Bump, Store, VisibleValue, Visible, Present,
         IsExpired, HasExpiry

\* set bumps the version of what it writes.
LEMMA PutTidy ==
    ASSUME NEW s, NEW t, NEW x \in Slots, NEW v, NEW ty, v # Absent
    PROVE  /\ Tidy(s, PutValue(s, x, v, ty), t) /\ NoLoss(s, PutValue(s, x, v, ty), t)
           /\ Present(PutValue(s, x, v, ty), x) /\ x \in PutValue(s, x, v, ty).mod
  BY DEF Tidy, Noted, NoLoss, TimersOk, PutValue, MapSet, Store, VisibleValue, Visible,
         Present, IsExpired, HasExpiry

\* A deadline may be given to a slot that is bumped, or that stays visible.
LEMMA SetExpireTidy ==
    ASSUME NEW s, NEW t, NEW x \in Slots, NEW deadline,
           Present(s, x),
           x \in s.mod \/ (Visible(s, t, x) /\ (deadline = NoDeadline \/ ~(t >= deadline)))
    PROVE  Tidy(s, SetExpireAt(s, x, deadline), t)
  BY DEF Tidy, Noted, TimersOk, SetExpireAt, MapSet, Store, VisibleValue, Visible, Present,
         IsExpired, HasExpiry

\* A deadline that has not passed hides nothing.
LEMMA SetExpireNoLoss ==
    ASSUME NEW s, NEW t, NEW x \in Slots, NEW deadline,
           x \in s.mod \/ deadline = NoDeadline \/ ~(t >= deadline)
    PROVE  NoLoss(s, SetExpireAt(s, x, deadline), t)
  BY DEF NoLoss, SetExpireAt, MapSet, Store, Visible, Present, IsExpired, HasExpiry

\* With a limit, set may evict and may be rejected: still nothing vanishes
\* that is not bumped.
LEMMA SetNoLoss ==
    ASSUME NEW s, NEW t, NEW x \in Slots, NEW v, NEW ty, v # Absent,
           NEW o \in SetOutcomes(s, t, x, v, ty)
    PROVE  NoLoss(s, o, t)
<1> DEFINE p == KeysInDb(s, t, DBs)
<1>1. NoLoss(s, p, t)
  BY KeysInDbTidy
<1>2. \A E : NoLoss(p, DeleteKeys(p, E), t)
  BY DeleteTidy
<1>3. \A r : NoLoss(r, PutValue(r, x, v, ty), t)
  BY PutTidy
<1>4. \/ o = s
      \/ o = PutValue(s, x, v, ty)
      \/ \E E : o = PutValue(DeleteKeys(p, E), x, v, ty) \/ o = DeleteKeys(p, E)
  BY DEF SetOutcomes
<1> HIDE DEF p
<1> QED
  BY <1>1, <1>2, <1>3, <1>4, NoLossTrans, TidyRefl

\* Without a memory limit, set always writes.
LEMMA SetUnlimited ==
    ASSUME ~MemoryLimited, NEW s, NEW t, NEW x \in Slots, NEW v, NEW ty, v # Absent,
           NEW o \in SetOutcomes(s, t, x, v, ty)
    PROVE  /\ o = PutValue(s, x, v, ty)
           /\ Tidy(s, o, t) /\ Present(o, x) /\ x \in o.mod
<1>1. o = PutValue(s, x, v, ty)
  BY DEF SetOutcomes
<1> QED
  BY <1>1, PutTidy

-----------------------------------------------------------------------------
(* With a limit and a policy that evicts.                                  *)

\* Transitivity of Noted.
LEMMA NotedTrans ==
    ASSUME NEW s, NEW o, NEW r, NEW t, Noted(s, o, t), Noted(o, r, t)
    PROVE  Noted(s, r, t)
  BY DEF Noted

\* A slot is as it may be after a set: bumped, gone, or in sight.
Accounted(o, t, x) == x \in o.mod \/ ~Present(o, x) \/ ~IsExpired(o, t, x)

\* A write that is refused has purged every key that has expired.
LEMMA SetNoted ==
    ASSUME Policy # "noeviction", NEW s, NEW t, NEW x \in Slots, NEW v, NEW ty, v # Absent,
           NEW o \in SetOutcomes(s, t, x, v, ty)
    PROVE  Noted(s, o, t) /\ Accounted(o, t, x)
<1> DEFINE p == KeysInDb(s, t, DBs)
<1>1. Noted(s, p, t) /\ \A E : Noted(p, DeleteKeys(p, E), t)
  BY KeysInDbTidy, DeleteTidy DEF Tidy
<1>2. \A E : ~Present(DeleteKeys(p, E), x) \/ ~IsExpired(DeleteKeys(p, E), t, x)
  <2>1. ~Present(p, x) \/ ~IsExpired(p, t, x)
    BY DEF KeysInDb, CheckExpired, DropSlots, Store, IsExpired, HasExpiry, Present, Slots
  <2> HIDE DEF p
  <2>2. \A E : LET r == DeleteKeys(p, E)
               IN  (r.val[x] = Absent \/ r.val[x] = p.val[x])
                   /\ (r.ttl[x] = NoDeadline \/ r.ttl[x] = p.ttl[x])
    BY DEF DeleteKeys, Bump, DropSlots, Store
  <2> QED
    BY <2>1, <2>2 DEF IsExpired, HasExpiry, Present
<1>3. \A r : Noted(r, PutValue(r, x, v, ty), t) /\ x \in PutValue(r, x, v, ty).mod
  BY PutTidy DEF Tidy
<1>4. \/ o = PutValue(s, x, v, ty)
      \/ \E E : o = PutValue(DeleteKeys(p, E), x, v, ty) \/ o = DeleteKeys(p, E)
  BY DEF SetOutcomes
<1> HIDE DEF p
<1> QED
  BY <1>1, <1>2, <1>3, <1>4, NotedTrans DEF Accounted

\* A deadline that has not passed, or its absence, changes nothing in sight.
LEMMA SetExpireNoted ==
    ASSUME NEW s, NEW t, NEW x \in Slots, NEW deadline, Accounted(s, t, x),
           deadline = NoDeadline \/ ~(t >= deadline)
    PROVE  Noted(s, SetExpireAt(s, x, deadline), t)
  BY DEF Noted, Accounted, SetExpireAt, MapSet, Store, VisibleValue, Visible, Present,
         IsExpired, HasExpiry

\* What a step on the slot x leaves of the other keys without a deadline:
\* all of them, as they were.
Kept(s, o, x) ==
    \A y \in Slots \ {x} :
        Present(s, y) /\ ~HasExpiry(s, y) => o.val[y] = s.val[y] /\ ~HasExpiry(o, y)

\* Transitivity of Kept.
LEMMA KeptTrans ==
    ASSUME NEW s, NEW o, NEW r, NEW x, Kept(s, o, x), Kept(o, r, x)
    PROVE  Kept(s, r, x)
  BY DEF Kept, Present

\* The calls that change one slot, and the purges of expired ones.
LEMMA CallsKeep ==
    ASSUME NEW s, NEW x, NEW t
    PROVE  /\ Kept(s, s, x)
           /\ \A S : Kept(s, CheckExpired(s, t, S), x)
           /\ Kept(s, Get(s, t, x), x)
           /\ Kept(s, DeleteKeys(s, {x}), x)
           /\ \A v, ty : Kept(s, PutValue(s, x, v, ty), x)
           /\ \A v : Kept(s, MutateInPlace(s, x, v), x)
           /\ \A deadline : Kept(s, SetExpireAt(s, x, deadline), x)
<1>1. /\ Kept(s, s, x) /\ Kept(s, DeleteKeys(s, {x}), x)
      /\ \A S : Kept(s, CheckExpired(s, t, S), x)
  BY DEF Kept, CheckExpired, DeleteKeys, Bump, DropSlots, Store, IsExpired, HasExpiry
<1>2. Kept(s, Get(s, t, x), x)
  BY DEF Kept, Get, Touch, CheckExpired, DropSlots, Store, IsExpired, HasExpiry
<1>3. /\ \A v, ty : Kept(s, PutValue(s, x, v, ty), x)
      /\ \A v : Kept(s, MutateInPlace(s, x, v), x)
      /\ \A deadline : Kept(s, SetExpireAt(s, x, deadline), x)
  BY DEF Kept, PutValue, MutateInPlace, SetExpireAt, MapSet, Store, HasExpiry
<1> QED
  BY <1>1, <1>2, <1>3

\* volatile-lru evicts only keys that have a deadline.
LEMMA SetKeeps ==
    ASSUME Policy = "volatile-lru", NEW s, NEW t, NEW x, NEW v, NEW ty,
           NEW o \in SetOutcomes(s, t, x, v, ty)
    PROVE  Kept(s, o, x)
<1> DEFINE p == KeysInDb(s, t, DBs)
<1>1. Kept(s, p, x)
  BY CallsKeep DEF KeysInDb
<1>2. \A E \in SUBSET Evictable(p) : Kept(p, DeleteKeys(p, E), x)
  <2>1. \A E \in SUBSET Evictable(p) : \A y \in E : HasExpiry(p, y)
    BY DEF Evictable
  <2> HIDE DEF p
  <2> QED
    BY <2>1 DEF Kept, DeleteKeys, Bump, DropSlots, Store, HasExpiry
<1>3. \/ o = PutValue(s, x, v, ty)
      \/ \E E \in SUBSET Evictable(p) :
             o = PutValue(DeleteKeys(p, E), x, v, ty) \/ o = DeleteKeys(p, E)
  BY DEF SetOutcomes
<1>4. \A r : Kept(r, PutValue(r, x, v, ty), x)
  BY CallsKeep
<1> HIDE DEF p
<1> QED
  BY <1>1, <1>2, <1>3, <1>4, KeptTrans

-----------------------------------------------------------------------------
(* What a client sees of a slot after each call, for the refinement. *)

\* What a client can see of a slot.
Shown(s, t, x) == [val |-> VisibleValue(s, t, x), dl |-> VisibleDeadline(s, t, x)]
Nothing == [val |-> Absent, dl |-> NoDeadline]

\* From s to o nothing changes in sight but in S.
Elsewhere(s, o, t, S) == \A y \in Slots \ S : Shown(o, t, y) = Shown(s, t, y)
Same(s, o, t) == \A y \in Slots : Shown(o, t, y) = Shown(s, t, y)

\* Nothing changes in sight but that the slots of S are empty afterwards.
Removes(s, o, t, S) ==
    \A y \in Slots : Shown(o, t, y) = IF y \in S THEN Nothing ELSE Shown(s, t, y)

\* What is in sight after each call.
LEMMA CallEntries ==
    ASSUME NEW s, NEW t, NEW x \in Slots
    PROVE  /\ \A S : Same(s, CheckExpired(s, t, S), t)
           /\ Same(s, Get(s, t, x), t)
           /\ \A S : Same(s, Bump(s, S), t)
           /\ Same(s, MarkDirty(s, x), t)
           /\ \A S : \A y \in Slots :
                  Shown(DeleteKeys(s, S), t, y) = IF y \in S THEN Nothing ELSE Shown(s, t, y)
<1> USE DEF Same, Shown, Nothing, VisibleValue, VisibleDeadline, Visible, Present, IsExpired,
            HasExpiry, Store
<1>1. \A S : Same(s, CheckExpired(s, t, S), t)
  BY DEF CheckExpired, DropSlots
<1>2. Same(s, Get(s, t, x), t)
  BY DEF Get, Touch, CheckExpired, DropSlots
<1>3. (\A S : Same(s, Bump(s, S), t)) /\ Same(s, MarkDirty(s, x), t)
  BY DEF Bump, MarkDirty, Touch
<1>4. \A S : \A y \in Slots :
          Shown(DeleteKeys(s, S), t, y) = IF y \in S THEN Nothing ELSE Shown(s, t, y)
  BY DEF DeleteKeys, Bump, DropSlots
<1> QED
  BY <1>1, <1>2, <1>3, <1>4

\* What is in sight after a value is written under x,
LEMMA PutEntries ==
    ASSUME NEW s, NEW t, NEW x \in Slots, NEW v, v # Absent, NEW ty
    PROVE  /\ Elsewhere(s, PutValue(s, x, v, ty), t, {x})
           /\ ~IsExpired(s, t, x) => Shown(PutValue(s, x, v, ty), t, x) = [val |-> v, dl |-> s.ttl[x]]
  BY DEF Elsewhere, Shown, VisibleValue, VisibleDeadline, Visible, Present, IsExpired,
         HasExpiry, Store, MapSet, PutValue

\* or changed in place,
LEMMA MutateEntries ==
    ASSUME NEW s, NEW t, NEW x \in Slots, NEW v, v # Absent
    PROVE  /\ Elsewhere(s, MutateInPlace(s, x, v), t, {x})
           /\ ~IsExpired(s, t, x) => Shown(MutateInPlace(s, x, v), t, x) = [val |-> v, dl |-> s.ttl[x]]
  BY DEF Elsewhere, Shown, VisibleValue, VisibleDeadline, Visible, Present, IsExpired,
         HasExpiry, Store, MapSet, MutateInPlace

\* and after the slot x has got a deadline.
LEMMA ExpireEntries ==
    ASSUME NEW s, NEW t, NEW x \in Slots, NEW deadline, Present(s, x),
           deadline = NoDeadline \/ ~(t >= deadline)
    PROVE  /\ Elsewhere(s, SetExpireAt(s, x, deadline), t, {x})
           /\ Shown(SetExpireAt(s, x, deadline), t, x) = [val |-> s.val[x], dl |-> deadline]
  BY DEF Elsewhere, Shown, VisibleValue, VisibleDeadline, Visible, Present, IsExpired,
         HasExpiry, Store, MapSet, SetExpireAt

\* Deleting what alone has changed removes it.
LEMMA DeleteEntries ==
    ASSUME NEW s, NEW k, NEW t, NEW S, Elsewhere(s, k, t, S)
    PROVE  Removes(s, DeleteKeys(k, S), t, S)
<1>1. \A y \in Slots : Shown(DeleteKeys(k, S), t, y) = IF y \in S THEN Nothing ELSE Shown(k, t, y)
  BY DEF DeleteKeys, Bump, DropSlots, Shown, Nothing, VisibleValue, VisibleDeadline, Visible,
         Present, IsExpired, HasExpiry, Store
<1> QED
  BY <1>1 DEF Removes, Elsewhere

-----------------------------------------------------------------------------
(* The command handlers.                                                   *)
HIDE DEF NoDeadline, Types, Values

\* A handler's parameters: the slot, and deadlines that are positive.
DeadlineOptions == {NoDeadline} \cup (Nat \ {0})
NonEmptySets == (SUBSET Elems) \ {{}}

\* Reads only purge and touch.
LEMMA ReadsConsistent ==
    ASSUME NEW s, Consistent(s), NEW t, NEW x \in Slots, NEW ty, NEW D,
           NEW o \in CmdExists(s, t, x) \cup CmdRead(s, t, x, ty) \cup CmdKeys(s, t, D)
    PROVE  Consistent(o)
  BY CheckExpiredConsistent, GetConsistent, KeysInDbConsistent
     DEF CmdExists, CmdRead, CmdKeys

\* The options of SET change deadlines only, or delete the key.
LEMMA TtlOptionsConsistent ==
    ASSUME NEW s, Consistent(s), NEW t, NEW x \in Slots, NEW keep,
           NEW prev \in DeadlineOptions, NEW ex \in DeadlineOptions
    PROVE  Consistent(ApplyTtlOptions(s, t, x, keep, prev, ex))
<1>1. {x} \in SUBSET Slots
  OBVIOUS
<1> QED
  BY <1>1, DeleteConsistent, SetExpireConsistent, RemoveExpiryConsistent
     DEF ApplyTtlOptions, DeadlineOptions

\* SET, with every combination of its options.
LEMMA SetCommandConsistent ==
    ASSUME NEW s, Consistent(s), NEW t, NEW x \in Slots, NEW v \in Strings, NEW cond,
           NEW keep, NEW ex \in DeadlineOptions,
           NEW o \in CmdSet(s, t, x, v, cond, keep, ex)
    PROVE  Consistent(o)
<1> DEFINE p == CheckExpired(s, t, {x})
           g == Get(p, t, x)
           prev == IF keep THEN g.ttl[x] ELSE NoDeadline
<1>1. Consistent(p) /\ Consistent(g)
  BY CheckExpiredConsistent, GetConsistent
<1>2. prev \in DeadlineOptions
  BY <1>1, StoreFields DEF Consistent, DeadlineOptions
<1>3. CASE o \in {p, g}
  BY <1>1, <1>3
<1>4. CASE \E q \in SetOutcomes(g, t, x, v, "string") :
              o = ApplyTtlOptions(q, t, x, keep, prev, ex)
  BY <1>1, <1>2, <1>4, SetConsistent, TtlOptionsConsistent DEF Fits
<1> QED
  BY <1>3, <1>4 DEF CmdSet

\* INCR, APPEND and their relatives.
LEMMA UpdateConsistent ==
    ASSUME NEW s, Consistent(s), NEW t, NEW x \in Slots, NEW v \in Strings,
           NEW o \in CmdUpdate(s, t, x, v)
    PROVE  Consistent(o)
  BY CheckExpiredConsistent, GetConsistent, SetConsistent DEF CmdUpdate, Fits

\* SETNX.
LEMMA SetnxConsistent ==
    ASSUME NEW s, Consistent(s), NEW t, NEW x \in Slots, NEW v \in Strings,
           NEW o \in CmdSetnx(s, t, x, v)
    PROVE  Consistent(o)
  BY CheckExpiredConsistent, SetConsistent DEF CmdSetnx, Fits

\* MSET, pair after pair.
LEMMA MsetConsistent ==
    ASSUME NEW s, Consistent(s), NEW t, NEW x \in Slots, NEW v \in Strings,
           NEW y \in Slots, NEW w \in Strings, NEW o \in CmdMset(s, t, x, v, y, w)
    PROVE  Consistent(o)
<1>1. ASSUME NEW r, Consistent(r), NEW z \in Slots, NEW u \in Strings,
             NEW q \in MsetPair(r, t, z, u)
      PROVE  Consistent(q)
  BY <1>1, SetConsistent, RemoveExpiryConsistent DEF MsetPair, Fits
<1> QED
  BY <1>1 DEF CmdMset

\* GETDEL and DEL.
LEMMA RemovalsConsistent ==
    ASSUME NEW s, Consistent(s), NEW t, NEW x \in Slots, NEW S \in SUBSET Slots,
           NEW o \in CmdGetdel(s, t, x) \cup CmdDel(s, S)
    PROVE  Consistent(o)
<1>1. {x} \in SUBSET Slots
  OBVIOUS
<1> QED
  BY <1>1, CheckExpiredConsistent, GetConsistent, DeleteConsistent DEF CmdGetdel, CmdDel

\* EXPIRE and PERSIST.
LEMMA ExpireConsistent ==
    ASSUME NEW s, Consistent(s), NEW t, NEW x \in Slots, NEW deadline \in Nat \ {0},
           NEW o \in CmdExpire(s, t, x, deadline) \cup CmdPersist(s, t, x)
    PROVE  Consistent(o)
<1>1. {x} \in SUBSET Slots
  OBVIOUS
<1> QED
  BY <1>1, CheckExpiredConsistent, DeleteConsistent, SetExpireConsistent,
     RemoveExpiryConsistent DEF CmdExpire, CmdPersist

\* A value that a consistent store holds fits the type it holds for it.
LEMMA StoredValueFits ==
    ASSUME NEW s, Consistent(s), NEW x \in Slots, Present(s, x)
    PROVE  Fits(s.val[x], s.typ[x])
<1> s \in StoreType /\ MapsConsistent(s)
  BY DEF Consistent
<1>1. s.val[x] \in {Absent} \cup Values /\ s.val[x] # Absent
  BY StoreFields DEF Present
<1>2. s.typ[x] \in Types /\ s.typ[x] # "none" /\ s.val[x] # {}
  BY StoreFields DEF MapsConsistent, Present
<1>3. s.typ[x] = "string" <=> s.val[x] \in Strings
  BY DEF MapsConsistent
<1> QED
  BY <1>1, <1>2, <1>3 DEF Fits, Types, Values

\* The value that is moved still fits its type when it is written again.
LEMMA RenameConsistent ==
    ASSUME NEW s, Consistent(s), NEW t, NEW from \in Slots, NEW to \in Slots,
           NEW o \in RenameOutcomes(s, t, from, to)
    PROVE  Consistent(o)
<1> DEFINE p == CheckExpired(s, t, {from})
           d == DeleteKeys(p, {from})
<1>1. Consistent(p) /\ Consistent(d)
  <2>1. {from} \in SUBSET Slots
    OBVIOUS
  <2> QED
    BY <2>1, CheckExpiredConsistent, DeleteConsistent
<1>2. p.ttl[from] \in DeadlineOptions
  BY <1>1, StoreFields DEF Consistent, DeadlineOptions
<1>3. CASE ~Present(p, from)
  BY <1>1, <1>3 DEF RenameOutcomes
<1>4. CASE Present(p, from)
  <2>1. PICK q \in SetOutcomes(d, t, to, p.val[from], p.typ[from]) :
            o = q \/ o = SetExpireAt(q, to, p.ttl[from])
    BY <1>4 DEF RenameOutcomes
  <2>2. Consistent(q)
    BY <1>1, <1>4, <2>1, StoredValueFits, SetConsistent
  <2> QED
    BY <1>2, <2>1, <2>2, SetExpireConsistent DEF DeadlineOptions
<1> QED
  BY <1>3, <1>4

\* RENAME and RENAMENX.
LEMMA RenamesConsistent ==
    ASSUME NEW s, Consistent(s), NEW t, NEW from \in Slots, NEW to \in Slots,
           NEW o \in CmdRename(s, t, from, to) \cup CmdRenamenx(s, t, from, to)
    PROVE  Consistent(o)
  BY RenameConsistent, CheckExpiredConsistent DEF CmdRename, CmdRenamenx

\* What checkType and get establish for a set command.
LEMMA SetFetched ==
    ASSUME NEW s, Consistent(s), NEW t, NEW x \in Slots,
           ~WrongType(CheckExpired(s, t, {x}), x, "set"),
           Present(Get(CheckExpired(s, t, {x}), t, x), x)
    PROVE  LET g == Get(CheckExpired(s, t, {x}), t, x)
           IN  /\ Consistent(g)
               /\ g.typ[x] = "set"
               /\ g.val[x] \in SUBSET Elems
<1> DEFINE p == CheckExpired(s, t, {x})
           g == Get(p, t, x)
<1>1. Consistent(p) /\ Consistent(g)
  BY CheckExpiredConsistent, GetConsistent
<1>2. g.val = CheckExpired(p, t, {x}).val /\ g.typ = CheckExpired(p, t, {x}).typ
  BY DEF Get, Touch, Store
<1>3. g.val[x] = p.val[x] /\ g.typ[x] = p.typ[x]
  BY <1>1, <1>2, StoreFields DEF CheckExpired, DropSlots, Store, Present, Consistent
<1>4. p.typ[x] # "none"
  BY <1>1, <1>3 DEF Consistent, MapsConsistent, Present
<1>5. g.typ[x] = "set"
  BY <1>3, <1>4 DEF WrongType
<1> QED
  BY <1>1, <1>5, StoredValueFits DEF Fits, Consistent

\* SADD, whose in-place change is undone by nothing when set is refused.
LEMMA SaddConsistent ==
    ASSUME NEW s, Consistent(s), NEW t, NEW x \in Slots, NEW M \in NonEmptySets,
           NEW o \in CmdSadd(s, t, x, M)
    PROVE  Consistent(o)
<1> DEFINE p == CheckExpired(s, t, {x})
           g == Get(p, t, x)
           grown == g.val[x] \cup M
<1>1. Consistent(p) /\ Consistent(g)
  BY CheckExpiredConsistent, GetConsistent
<1>2. CASE WrongType(p, x, "set")
  BY <1>1, <1>2 DEF CmdSadd
<1>3. CASE ~WrongType(p, x, "set") /\ ~Present(g, x)
  BY <1>1, <1>3, SetConsistent DEF CmdSadd, Fits, NonEmptySets
<1>4. CASE ~WrongType(p, x, "set") /\ Present(g, x)
  <2>1. Fits(grown, "set") /\ g.typ[x] = "set"
    BY <1>4, SetFetched DEF Fits, NonEmptySets
  <2>2. Consistent(MutateInPlace(g, x, grown))
    BY <1>1, <2>1, MutateConsistent
  <2> QED
    BY <1>4, <2>1, <2>2, SetConsistent DEF CmdSadd
<1> QED
  BY <1>2, <1>3, <1>4

\* The tail of SREM and SPOP repairs what taking the last member broke.
LEMMA DropIfEmptyConsistent ==
    ASSUME NEW g, Consistent(g), NEW x \in Slots, Present(g, x), g.typ[x] = "set",
           NEW v \in SUBSET Elems
    PROVE  /\ Consistent(DropIfEmpty(MutateInPlace(g, x, v), x))
           /\ Consistent(DropIfEmpty(MarkDirty(MutateInPlace(g, x, v), x), x))
<1> DEFINE m == MutateInPlace(g, x, v)
<1>1. m.val[x] = v /\ MarkDirty(m, x).val[x] = v
  BY DEF MutateInPlace, MarkDirty, Touch, Bump, MapSet, Store
<1>2. CASE v # {}
  <2>1. Consistent(m) /\ Present(m, x)
    BY <1>1, <1>2, MutateConsistent, AbsentIsNoValue DEF Fits, Present
  <2> QED
    BY <1>1, <1>2, <2>1, MarkDirtyConsistent DEF DropIfEmpty
<1>3. CASE v = {}
  <2>1. DropSlots(m, {x}) = DropSlots(g, {x})
    BY StoreFields DEF Consistent, DropSlots, MutateInPlace, MapSet, Store
  <2>2. DropSlots(MarkDirty(m, x), {x}) = Bump(DropSlots(g, {x}), {x})
    BY StoreFields
       DEF Consistent, DropSlots, MutateInPlace, MarkDirty, Touch, Bump, MapSet, Store
  <2>3. Consistent(DropSlots(g, {x})) /\ Consistent(Bump(DropSlots(g, {x}), {x}))
    BY DropConsistent, BumpConsistent
  <2>4. \A r, q : Consistent(r) /\ DropSlots(q, {x}) = r => Consistent(DeleteKeys(q, {x}))
    <3> SUFFICES ASSUME NEW r, NEW q, Consistent(r), DropSlots(q, {x}) = r
                 PROVE  Consistent(Bump(r, {y \in {x} : Present(q, y)}))
      BY DEF DeleteKeys
    <3>1. {y \in {x} : Present(q, y)} \in SUBSET Slots
      OBVIOUS
    <3> QED
      BY <3>1, BumpConsistent
  <2> QED
    BY <1>1, <1>3, <2>1, <2>2, <2>3, <2>4 DEF DropIfEmpty
<1> QED
  BY <1>2, <1>3

\* SREM and SPOP.
LEMMA SremSpopConsistent ==
    ASSUME NEW s, Consistent(s), NEW t, NEW x \in Slots, NEW M \in SUBSET Elems,
           NEW o \in CmdSrem(s, t, x, M) \cup CmdSpop(s, t, x, M)
    PROVE  Consistent(o)
<1> DEFINE p == CheckExpired(s, t, {x})
           g == Get(p, t, x)
<1>1. Consistent(p) /\ Consistent(g)
  BY CheckExpiredConsistent, GetConsistent
<1>2. CASE WrongType(p, x, "set") \/ ~Present(g, x)
  BY <1>1, <1>2 DEF CmdSrem, CmdSpop
<1>3. CASE ~WrongType(p, x, "set") /\ Present(g, x)
  <2> DEFINE v == g.val[x] \ M
             m == MutateInPlace(g, x, v)
  <2>1. g.typ[x] = "set" /\ v \in SUBSET Elems
    BY <1>3, SetFetched
  <2>2. Consistent(DropIfEmpty(m, x)) /\ Consistent(DropIfEmpty(MarkDirty(m, x), x))
    BY <1>1, <1>3, <2>1, DropIfEmptyConsistent
  <2>3. o = DropIfEmpty(m, x) \/ o = DropIfEmpty(MarkDirty(m, x), x)
    BY <1>3 DEF CmdSrem, CmdSpop
  <2> QED
    BY <2>2, <2>3
<1> QED
  BY <1>2, <1>3

-----------------------------------------------------------------------------
(* Every handler bumps what it changes: without a memory limit in full     *)
(* (Tidy), with one at least what vanishes (NoLoss).                       *)

\* A slot that has just been checked carries no deadline that has passed.
LEMMA CheckedFresh ==
    ASSUME NEW s, NEW t, NEW x \in Slots
    PROVE  /\ ~IsExpired(CheckExpired(s, t, {x}), t, x)
           /\ ~IsExpired(Get(s, t, x), t, x)
  BY DEF Get, Touch, CheckExpired, DropSlots, Store, IsExpired, HasExpiry

\* Reads change nothing a client sees.
LEMMA ReadsTidy ==
    ASSUME NEW s, NEW t, NEW x \in Slots, NEW ty, NEW D,
           NEW o \in CmdExists(s, t, x) \cup CmdRead(s, t, x, ty) \cup CmdKeys(s, t, D)
    PROVE  Tidy(s, o, t) /\ NoLoss(s, o, t)
  BY CheckExpiredTidy, GetTidy, KeysInDbTidy, TidyTrans, NoLossTrans
     DEF CmdExists, CmdRead, CmdKeys

\* After a write that bumped the key, any deadline may be recorded.
LEMMA TtlOptionsTidy ==
    ASSUME NEW s, NEW t, NEW x \in Slots, NEW keep, NEW prev, NEW ex,
           Present(s, x), x \in s.mod
    PROVE  Tidy(s, ApplyTtlOptions(s, t, x, keep, prev, ex), t)
  BY DeleteTidy, SetExpireTidy, TidyRefl DEF ApplyTtlOptions, RemoveExpiry

\* The same when the write may have been refused: the options never hide a key
\* without deleting it.
LEMMA TtlOptionsNoLoss ==
    ASSUME NEW s, NEW t \in Int, NEW x \in Slots, NEW keep,
           NEW prev \in DeadlineOptions, NEW ex \in DeadlineOptions,
           prev = NoDeadline \/ ~(t >= prev)
    PROVE  NoLoss(s, ApplyTtlOptions(s, t, x, keep, prev, ex), t)
<1>1. prev > 0 => ~(t >= prev)
  BY DEF NoDeadline
<1>2. ex # NoDeadline /\ ~(ex <= t) => ~(t >= ex)
  BY DEF DeadlineOptions, NoDeadline
<1> QED
  BY <1>1, <1>2, DeleteTidy, SetExpireNoLoss, TidyRefl DEF ApplyTtlOptions, RemoveExpiry

\* SET bumps what it changes.
LEMMA SetCommandTidy ==
    ASSUME ~MemoryLimited, NEW s, NEW t, NEW x \in Slots, NEW v \in Strings, NEW cond,
           NEW keep, NEW ex, NEW o \in CmdSet(s, t, x, v, cond, keep, ex)
    PROVE  Tidy(s, o, t)
<1> DEFINE p == CheckExpired(s, t, {x})
           g == Get(p, t, x)
           prev == IF keep THEN g.ttl[x] ELSE NoDeadline
<1>1. Tidy(s, p, t) /\ Tidy(s, g, t)
  BY CheckExpiredTidy, GetTidy, TidyTrans
<1>2. CASE o \in {p, g}
  BY <1>1, <1>2
<1>3. CASE \E q \in SetOutcomes(g, t, x, v, "string") :
              o = ApplyTtlOptions(q, t, x, keep, prev, ex)
  BY <1>1, <1>3, SetUnlimited, TtlOptionsTidy, TidyTrans, AbsentIsNoValue
<1> QED
  BY <1>2, <1>3 DEF CmdSet

\* SET with a memory limit.
LEMMA SetCommandNoLoss ==
    ASSUME NEW s, Consistent(s), NEW t \in Int, NEW x \in Slots, NEW v \in Strings, NEW cond,
           NEW keep, NEW ex \in DeadlineOptions, NEW o \in CmdSet(s, t, x, v, cond, keep, ex)
    PROVE  NoLoss(s, o, t)
<1> DEFINE p == CheckExpired(s, t, {x})
           g == Get(p, t, x)
           prev == IF keep THEN g.ttl[x] ELSE NoDeadline
<1>1. NoLoss(s, p, t) /\ NoLoss(s, g, t)
  BY CheckExpiredTidy, GetTidy, NoLossTrans
<1>2. prev \in DeadlineOptions /\ (prev = NoDeadline \/ ~(t >= prev))
  <2>1. Consistent(g)
    BY CheckExpiredConsistent, GetConsistent
  <2>2. g.ttl[x] \in DeadlineOptions
    BY <2>1, StoreFields DEF Consistent, DeadlineOptions
  <2>3. g.ttl[x] = NoDeadline \/ ~(t >= g.ttl[x])
    BY CheckedFresh DEF IsExpired, HasExpiry
  <2> QED
    BY <2>2, <2>3 DEF DeadlineOptions
<1>3. CASE o \in {p, g}
  BY <1>1, <1>3
<1>4. CASE \E q \in SetOutcomes(g, t, x, v, "string") :
              o = ApplyTtlOptions(q, t, x, keep, prev, ex)
  BY <1>1, <1>2, <1>4, SetNoLoss, TtlOptionsNoLoss, NoLossTrans, AbsentIsNoValue
<1> QED
  BY <1>3, <1>4 DEF CmdSet

\* The string commands without options.
LEMMA StringsTidy ==
    ASSUME NEW s, NEW t, NEW x \in Slots, NEW v \in Strings,
           NEW o \in CmdUpdate(s, t, x, v) \cup CmdSetnx(s, t, x, v)
    PROVE  NoLoss(s, o, t) /\ (~MemoryLimited => Tidy(s, o, t))
<1> DEFINE p == CheckExpired(s, t, {x})
           g == Get(p, t, x)
<1>1. /\ Tidy(s, p, t) /\ NoLoss(s, p, t)
      /\ Tidy(s, g, t) /\ NoLoss(s, g, t)
  BY CheckExpiredTidy, GetTidy, TidyTrans, NoLossTrans
<1>2. CASE o \in {p, g}
  BY <1>1, <1>2
<1>3. CASE \E r \in {p, g} : o \in SetOutcomes(r, t, x, v, "string")
  BY <1>1, <1>3, SetNoLoss, SetUnlimited, TidyTrans, NoLossTrans, AbsentIsNoValue
<1> QED
  BY <1>2, <1>3 DEF CmdUpdate, CmdSetnx

\* MSET bumps each key it writes.
LEMMA MsetTidy ==
    ASSUME NEW s, NEW t, NEW x \in Slots, NEW v \in Strings, NEW y \in Slots,
           NEW w \in Strings, NEW o \in CmdMset(s, t, x, v, y, w)
    PROVE  NoLoss(s, o, t) /\ (~MemoryLimited => Tidy(s, o, t))
<1>1. ASSUME NEW r, NEW z \in Slots, NEW u \in Strings, NEW q \in MsetPair(r, t, z, u)
      PROVE  NoLoss(r, q, t) /\ (~MemoryLimited => Tidy(r, q, t))
  <2>1. PICK a \in SetOutcomes(r, t, z, u, "string") : q = SetExpireAt(a, z, NoDeadline)
    BY DEF MsetPair, RemoveExpiry
  <2>2. NoLoss(r, a, t) /\ NoLoss(a, q, t)
    BY <2>1, SetNoLoss, SetExpireNoLoss, AbsentIsNoValue
  <2>3. ASSUME ~MemoryLimited
        PROVE  Tidy(r, a, t) /\ Tidy(a, q, t)
    BY <2>1, <2>3, SetUnlimited, SetExpireTidy, AbsentIsNoValue
  <2> QED
    BY <2>2, <2>3, NoLossTrans, TidyTrans
<1> QED
  BY <1>1, NoLossTrans, TidyTrans DEF CmdMset

\* GETDEL and DEL bump what they delete.
LEMMA RemovalsTidy ==
    ASSUME NEW s, NEW t, NEW x \in Slots, NEW S,
           NEW o \in CmdGetdel(s, t, x) \cup CmdDel(s, S)
    PROVE  Tidy(s, o, t) /\ NoLoss(s, o, t)
  BY CheckExpiredTidy, GetTidy, DeleteTidy, TidyTrans, NoLossTrans DEF CmdGetdel, CmdDel

\* EXPIRE and PERSIST bump no version and need not: what they do to a key that is
\* there shows only when time passes.
LEMMA ExpireTidy ==
    ASSUME NEW s, NEW t \in Int, NEW x \in Slots, NEW deadline \in Nat \ {0},
           NEW o \in CmdExpire(s, t, x, deadline) \cup CmdPersist(s, t, x)
    PROVE  Tidy(s, o, t) /\ NoLoss(s, o, t)
<1> DEFINE p == CheckExpired(s, t, {x})
<1>1. Tidy(s, p, t) /\ NoLoss(s, p, t)
  BY CheckExpiredTidy
<1>2. CASE o = p
  BY <1>1, <1>2
<1>3. CASE o = DeleteKeys(p, {x})
  BY <1>1, <1>3, DeleteTidy, TidyTrans, NoLossTrans
<1>4. CASE \E dl : /\ o = SetExpireAt(p, x, dl) /\ Present(p, x)
                   /\ dl = NoDeadline \/ ~(t >= dl)
  <2>1. Visible(p, t, x)
    BY <1>4, CheckedFresh DEF Visible
  <2> QED
    BY <1>1, <1>4, <2>1, SetExpireTidy, SetExpireNoLoss, TidyTrans, NoLossTrans
<1> QED
  BY <1>2, <1>3, <1>4 DEF CmdExpire, CmdPersist, RemoveExpiry

\* RENAME bumps the old name, by deleting it, and the new one, by writing it.
LEMMA RenameTidy ==
    ASSUME NEW s, Consistent(s), NEW t \in Int, NEW from \in Slots, NEW to \in Slots,
           NEW o \in RenameOutcomes(s, t, from, to)
    PROVE  NoLoss(s, o, t) /\ (~MemoryLimited => Tidy(s, o, t))
<1> DEFINE p == CheckExpired(s, t, {from})
           d == DeleteKeys(p, {from})
<1>1. Tidy(s, p, t) /\ NoLoss(s, p, t) /\ Tidy(s, d, t) /\ NoLoss(s, d, t)
  BY CheckExpiredTidy, DeleteTidy, TidyTrans, NoLossTrans
<1>2. CASE ~Present(p, from)
  BY <1>1, <1>2 DEF RenameOutcomes
<1>3. CASE Present(p, from)
  <2>1. PICK q \in SetOutcomes(d, t, to, p.val[from], p.typ[from]) :
            o = IF p.ttl[from] > 0 THEN SetExpireAt(q, to, p.ttl[from]) ELSE q
    BY <1>3 DEF RenameOutcomes
  <2>2. p.val[from] # Absent
    BY <1>3 DEF Present
  <2>3. p.ttl[from] > 0 => ~(t >= p.ttl[from])
    BY CheckedFresh DEF IsExpired, HasExpiry, NoDeadline
  <2>4. NoLoss(d, q, t) /\ NoLoss(q, o, t)
    BY <2>1, <2>2, <2>3, SetNoLoss, SetExpireNoLoss, TidyRefl
  <2>5. ASSUME ~MemoryLimited
        PROVE  Tidy(d, q, t) /\ Tidy(q, o, t)
    BY <2>1, <2>2, <2>5, SetUnlimited, SetExpireTidy, TidyRefl
  <2> QED
    BY <1>1, <2>4, <2>5, NoLossTrans, TidyTrans
<1> QED
  BY <1>2, <1>3

\* RENAMENX looks at the target first.
LEMMA RenamesTidy ==
    ASSUME NEW s, Consistent(s), NEW t \in Int, NEW from \in Slots, NEW to \in Slots,
           NEW o \in CmdRename(s, t, from, to) \cup CmdRenamenx(s, t, from, to)
    PROVE  NoLoss(s, o, t) /\ (~MemoryLimited => Tidy(s, o, t))
<1> DEFINE p == CheckExpired(s, t, {from})
           q == CheckExpired(p, t, {to})
<1>1. /\ Consistent(p) /\ Tidy(s, p, t) /\ NoLoss(s, p, t)
      /\ Consistent(q) /\ Tidy(s, q, t) /\ NoLoss(s, q, t)
  BY CheckExpiredConsistent, CheckExpiredTidy, TidyTrans, NoLossTrans
<1>2. CASE o \in {p, q}
  BY <1>1, <1>2
<1>3. CASE \E r \in {s, q} : o \in RenameOutcomes(r, t, from, to)
  BY <1>1, <1>3, RenameTidy, TidyTrans, NoLossTrans
<1> QED
  BY <1>2, <1>3 DEF CmdRename, CmdRenamenx

\* Changing the members of a collection in place.
LEMMA MutateTidy ==
    ASSUME NEW s, NEW t, NEW x \in Slots, NEW v, v # Absent, Present(s, x)
    PROVE  LET m == MutateInPlace(s, x, v)
           IN  /\ NoLoss(s, m, t)
               /\ TimersOk(s) => TimersOk(m)
               /\ v = s.val[x] \/ x \in s.mod => Tidy(s, m, t)
               /\ \A o : Tidy(m, o, t) /\ x \in o.mod => Tidy(s, o, t)
  BY DEF Tidy, Noted, NoLoss, TimersOk, MutateInPlace, MapSet, Store, VisibleValue,
         Visible, Present, IsExpired, HasExpiry

\* SADD changes the set before it bumps the version.
LEMMA SaddTidy ==
    ASSUME NEW s, Consistent(s), NEW t, NEW x \in Slots, NEW M \in NonEmptySets,
           NEW o \in CmdSadd(s, t, x, M)
    PROVE  NoLoss(s, o, t) /\ (~MemoryLimited => Tidy(s, o, t))
<1> DEFINE p == CheckExpired(s, t, {x})
           g == Get(p, t, x)
           grown == g.val[x] \cup M
           m == MutateInPlace(g, x, grown)
<1>1. /\ Tidy(s, p, t) /\ NoLoss(s, p, t)
      /\ Tidy(s, g, t) /\ NoLoss(s, g, t)
  BY CheckExpiredTidy, GetTidy, TidyTrans, NoLossTrans
<1>2. CASE WrongType(p, x, "set")
  BY <1>1, <1>2 DEF CmdSadd
<1>3. CASE ~WrongType(p, x, "set") /\ ~Present(g, x)
  <2>1. o \in SetOutcomes(g, t, x, M, "set") /\ M # Absent
    BY <1>3, AbsentIsNoValue DEF CmdSadd, NonEmptySets
  <2> QED
    BY <1>1, <2>1, SetNoLoss, SetUnlimited, TidyTrans, NoLossTrans
<1>4. CASE ~WrongType(p, x, "set") /\ Present(g, x)
  <2>1. o \in SetOutcomes(m, t, x, grown, "set")
    BY <1>4 DEF CmdSadd
  <2>2. grown # Absent
    BY <1>4, SetFetched, AbsentIsNoValue DEF NonEmptySets
  <2>3. NoLoss(g, m, t) /\ NoLoss(m, o, t)
    BY <1>4, <2>1, <2>2, MutateTidy, SetNoLoss
  <2>4. ASSUME ~MemoryLimited
        PROVE  Tidy(g, o, t)
    BY <1>4, <2>1, <2>2, <2>4, MutateTidy, SetUnlimited
  <2> QED
    BY <1>1, <2>3, <2>4, TidyTrans, NoLossTrans
<1> QED
  BY <1>2, <1>3, <1>4

\* SREM bumps only when a member was removed, SPOP always.
LEMMA SremSpopTidy ==
    ASSUME NEW s, Consistent(s), NEW t, NEW x \in Slots, NEW M \in SUBSET Elems,
           NEW o \in CmdSrem(s, t, x, M) \cup CmdSpop(s, t, x, M)
    PROVE  Tidy(s, o, t) /\ NoLoss(s, o, t)
<1> DEFINE p == CheckExpired(s, t, {x})
           g == Get(p, t, x)
           v == g.val[x] \ M
           m == MutateInPlace(g, x, v)
           k == MarkDirty(m, x)
<1>1. /\ Tidy(s, p, t) /\ NoLoss(s, p, t)
      /\ Tidy(s, g, t) /\ NoLoss(s, g, t)
  BY CheckExpiredTidy, GetTidy, TidyTrans, NoLossTrans
<1>2. CASE WrongType(p, x, "set") \/ ~Present(g, x)
  BY <1>1, <1>2 DEF CmdSrem, CmdSpop
<1>3. CASE ~WrongType(p, x, "set") /\ Present(g, x)
  <2>1. v \in SUBSET Elems /\ g.val[x] \in SUBSET Elems /\ v # Absent
    BY <1>3, SetFetched, AbsentIsNoValue
  <2>2. Tidy(m, k, t) /\ NoLoss(m, k, t) /\ x \in k.mod
    <3>1. Tidy(m, Touch(m, x), t) /\ NoLoss(m, Touch(m, x), t)
      BY TouchTidy
    <3>2. Tidy(Touch(m, x), k, t) /\ NoLoss(Touch(m, x), k, t)
      BY BumpTidy DEF MarkDirty
    <3>3. x \in k.mod
      BY DEF MarkDirty, Bump, Store
    <3> QED
      BY <3>1, <3>2, <3>3, TidyTrans, NoLossTrans
  <2>3. Tidy(g, k, t) /\ NoLoss(g, k, t)
    <3>1. /\ NoLoss(g, m, t)
          /\ Tidy(m, k, t) /\ x \in k.mod => Tidy(g, k, t)
      BY <1>3, <2>1, MutateTidy
    <3> QED
      BY <2>2, <3>1, NoLossTrans
  <2>4. ASSUME g.val[x] \cap M = {}
        PROVE  Tidy(g, m, t) /\ NoLoss(g, m, t)
    <3>1. v = g.val[x]
      BY <2>4
    <3> QED
      BY <1>3, <2>1, <3>1, MutateTidy
  <2>5. o = DropIfEmpty(k, x) \/ (o = DropIfEmpty(m, x) /\ g.val[x] \cap M = {})
    BY <1>3 DEF CmdSrem, CmdSpop
  <2>6. \A r : Tidy(r, DropIfEmpty(r, x), t) /\ NoLoss(r, DropIfEmpty(r, x), t)
    BY DeleteTidy, TidyRefl DEF DropIfEmpty
  <2> QED
    BY <1>1, <2>3, <2>4, <2>5, <2>6, TidyTrans, NoLossTrans
<1> QED
  BY <1>2, <1>3

-----------------------------------------------------------------------------
(* With a limit and a policy that evicts, Noted is lost by SADD only: a    *)
(* refused write has purged what had expired, so that the options that     *)
(* follow it bring nothing back.                                           *)

\* SET with its options.
LEMMA SetCommandNoted ==
    ASSUME Policy # "noeviction", NEW s, Consistent(s), NEW t \in Int, NEW x \in Slots,
           NEW v \in Strings, NEW cond, NEW keep, NEW ex \in DeadlineOptions,
           NEW o \in CmdSet(s, t, x, v, cond, keep, ex)
    PROVE  Noted(s, o, t)
<1> DEFINE p == CheckExpired(s, t, {x})
           g == Get(p, t, x)
           prev == IF keep THEN g.ttl[x] ELSE NoDeadline
<1>1. Noted(s, p, t) /\ Noted(s, g, t)
  BY CheckExpiredTidy, GetTidy, NotedTrans DEF Tidy
<1>2. prev > 0 => ~(t >= prev)
  BY CheckedFresh DEF IsExpired, HasExpiry, NoDeadline
<1>3. ex # NoDeadline /\ ~(ex <= t) => ~(t >= ex)
  BY DEF DeadlineOptions, NoDeadline
<1>4. CASE o \in {p, g}
  BY <1>1, <1>4
<1>5. CASE \E q \in SetOutcomes(g, t, x, v, "string") :
              o = ApplyTtlOptions(q, t, x, keep, prev, ex)
  <2>1. PICK q \in SetOutcomes(g, t, x, v, "string") :
            o = ApplyTtlOptions(q, t, x, keep, prev, ex)
    BY <1>5
  <2>2. Noted(g, q, t) /\ Accounted(q, t, x)
    BY SetNoted, AbsentIsNoValue
  <2> HIDE DEF p, g, prev
  <2>3. Noted(q, o, t)
    BY <1>2, <1>3, <2>1, <2>2, SetExpireNoted, DeleteTidy, TidyRefl
       DEF ApplyTtlOptions, RemoveExpiry, Tidy
  <2> QED
    BY <1>1, <2>2, <2>3, NotedTrans
<1> QED
  BY <1>4, <1>5 DEF CmdSet

\* The string commands without options.
LEMMA StringsNoted ==
    ASSUME Policy # "noeviction", NEW s, NEW t, NEW x \in Slots, NEW v \in Strings,
           NEW o \in CmdUpdate(s, t, x, v) \cup CmdSetnx(s, t, x, v)
    PROVE  Noted(s, o, t)
<1> DEFINE p == CheckExpired(s, t, {x})
           g == Get(p, t, x)
<1>1. Noted(s, p, t) /\ Noted(s, g, t)
  BY CheckExpiredTidy, GetTidy, NotedTrans DEF Tidy
<1>2. o \in {p, g} \/ \E r \in {p, g} : o \in SetOutcomes(r, t, x, v, "string")
  BY DEF CmdUpdate, CmdSetnx
<1> HIDE DEF p, g
<1> QED
  BY <1>1, <1>2, SetNoted, NotedTrans, AbsentIsNoValue

\* MSET.
LEMMA MsetNoted ==
    ASSUME Policy # "noeviction", NEW s, NEW t, NEW x \in Slots, NEW v \in Strings,
           NEW y \in Slots, NEW w \in Strings, NEW o \in CmdMset(s, t, x, v, y, w)
    PROVE  Noted(s, o, t)
<1>1. ASSUME NEW r, NEW z \in Slots, NEW u \in Strings, NEW q \in MsetPair(r, t, z, u)
      PROVE  Noted(r, q, t)
  <2>1. PICK a \in SetOutcomes(r, t, z, u, "string") : q = SetExpireAt(a, z, NoDeadline)
    BY DEF MsetPair, RemoveExpiry
  <2> QED
    BY <2>1, SetNoted, SetExpireNoted, NotedTrans, AbsentIsNoValue
<1> QED
  BY <1>1, NotedTrans DEF CmdMset

\* RENAME, also when the write to the new name is refused.
LEMMA RenameNoted ==
    ASSUME Policy # "noeviction", NEW s, NEW t \in Int, NEW from \in Slots, NEW to \in Slots,
           NEW o \in RenameOutcomes(s, t, from, to)
    PROVE  Noted(s, o, t)
<1> DEFINE p == CheckExpired(s, t, {from})
           d == DeleteKeys(p, {from})
<1>1. Noted(s, p, t) /\ Noted(s, d, t)
  BY CheckExpiredTidy, DeleteTidy, NotedTrans DEF Tidy
<1>2. CASE ~Present(p, from)
  BY <1>1, <1>2 DEF RenameOutcomes
<1>3. CASE Present(p, from)
  <2>1. PICK q \in SetOutcomes(d, t, to, p.val[from], p.typ[from]) :
            o = IF p.ttl[from] > 0 THEN SetExpireAt(q, to, p.ttl[from]) ELSE q
    BY <1>3 DEF RenameOutcomes
  <2>2. p.val[from] # Absent
    BY <1>3 DEF Present
  <2>3. p.ttl[from] > 0 => ~(t >= p.ttl[from])
    BY CheckedFresh DEF IsExpired, HasExpiry, NoDeadline
  <2>4. Noted(d, q, t) /\ Accounted(q, t, to)
    BY <2>2, SetNoted
  <2>5. Noted(q, o, t)
    BY <2>1, <2>3, <2>4, SetExpireNoted, TidyRefl DEF Tidy
  <2> QED
    BY <1>1, <2>4, <2>5, NotedTrans
<1> QED
  BY <1>2, <1>3

\* RENAME and RENAMENX.
LEMMA RenamesNoted ==
    ASSUME Policy # "noeviction", NEW s, NEW t \in Int, NEW from \in Slots, NEW to \in Slots,
           NEW o \in CmdRename(s, t, from, to) \cup CmdRenamenx(s, t, from, to)
    PROVE  Noted(s, o, t)
<1> DEFINE p == CheckExpired(s, t, {from})
           q == CheckExpired(p, t, {to})
<1>1. Noted(s, p, t) /\ Noted(s, q, t)
  BY CheckExpiredTidy, NotedTrans DEF Tidy
<1>2. o \in {p, q} \/ \E r \in {s, q} : o \in RenameOutcomes(r, t, from, to)
  BY DEF CmdRename, CmdRenamenx
<1> HIDE DEF p, q
<1> QED
  BY <1>1, <1>2, RenameNoted, NotedTrans

\* A SADD whose write is refused leaves its members in the Set unnoticed, and
\* no other trace.
LEMMA SaddNoted ==
    ASSUME Policy # "noeviction", NEW s, Consistent(s), NEW t, NEW x \in Slots,
           NEW M \in NonEmptySets, NEW o \in CmdSadd(s, t, x, M)
    PROVE  \/ Noted(s, o, t)
           \/ /\ \A y \in Slots \ {x} : y \in o.mod \/ VisibleValue(o, t, y) = VisibleValue(s, t, y)
              /\ s.typ[x] = "set" /\ o.val[x] = s.val[x] \cup M
<1> DEFINE p == CheckExpired(s, t, {x})
           g == Get(p, t, x)
           grown == g.val[x] \cup M
           m == MutateInPlace(g, x, grown)
<1>1. Noted(s, p, t) /\ Noted(s, g, t)
  BY CheckExpiredTidy, GetTidy, NotedTrans DEF Tidy
<1>2. CASE WrongType(p, x, "set")
  BY <1>1, <1>2 DEF CmdSadd
<1>3. CASE ~WrongType(p, x, "set") /\ ~Present(g, x)
  <2>1. o \in SetOutcomes(g, t, x, M, "set") /\ M # Absent
    BY <1>3, AbsentIsNoValue DEF CmdSadd, NonEmptySets
  <2> QED
    BY <1>1, <2>1, SetNoted, NotedTrans
<1>4. CASE ~WrongType(p, x, "set") /\ Present(g, x)
  <2>1. o \in SetOutcomes(m, t, x, grown, "set")
    BY <1>4 DEF CmdSadd
  <2>2. grown # Absent
    BY <1>4, SetFetched, AbsentIsNoValue DEF NonEmptySets
  <2>3. Noted(m, o, t) /\ (x \in o.mod \/ ~Present(o, x) \/ ~IsExpired(o, t, x))
    BY <2>1, <2>2, SetNoted DEF Accounted
  <2>4. \A y \in Slots \ {x} : y \in o.mod \/ VisibleValue(o, t, y) = VisibleValue(g, t, y)
    <3>1. \A y \in Slots \ {x} : VisibleValue(m, t, y) = VisibleValue(g, t, y)
      BY DEF MutateInPlace, MapSet, Store, VisibleValue, Visible, Present, IsExpired, HasExpiry
    <3> HIDE DEF m, g
    <3> QED
      BY <2>3, <3>1 DEF Noted
  <2>5. g.mod \subseteq o.mod
    <3>1. m.mod = g.mod
      BY DEF MutateInPlace, Store
    <3> HIDE DEF m, g
    <3> QED
      BY <2>3, <3>1 DEF Noted
  <2>6. s.val[x] = g.val[x] /\ s.typ[x] = g.typ[x] /\ g.typ[x] = "set"
    <3>1. Consistent(p) /\ Consistent(g)
      BY CheckExpiredConsistent, GetConsistent
    <3>2. g.val[x] = p.val[x] /\ g.typ[x] = p.typ[x] /\ p.val[x] = s.val[x] /\ p.typ[x] = s.typ[x]
      BY <1>4 DEF Get, Touch, CheckExpired, DropSlots, Store, Present
    <3> HIDE DEF p, g
    <3> QED
      BY <1>4, <3>1, <3>2 DEF WrongType, Consistent, MapsConsistent
  <2>7. x \notin o.mod => VisibleValue(o, t, x) = VisibleValue(m, t, x)
    BY <2>3 DEF Noted
  <2>8. VisibleValue(m, t, x) = grown
    <3>1. ~IsExpired(g, t, x)
      BY CheckedFresh
    <3> HIDE DEF g, grown
    <3> QED
      BY <2>2, <3>1 DEF MutateInPlace, MapSet, Store, VisibleValue, Visible, Present, IsExpired,
         HasExpiry
  <2>9. x \notin o.mod => o.val[x] = grown
    <3> HIDE DEF m, grown
    <3> QED
      BY <2>2, <2>7, <2>8 DEF VisibleValue
  <2>10. CASE x \in o.mod
    BY <1>1, <2>4, <2>5, <2>10, NotedTrans DEF Noted
  <2>11. CASE x \notin o.mod
    <3>1. ASSUME NEW y \in Slots \ {x}
          PROVE  y \in o.mod \/ VisibleValue(o, t, y) = VisibleValue(s, t, y)
      BY <1>1, <2>4, <2>5 DEF Noted
    <3> QED
      BY <2>6, <2>9, <2>11, <3>1
  <2> QED
    BY <2>10, <2>11
<1> QED
  BY <1>2, <1>3, <1>4

-----------------------------------------------------------------------------
\* Under volatile-lru a write leaves every other key without a deadline as it
\* was.
LEMMA WritesKeep ==
    ASSUME Policy = "volatile-lru", NEW s, NEW t, NEW x, NEW v, NEW M,
           NEW cond, NEW keep, NEW ex,
           NEW o \in CmdSet(s, t, x, v, cond, keep, ex) \cup CmdUpdate(s, t, x, v)
                     \cup CmdSetnx(s, t, x, v) \cup CmdSadd(s, t, x, M)
    PROVE  Kept(s, o, x)
<1> DEFINE p == CheckExpired(s, t, {x})
           g == Get(p, t, x)
           grown == g.val[x] \cup M
           m == MutateInPlace(g, x, grown)
           prev == IF keep THEN g.ttl[x] ELSE NoDeadline
<1>1. Kept(s, p, x) /\ Kept(s, g, x) /\ Kept(s, m, x)
  <2>1. Kept(s, p, x) /\ Kept(p, g, x)
    BY CallsKeep
  <2>2. Kept(g, m, x)
    BY CallsKeep
  <2> HIDE DEF p, g, m
  <2> QED
    BY <2>1, <2>2, KeptTrans
<1>2. \A q : Kept(q, ApplyTtlOptions(q, t, x, keep, prev, ex), x)
  BY CallsKeep DEF ApplyTtlOptions, RemoveExpiry
<1>3. \/ o \in {p, g}
      \/ \E q \in SetOutcomes(g, t, x, v, "string") :
             o = ApplyTtlOptions(q, t, x, keep, prev, ex)
      \/ \E r \in {p, g, m} : \E u, ty : o \in SetOutcomes(r, t, x, u, ty)
  BY DEF CmdSet, CmdUpdate, CmdSetnx, CmdSadd
<1> HIDE DEF p, g, m, prev
<1> QED
  BY <1>1, <1>2, <1>3, SetKeeps, KeptTrans
=============================================================================
