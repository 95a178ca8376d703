------------------------- MODULE PersistenceProofs --------------------------
(***************************************************************************)
(* Theorems about Persistence for all values of its constants, and for     *)
(* histories and logs of any length.  Three inductive invariants carry     *)
(* them: PInv (types, and maps that agree in the live store and in the     *)
(* snapshot), Mirrors (replay of the log, at whatever time, agrees with    *)
(* the store on the keys that no deadline has influenced) and Saved (the   *)
(* snapshot shows what the store shows, now and later, while nothing       *)
(* counts as changed).  What a run of commands does is proved by induction *)
(* on its length: UpTo turns the well-foundedness of the numbers into      *)
(* induction with a set for the predicate.                                 *)
(***************************************************************************)
EXTENDS Persistence, KeyspaceProofs, SequenceTheorems, WellFoundedInduction

-----------------------------------------------------------------------------
(* Runs of commands. *)

\* Induction up to a bound, with a set for the predicate: the least number
\* that is missing cannot exist.
LEMMA UpTo ==
    ASSUME NEW N \in Nat, NEW P, 0 \in P, \A n \in 0 .. N - 1 : n \in P => n + 1 \in P
    PROVE  \A n \in 0 .. N : n \in P
<1> DEFINE T == {n \in Nat : n <= N /\ n \notin P}
<1>1. SUFFICES ASSUME T # {} PROVE FALSE
  OBVIOUS
<1>2. IsWellFoundedOn(OpToRel(<, Nat), Nat)
  BY NatLessThanWellFounded, Zenon
<1>3. T \subseteq Nat
  OBVIOUS
<1> HIDE DEF T
<1>4. PICK n \in T : \A m \in T : <<m, n>> \notin OpToRel(<, Nat)
  BY <1>1, <1>2, <1>3, WFMin, Zenon
<1>5. \A m \in T : ~(m < n)
  BY <1>3, <1>4 DEF OpToRel
<1>6. n \in Nat /\ n <= N /\ n \notin P
  BY <1>4 DEF T
<1>7. n \in 1 .. N /\ n - 1 \in 0 .. N - 1
  BY <1>6
<1>8. n - 1 \notin T
  BY <1>5, <1>6
<1>9. n - 1 \in P
  BY <1>7, <1>8 DEF T
<1> QED
  BY <1>6, <1>7, <1>9

\* The stores in between.
IsRun(g, s, t, d, cmds) ==
    g = [i \in 0 .. Len(cmds) |-> IF i = 0 THEN s ELSE After(g[i - 1], t, d, cmds[i])]

\* The same, step by step.
LEMMA RunSteps ==
    ASSUME NEW g, NEW s, NEW t, NEW d, NEW cmds, Len(cmds) \in Nat, IsRun(g, s, t, d, cmds)
    PROVE  /\ g[0] = s
           /\ \A i \in 0 .. Len(cmds) - 1 : g[i + 1] = After(g[i], t, d, cmds[i + 1])
<1>1. g[0] = s
  BY DEF IsRun
<1>2. ASSUME NEW i \in 0 .. Len(cmds) - 1 PROVE g[i + 1] = After(g[i], t, d, cmds[i + 1])
  <2>1. i + 1 \in 0 .. Len(cmds) /\ i + 1 # 0 /\ i + 1 - 1 = i
    OBVIOUS
  <2> QED
    BY <2>1 DEF IsRun
<1> QED
  BY <1>1, <1>2

\* The recursive definition of RunAll has a solution,
LEMMA RunExists ==
    ASSUME NEW s, NEW t, NEW d, NEW cmds \in Seq(RequestType)
    PROVE  \E g : IsRun(g, s, t, d, cmds)
<1> DEFINE Upto(g, n) ==
               g = [i \in 0 .. n |-> IF i = 0 THEN s ELSE After(g[i - 1], t, d, cmds[i])]
           P == {n \in Nat : \E g : Upto(g, n)}
<1>1. Len(cmds) \in Nat
  OBVIOUS
<1>2. 0 \in P
  <2>1. Upto([i \in 0 .. 0 |-> s], 0)
    OBVIOUS
  <2> QED
    BY <2>1
<1>3. ASSUME NEW n \in 0 .. Len(cmds) - 1, n \in P PROVE n + 1 \in P
  <2>1. PICK g : Upto(g, n)
    BY <1>3
  <2> DEFINE h == [i \in 0 .. n + 1 |-> IF i = n + 1 THEN After(g[n], t, d, cmds[n + 1]) ELSE g[i]]
  <2>2. n + 1 \in Nat /\ Upto(h, n + 1)
    BY <2>1
  <2> HIDE DEF h, Upto
  <2> QED
    BY <2>2
<1>4. \A n \in 0 .. Len(cmds) : n \in P
  <2> HIDE DEF P
  <2> QED
    BY <1>1, <1>2, <1>3, UpTo
<1>5. Len(cmds) \in P
  BY <1>1, <1>4
<1> QED
  BY <1>5 DEF IsRun

\* only one,
LEMMA RunUnique ==
    ASSUME NEW s, NEW t, NEW d, NEW cmds \in Seq(RequestType),
           NEW g, IsRun(g, s, t, d, cmds), NEW h, IsRun(h, s, t, d, cmds)
    PROVE  \A i \in 0 .. Len(cmds) : g[i] = h[i]
<1> DEFINE P == {n \in Nat : g[n] = h[n]}
<1>1. Len(cmds) \in Nat
  OBVIOUS
<1>2. 0 \in P
  BY DEF IsRun
<1>3. ASSUME NEW n \in 0 .. Len(cmds) - 1, n \in P PROVE n + 1 \in P
  BY <1>1, <1>3 DEF IsRun
<1>4. \A n \in 0 .. Len(cmds) : n \in P
  <2> HIDE DEF P
  <2> QED
    BY <1>1, <1>2, <1>3, UpTo
<1> QED
  BY <1>4

\* and RunAll is its last store.
LEMMA RunIs ==
    ASSUME NEW s, NEW t, NEW d, NEW cmds \in Seq(RequestType), NEW g, IsRun(g, s, t, d, cmds)
    PROVE  RunAll(s, t, d, cmds) = g[Len(cmds)]
<1> DEFINE h == CHOOSE h : IsRun(h, s, t, d, cmds)
<1>1. RunAll(s, t, d, cmds) = h[Len(cmds)]
  BY DEF RunAll, IsRun
<1>2. IsRun(h, s, t, d, cmds)
  OBVIOUS
<1> HIDE DEF h
<1>3. Len(cmds) \in 0 .. Len(cmds)
  OBVIOUS
<1> QED
  BY <1>1, <1>2, <1>3, RunUnique

-----------------------------------------------------------------------------
(* What each command leaves, memory not being limited. *)

\* The store that checkType leaves, and the one that get leaves after it.
Checked(s, t, x) == CheckExpired(s, t, {x})
Fetched(s, t, x) == Get(Checked(s, t, x), t, x)

\* SADD to a set that is there, and SREM before its last look at the set.
Grown(g, x, e) ==
    PutValue(MutateInPlace(g, x, g.val[x] \cup {e}), x, g.val[x] \cup {e}, "set")

Shrunk(g, x, e) ==
    LET m == MutateInPlace(g, x, g.val[x] \ {e})
    IN  IF g.val[x] \cap {e} # {} THEN MarkDirty(m, x) ELSE m

\* Without a limit set writes.
LEMMA SetWrites ==
    ASSUME NEW s, NEW t, NEW x, NEW v, NEW ty
    PROVE  SetOutcomes(s, t, x, v, ty) = {PutValue(s, x, v, ty)}
  BY PersistenceParameters DEF SetOutcomes

\* After, command by command.
LEMMA AfterGet ==
    ASSUME NEW s, NEW t, NEW d, NEW r, r.cmd = "get"
    PROVE  LET x == <<d, r.key>>
           IN  After(s, t, d, r) = IF WrongType(Checked(s, t, x), x, "string") THEN Checked(s, t, x)
                                   ELSE Fetched(s, t, x)
<1> DEFINE x == <<d, r.key>>
<1>1. Outcomes(s, t, d, r) = {IF WrongType(Checked(s, t, x), x, "string") THEN Checked(s, t, x)
                              ELSE Fetched(s, t, x)}
  BY DEF Outcomes, CmdRead, Checked, Fetched
<1> QED
  BY <1>1 DEF After

\* DEL removes the key whatever it is.
LEMMA AfterDel ==
    ASSUME NEW s, NEW t, NEW d, NEW r, r.cmd = "del"
    PROVE  After(s, t, d, r) = DeleteKeys(s, {<<d, r.key>>})
<1>1. Outcomes(s, t, d, r) = {DeleteKeys(s, {<<d, r.key>>})}
  BY DEF Outcomes, CmdDel
<1> QED
  BY <1>1 DEF After

\* SET, under a key of another type, does nothing; else it writes the value and
\* its deadline, which replay reckons from its own time.
LEMMA AfterSet ==
    ASSUME NEW s, NEW t \in Nat, NEW d, NEW r \in RequestType, r.cmd = "set"
    PROVE  LET x == <<d, r.key>>
               p == Checked(s, t, x)
               o == PutValue(Fetched(s, t, x), x, r.val, "string")
           IN  After(s, t, d, r) =
                   IF WrongType(p, x, "string") THEN p
                   ELSE SetExpireAt(o, x, IF r.ttl = 0 THEN NoDeadline ELSE t + r.ttl)
<1> DEFINE x == <<d, r.key>>
           p == Checked(s, t, x)
           g == Fetched(s, t, x)
           o == PutValue(g, x, r.val, "string")
           ex == IF r.ttl = 0 THEN NoDeadline ELSE t + r.ttl
<1>1. Outcomes(s, t, d, r) = CmdSet(s, t, x, r.val, "any", FALSE, ex)
  BY DEF Outcomes
<1>2. SetOutcomes(g, t, x, r.val, "string") = {o}
  BY SetWrites
<1>3. CmdSet(s, t, x, r.val, "any", FALSE, ex) =
          {IF WrongType(p, x, "string") THEN p ELSE ApplyTtlOptions(o, t, x, FALSE, NoDeadline, ex)}
  BY <1>2 DEF CmdSet, Checked, Fetched
<1>4. r.ttl \in Nat
  BY TimeBound DEF RequestType
<1>5. ApplyTtlOptions(o, t, x, FALSE, NoDeadline, ex) = SetExpireAt(o, x, ex)
  BY <1>4 DEF ApplyTtlOptions, RemoveExpiry
<1> HIDE DEF x, p, g, o, ex
<1>6. Outcomes(s, t, d, r) = {IF WrongType(p, x, "string") THEN p ELSE SetExpireAt(o, x, ex)}
  BY <1>1, <1>3, <1>5
<1>7. After(s, t, d, r) = IF WrongType(p, x, "string") THEN p ELSE SetExpireAt(o, x, ex)
  BY <1>6 DEF After
<1> QED
  BY <1>7 DEF x, p, g, o, ex

\* EXPIRE sets the deadline of a key that is there, or deletes the key.
LEMMA AfterExpire ==
    ASSUME NEW s, NEW t, NEW d, NEW r, r.cmd = "expire"
    PROVE  LET x == <<d, r.key>>
               p == Checked(s, t, x)
           IN  After(s, t, d, r) = IF ~Present(p, x) THEN p
                                   ELSE IF t + r.ttl <= t THEN DeleteKeys(p, {x})
                                   ELSE SetExpireAt(p, x, t + r.ttl)
<1> DEFINE x == <<d, r.key>>
           p == Checked(s, t, x)
<1>1. Outcomes(s, t, d, r) = {IF ~Present(p, x) THEN p
                              ELSE IF t + r.ttl <= t THEN DeleteKeys(p, {x})
                              ELSE SetExpireAt(p, x, t + r.ttl)}
  BY DEF Outcomes, CmdExpire, Checked
<1> QED
  BY <1>1 DEF After

\* PERSIST removes the deadline of a key that is there.
LEMMA AfterPersist ==
    ASSUME NEW s, NEW t, NEW d, NEW r, r.cmd = "persist"
    PROVE  LET x == <<d, r.key>>
               p == Checked(s, t, x)
           IN  After(s, t, d, r) = IF Present(p, x) THEN RemoveExpiry(p, x) ELSE p
<1> DEFINE x == <<d, r.key>>
           p == Checked(s, t, x)
<1>1. Outcomes(s, t, d, r) = {IF Present(p, x) THEN RemoveExpiry(p, x) ELSE p}
  BY DEF Outcomes, CmdPersist, Checked
<1> QED
  BY <1>1 DEF After

\* RENAME writes the value, the type and the deadline under the new name.
LEMMA AfterRename ==
    ASSUME NEW s, NEW t, NEW d, NEW r, r.cmd = "rename"
    PROVE  LET x == <<d, r.key>>
               y == <<d, r.to>>
               p == Checked(s, t, x)
               o == PutValue(DeleteKeys(p, {x}), y, p.val[x], p.typ[x])
           IN  After(s, t, d, r) = IF ~Present(p, x) THEN p
                                   ELSE IF p.ttl[x] > 0 THEN SetExpireAt(o, y, p.ttl[x])
                                   ELSE o
<1> DEFINE x == <<d, r.key>>
           y == <<d, r.to>>
           p == Checked(s, t, x)
           o == PutValue(DeleteKeys(p, {x}), y, p.val[x], p.typ[x])
           Moved(q) == IF p.ttl[x] > 0 THEN SetExpireAt(q, y, p.ttl[x]) ELSE q
<1>1. SetOutcomes(DeleteKeys(p, {x}), t, y, p.val[x], p.typ[x]) = {o}
  BY SetWrites
<1>2. Outcomes(s, t, d, r) = RenameOutcomes(s, t, x, y)
  BY DEF Outcomes, CmdRename
<1>3. RenameOutcomes(s, t, x, y) = {IF ~Present(p, x) THEN p ELSE Moved(o)}
  BY <1>1 DEF RenameOutcomes, Checked
<1> QED
  BY <1>2, <1>3 DEF After

\* SADD adds to the set in place, or stores a new one.
LEMMA AfterSadd ==
    ASSUME NEW s, NEW t, NEW d, NEW r, r.cmd = "sadd"
    PROVE  LET x == <<d, r.key>>
               p == Checked(s, t, x)
               g == Fetched(s, t, x)
           IN  After(s, t, d, r) = IF WrongType(p, x, "set") THEN p
                                   ELSE IF ~Present(g, x) THEN PutValue(g, x, {r.elem}, "set")
                                   ELSE Grown(g, x, r.elem)
<1> DEFINE x == <<d, r.key>>
           p == Checked(s, t, x)
           g == Fetched(s, t, x)
           grown == g.val[x] \cup {r.elem}
           n == MutateInPlace(g, x, grown)
<1>1. /\ SetOutcomes(g, t, x, {r.elem}, "set") = {PutValue(g, x, {r.elem}, "set")}
      /\ SetOutcomes(n, t, x, grown, "set") = {Grown(g, x, r.elem)}
  BY SetWrites DEF Grown
<1>2. Outcomes(s, t, d, r) = {IF WrongType(p, x, "set") THEN p
                              ELSE IF ~Present(g, x) THEN PutValue(g, x, {r.elem}, "set")
                              ELSE Grown(g, x, r.elem)}
  BY <1>1 DEF Outcomes, CmdSadd, Checked, Fetched
<1> QED
  BY <1>2 DEF After

\* SREM takes from the set in place and deletes one that has become empty.
LEMMA AfterSrem ==
    ASSUME NEW s, NEW t, NEW d, NEW r, r.cmd = "srem"
    PROVE  LET x == <<d, r.key>>
               p == Checked(s, t, x)
               g == Fetched(s, t, x)
           IN  After(s, t, d, r) = IF WrongType(p, x, "set") THEN p
                                   ELSE IF ~Present(g, x) THEN g
                                   ELSE DropIfEmpty(Shrunk(g, x, r.elem), x)
<1> DEFINE x == <<d, r.key>>
           p == Checked(s, t, x)
           g == Fetched(s, t, x)
<1>1. Outcomes(s, t, d, r) = {IF WrongType(p, x, "set") THEN p
                              ELSE IF ~Present(g, x) THEN g
                              ELSE DropIfEmpty(Shrunk(g, x, r.elem), x)}
  BY DEF Outcomes, CmdSrem, Checked, Fetched, Shrunk
<1> QED
  BY <1>1 DEF After

\* The commands on whole databases do not depend on the time.
LEMMA AfterBulk ==
    ASSUME NEW s, NEW t, NEW d, NEW r
    PROVE  /\ r.cmd = "flushdb" => After(s, t, d, r) = FlushDbs(s, {d})
           /\ r.cmd = "flushall" => After(s, t, d, r) = FlushDbs(s, DBs)
           /\ r.cmd = "swapdb" => After(s, t, d, r) = SwapDbs(s, FirstDb, r.other)
  BY DEF After, Outcomes

-----------------------------------------------------------------------------
(* What a command does to a slot depends on that slot alone, and not on the *)
(* time as long as no deadline is involved.                                *)

\* A slot is in two stores as replay promises.
Alike(s, o, y) == s.val[y] = o.val[y] /\ s.typ[y] = o.typ[y] /\ s.ttl[y] = o.ttl[y]

\* Nothing but the slot x differs.
SameBut(s, o, x) == \A y \in Slots \ {x} : Alike(s, o, y)

\* SameBut is transitive.
LEMMA SameButTrans ==
    ASSUME NEW s, NEW o, NEW q, NEW x, SameBut(s, o, x), SameBut(o, q, x)
    PROVE  SameBut(s, q, x)
  BY DEF SameBut, Alike

\* The calls that are about one slot.
LEMMA CallsAtOneSlot ==
    ASSUME NEW s, NEW t, NEW x \in Slots
    PROVE  /\ SameBut(s, s, x)
           /\ SameBut(s, Checked(s, t, x), x)
           /\ SameBut(s, Get(s, t, x), x)
           /\ SameBut(s, Fetched(s, t, x), x)
           /\ SameBut(s, DeleteKeys(s, {x}), x)
           /\ SameBut(s, MarkDirty(s, x), x)
           /\ \A v, ty : SameBut(s, PutValue(s, x, v, ty), x)
           /\ \A v : SameBut(s, MutateInPlace(s, x, v), x)
           /\ \A deadline : SameBut(s, SetExpireAt(s, x, deadline), x)
<1> USE DEF SameBut, Alike, Store
<1>1. /\ SameBut(s, s, x)
      /\ \A q : SameBut(q, Checked(q, t, x), x) /\ SameBut(q, Get(q, t, x), x)
  BY DEF Checked, CheckExpired, DropSlots, Get, Touch
<1>2. SameBut(s, Fetched(s, t, x), x)
  BY <1>1, SameButTrans DEF Fetched
<1>3. SameBut(s, DeleteKeys(s, {x}), x) /\ SameBut(s, MarkDirty(s, x), x)
  BY DEF DeleteKeys, Bump, DropSlots, MarkDirty, Touch
<1>4. /\ \A v, ty : SameBut(s, PutValue(s, x, v, ty), x)
      /\ \A v : SameBut(s, MutateInPlace(s, x, v), x)
      /\ \A deadline : SameBut(s, SetExpireAt(s, x, deadline), x)
  BY DEF PutValue, MutateInPlace, SetExpireAt, MapSet
<1> QED
  BY <1>1, <1>2, <1>3, <1>4

\* One more such call.
LEMMA OneMoreCall ==
    ASSUME NEW s, NEW o, NEW x \in Slots, SameBut(s, o, x)
    PROVE  /\ SameBut(s, DeleteKeys(o, {x}), x)
           /\ SameBut(s, MarkDirty(o, x), x)
           /\ \A v, ty : SameBut(s, PutValue(o, x, v, ty), x)
           /\ \A v : SameBut(s, MutateInPlace(o, x, v), x)
           /\ \A deadline : SameBut(s, SetExpireAt(o, x, deadline), x)
<1>1. \A q : SameBut(o, q, x) => SameBut(s, q, x)
  BY SameButTrans
<1> QED
  BY <1>1, CallsAtOneSlot

\* The slot x is the same in two stores and has no deadline.
Twin(s, o, x) == Alike(s, o, x) /\ s.ttl[x] = NoDeadline

\* The same calls on both leave it so.
LEMMA TwinReads ==
    ASSUME NEW s, NEW o, NEW t, NEW u, NEW x \in Slots, Twin(s, o, x)
    PROVE  Twin(Checked(s, t, x), Checked(o, u, x), x) /\ Twin(Fetched(s, t, x), Fetched(o, u, x), x)
<1>1. \A q, w : q.ttl[x] = NoDeadline => Alike(q, Checked(q, w, x), x)
  BY DEF Alike, Store, Checked, CheckExpired, DropSlots, IsExpired, HasExpiry
<1>2. \A q, w : q.ttl[x] = NoDeadline => Alike(q, Get(q, w, x), x)
  BY <1>1 DEF Alike, Store, Checked, Get, Touch
<1>3. \A q, w : q.ttl[x] = NoDeadline => Alike(q, Fetched(q, w, x), x)
  BY <1>1, <1>2 DEF Fetched, Alike
<1> QED
  BY <1>1, <1>3 DEF Twin, Alike

\* After DEL two stores agree on the key, whatever they had there.
LEMMA TwinDeletes ==
    ASSUME NEW s, NEW o, NEW x \in Slots
    PROVE  Twin(DeleteKeys(s, {x}), DeleteKeys(o, {x}), x)
  BY DEF Twin, Alike, Store, DeleteKeys, Bump, DropSlots

\* The other methods of the store keep an agreement on the key.
LEMMA TwinCalls ==
    ASSUME NEW s, NEW o, NEW x \in Slots, Twin(s, o, x)
    PROVE  /\ \A v, ty : Twin(PutValue(s, x, v, ty), PutValue(o, x, v, ty), x)
           /\ \A v : Twin(MutateInPlace(s, x, v), MutateInPlace(o, x, v), x)
           /\ Twin(SetExpireAt(s, x, NoDeadline), SetExpireAt(o, x, NoDeadline), x)
           /\ Twin(MarkDirty(s, x), MarkDirty(o, x), x)
           /\ Twin(DropIfEmpty(s, x), DropIfEmpty(o, x), x)
<1>1. Twin(DropIfEmpty(s, x), DropIfEmpty(o, x), x)
  BY TwinDeletes DEF Twin, Alike, DropIfEmpty
<1>2. Twin(MarkDirty(s, x), MarkDirty(o, x), x)
  BY DEF Twin, Alike, Store, MarkDirty, Bump, Touch
<1>3. /\ \A v, ty : Twin(PutValue(s, x, v, ty), PutValue(o, x, v, ty), x)
      /\ \A v : Twin(MutateInPlace(s, x, v), MutateInPlace(o, x, v), x)
      /\ Twin(SetExpireAt(s, x, NoDeadline), SetExpireAt(o, x, NoDeadline), x)
  BY DEF Twin, Alike, Store, PutValue, MutateInPlace, SetExpireAt, MapSet
<1> QED
  BY <1>1, <1>2, <1>3

\* Twins look the same to the guards of the handlers.
LEMMA TwinGuards ==
    ASSUME NEW s, NEW o, NEW x, Twin(s, o, x)
    PROVE  (\A ty : WrongType(s, x, ty) <=> WrongType(o, x, ty)) /\ (Present(s, x) <=> Present(o, x))
  BY DEF Twin, Alike, WrongType, Present

\* The requests about the slot of their key and no other.
LocalRequest(r) == r.cmd \in {"get", "set", "del", "expire", "persist", "sadd", "srem"}

\* They leave the others alone.
LEMMA LocalCommands ==
    ASSUME NEW s, NEW t \in Nat, NEW d \in DBs, NEW r \in RequestType, LocalRequest(r)
    PROVE  SameBut(s, After(s, t, d, r), <<d, r.key>>)
<1> DEFINE x == <<d, r.key>>
           p == Checked(s, t, x)
           g == Fetched(s, t, x)
           k == MutateInPlace(g, x, g.val[x] \cup {r.elem})
           m == MutateInPlace(g, x, g.val[x] \ {r.elem})
<1>1. x \in Slots
  BY DEF Slots, RequestType
<1> HIDE DEF x
<1>2. SameBut(s, s, x) /\ SameBut(s, p, x) /\ SameBut(s, g, x) /\ SameBut(s, DeleteKeys(s, {x}), x)
  BY <1>1, CallsAtOneSlot
<1> HIDE DEF p, g
<1>3. CASE r.cmd \in {"get", "del"}
  BY <1>2, <1>3, AfterGet, AfterDel DEF x, p, g
<1>4. CASE r.cmd = "set"
  <2>1. \A deadline : SameBut(s, SetExpireAt(PutValue(g, x, r.val, "string"), x, deadline), x)
    BY <1>1, <1>2, OneMoreCall
  <2> QED
    BY <1>2, <1>4, <2>1, AfterSet DEF x, p, g
<1>5. CASE r.cmd \in {"expire", "persist"}
  <2>1. \A deadline : SameBut(s, SetExpireAt(p, x, deadline), x)
    BY <1>1, <1>2, OneMoreCall
  <2>2. SameBut(s, DeleteKeys(p, {x}), x)
    BY <1>1, <1>2, OneMoreCall
  <2> QED
    BY <1>2, <1>5, <2>1, <2>2, AfterExpire, AfterPersist DEF x, p, RemoveExpiry
<1>6. CASE r.cmd = "sadd"
  <2>1. \A v : SameBut(s, PutValue(g, x, v, "set"), x)
    BY <1>1, <1>2, OneMoreCall
  <2>2. SameBut(s, k, x)
    BY <1>1, <1>2, OneMoreCall
  <2> HIDE DEF k
  <2>3. \A v : SameBut(s, PutValue(k, x, v, "set"), x)
    BY <1>1, <2>2, OneMoreCall
  <2>4. After(s, t, d, r) = IF WrongType(p, x, "set") THEN p
                            ELSE IF ~Present(g, x) THEN PutValue(g, x, {r.elem}, "set")
                            ELSE Grown(g, x, r.elem)
    BY <1>6, AfterSadd DEF x, p, g
  <2>5. SameBut(s, After(s, t, d, r), x)
    BY <1>2, <2>1, <2>3, <2>4 DEF Grown, k
  <2> QED
    BY <2>5 DEF x
<1>7. CASE r.cmd = "srem"
  <2>1. SameBut(s, m, x)
    BY <1>1, <1>2, OneMoreCall
  <2> HIDE DEF m
  <2> DEFINE n == Shrunk(g, x, r.elem)
  <2>2. SameBut(s, MarkDirty(m, x), x)
    BY <1>1, <2>1, OneMoreCall
  <2>3. SameBut(s, n, x)
    BY <2>1, <2>2 DEF Shrunk, m
  <2> HIDE DEF n
  <2>4. SameBut(s, DropIfEmpty(n, x), x)
    BY <1>1, <2>3, OneMoreCall DEF DropIfEmpty
  <2>5. After(s, t, d, r) = IF WrongType(p, x, "set") THEN p
                            ELSE IF ~Present(g, x) THEN g ELSE DropIfEmpty(n, x)
    BY <1>7, AfterSrem DEF x, p, g, n
  <2>6. SameBut(s, After(s, t, d, r), x)
    BY <1>2, <2>4, <2>5
  <2> QED
    BY <2>6 DEF x
<1> QED
  BY <1>3, <1>4, <1>5, <1>6, <1>7 DEF LocalRequest


\* In their own slot they leave twins, unless they set a deadline.
LEMMA PlainCommands ==
    ASSUME NEW s, NEW o, NEW t \in Nat, NEW u \in Nat, NEW d \in DBs, NEW r \in RequestType,
           LocalRequest(r), r.cmd # "expire", r.cmd = "set" => r.ttl = 0,
           r.cmd # "del" => Twin(s, o, <<d, r.key>>)
    PROVE  Twin(After(s, t, d, r), After(o, u, d, r), <<d, r.key>>)
<1> DEFINE x == <<d, r.key>>
           a == After(s, t, d, r)
           b == After(o, u, d, r)
           p == Checked(s, t, x)
           g == Fetched(s, t, x)
           q == Checked(o, u, x)
           h == Fetched(o, u, x)
<1>1. x \in Slots
  BY DEF Slots, RequestType
<1>2. r.cmd = "del" => Twin(a, b, x)
  <2>1. r.cmd = "del" => a = DeleteKeys(s, {x}) /\ b = DeleteKeys(o, {x})
    BY AfterDel
  <2> HIDE DEF x, a, b
  <2> QED
    BY <1>1, <2>1, TwinDeletes
<1>3. ASSUME r.cmd # "del" PROVE Twin(p, q, x) /\ Twin(g, h, x)
  <2>1. Twin(s, o, x)
    BY <1>3
  <2> HIDE DEF x
  <2> QED
    BY <1>1, <2>1, TwinReads
<1>4. r.cmd = "get" => Twin(a, b, x)
  <2>1. r.cmd = "get" => /\ a = IF WrongType(p, x, "string") THEN p ELSE g
                         /\ b = IF WrongType(q, x, "string") THEN q ELSE h
    BY AfterGet
  <2> HIDE DEF x, a, b, p, q, g, h
  <2> QED
    BY <1>3, <2>1, TwinGuards
<1>5. r.cmd = "set" => Twin(a, b, x)
  <2> DEFINE k == PutValue(g, x, r.val, "string")
             l == PutValue(h, x, r.val, "string")
  <2>1. r.cmd = "set" =>
            /\ a = IF WrongType(p, x, "string") THEN p ELSE SetExpireAt(k, x, NoDeadline)
            /\ b = IF WrongType(q, x, "string") THEN q ELSE SetExpireAt(l, x, NoDeadline)
    BY AfterSet
  <2> HIDE DEF x, a, b, p, q, g, h
  <2>2. r.cmd = "set" => Twin(k, l, x)
    BY <1>1, <1>3, TwinCalls
  <2> HIDE DEF k, l
  <2>3. r.cmd = "set" => Twin(SetExpireAt(k, x, NoDeadline), SetExpireAt(l, x, NoDeadline), x)
    BY <1>1, <2>2, TwinCalls
  <2> QED
    BY <1>3, <2>1, <2>3, TwinGuards
<1>6. r.cmd = "persist" => Twin(a, b, x)
  <2>1. r.cmd = "persist" =>
            /\ a = IF Present(p, x) THEN SetExpireAt(p, x, NoDeadline) ELSE p
            /\ b = IF Present(q, x) THEN SetExpireAt(q, x, NoDeadline) ELSE q
    BY AfterPersist DEF RemoveExpiry
  <2> HIDE DEF x, a, b, p, q, g, h
  <2>2. r.cmd = "persist" => Twin(SetExpireAt(p, x, NoDeadline), SetExpireAt(q, x, NoDeadline), x)
    BY <1>1, <1>3, TwinCalls
  <2> QED
    BY <1>3, <2>1, <2>2, TwinGuards
<1>7. r.cmd = "sadd" => Twin(a, b, x)
  <2>1. r.cmd = "sadd" =>
            /\ a = IF WrongType(p, x, "set") THEN p
                   ELSE IF ~Present(g, x) THEN PutValue(g, x, {r.elem}, "set")
                   ELSE Grown(g, x, r.elem)
            /\ b = IF WrongType(q, x, "set") THEN q
                   ELSE IF ~Present(h, x) THEN PutValue(h, x, {r.elem}, "set")
                   ELSE Grown(h, x, r.elem)
    BY AfterSadd
  <2> HIDE DEF x, a, b, p, q, g, h
  <2>2. ASSUME r.cmd = "sadd" PROVE Twin(Grown(g, x, r.elem), Grown(h, x, r.elem), x)
    <3>1. Twin(g, h, x) /\ g.val[x] = h.val[x]
      BY <1>3, <2>2 DEF Twin, Alike
    <3> DEFINE v == g.val[x] \cup {r.elem}
               m == MutateInPlace(g, x, v)
               n == MutateInPlace(h, x, v)
    <3>2. Twin(m, n, x)
      BY <1>1, <3>1, TwinCalls
    <3>3. Grown(g, x, r.elem) = PutValue(m, x, v, "set") /\ Grown(h, x, r.elem) = PutValue(n, x, v, "set")
      BY <3>1 DEF Grown
    <3> HIDE DEF m, n, v
    <3> QED
      BY <1>1, <3>2, <3>3, TwinCalls
  <2>3. r.cmd = "sadd" => Twin(PutValue(g, x, {r.elem}, "set"), PutValue(h, x, {r.elem}, "set"), x)
    BY <1>1, <1>3, TwinCalls
  <2> QED
    BY <1>3, <2>1, <2>2, <2>3, TwinGuards
<1>8. r.cmd = "srem" => Twin(a, b, x)
  <2> DEFINE k == Shrunk(g, x, r.elem)
             l == Shrunk(h, x, r.elem)
  <2>1. r.cmd = "srem" =>
            /\ a = IF WrongType(p, x, "set") THEN p
                   ELSE IF ~Present(g, x) THEN g ELSE DropIfEmpty(k, x)
            /\ b = IF WrongType(q, x, "set") THEN q
                   ELSE IF ~Present(h, x) THEN h ELSE DropIfEmpty(l, x)
    BY AfterSrem
  <2> HIDE DEF x, a, b, p, q, g, h
  <2>2. ASSUME r.cmd = "srem" PROVE Twin(k, l, x)
    <3>1. Twin(g, h, x) /\ g.val[x] = h.val[x]
      BY <1>3, <2>2 DEF Twin, Alike
    <3> DEFINE v == g.val[x] \ {r.elem}
               m == MutateInPlace(g, x, v)
               n == MutateInPlace(h, x, v)
    <3>2. Twin(m, n, x)
      BY <1>1, <3>1, TwinCalls
    <3>3. /\ k = IF g.val[x] \cap {r.elem} # {} THEN MarkDirty(m, x) ELSE m
          /\ l = IF g.val[x] \cap {r.elem} # {} THEN MarkDirty(n, x) ELSE n
      BY <3>1 DEF Shrunk
    <3> HIDE DEF k, l, m, n, v
    <3>4. Twin(MarkDirty(m, x), MarkDirty(n, x), x)
      BY <1>1, <3>2, TwinCalls
    <3> QED
      BY <3>2, <3>3, <3>4
  <2> HIDE DEF k, l
  <2>3. r.cmd = "srem" => Twin(DropIfEmpty(k, x), DropIfEmpty(l, x), x)
    BY <1>1, <2>2, TwinCalls
  <2> QED
    BY <1>3, <2>1, <2>3, TwinGuards
<1> QED
  BY <1>2, <1>4, <1>5, <1>6, <1>7, <1>8 DEF LocalRequest

-----------------------------------------------------------------------------
(* Two stores that agree where no deadline had an influence still do after  *)
(* the same commands, whatever the times they are run at.                  *)

Agree(s, o, T) == \A y \in Slots \ T : Twin(s, o, y)

\* A slot that nothing happens to stays a twin.
LEMMA TwinElsewhere ==
    ASSUME NEW s, NEW o, NEW a, NEW b, NEW x, NEW y \in Slots \ {x},
           SameBut(s, a, x), SameBut(o, b, x), Twin(s, o, y)
    PROVE  Twin(a, b, y)
  BY DEF SameBut, Twin, Alike

\* Commands about one slot.
LEMMA LocalAgree ==
    ASSUME NEW s, NEW o, NEW T, Agree(s, o, T), NEW t \in Nat, NEW u \in Nat,
           NEW r \in RequestType, LocalRequest(r)
    PROVE  Agree(After(s, t, FirstDb, r), After(o, u, FirstDb, r), Influenced(T, r))
<1> DEFINE x == <<FirstDb, r.key>>
           a == After(s, t, FirstDb, r)
           b == After(o, u, FirstDb, r)
           I == Influenced(T, r)
<1>1. FirstDb \in DBs
  BY PersistenceParameters
<1>2. SameBut(s, a, x) /\ SameBut(o, b, x)
  BY <1>1, LocalCommands
<1>3. r.ttl \in Nat
  BY TimeBound DEF RequestType
<1>4. r.cmd = "expire" \/ (r.cmd = "set" /\ r.ttl > 0) => I = T \cup {x}
  BY DEF Influenced
<1>5. r.cmd = "del" => I = T \ {x}
  BY DEF Influenced
<1>6. LocalRequest(r) /\ r.cmd \notin {"expire", "del"} /\ ~(r.cmd = "set" /\ r.ttl > 0) => I = T
  BY DEF Influenced, LocalRequest
<1>7. x \notin I => Twin(a, b, x)
  <2>1. SUFFICES ASSUME x \notin I PROVE Twin(a, b, x)
    OBVIOUS
  <2>2. r.cmd # "expire" /\ (r.cmd = "set" => r.ttl = 0)
    BY <1>3, <1>4, <2>1
  <2>3. r.cmd # "del" => x \notin T
    BY <1>3, <1>6, <2>1, <2>2
  <2>4. x \in Slots
    BY <1>1 DEF Slots, RequestType
  <2>5. r.cmd # "del" => Twin(s, o, x)
    BY <2>3, <2>4 DEF Agree
  <2> QED
    BY <1>1, <2>2, <2>5, PlainCommands
<1>8. T \subseteq I \cup {x}
  BY <1>3, <1>4, <1>5, <1>6
<1> HIDE DEF x, a, b, I
<1>9. ASSUME NEW y \in Slots \ I PROVE Twin(a, b, y)
  <2>1. CASE y = x
    BY <1>7, <2>1
  <2>2. CASE y # x
    <3>1. Twin(s, o, y)
      BY <1>8, <2>2 DEF Agree
    <3> QED
      BY <1>2, <2>2, <3>1, TwinElsewhere
  <2> QED
    BY <2>1, <2>2
<1> QED
  BY <1>9 DEF Agree, a, b, I

\* RENAME.
LEMMA RenameAgree ==
    ASSUME NEW s, NEW o, NEW T, Agree(s, o, T), NEW t \in Nat, NEW u \in Nat,
           NEW r \in RequestType, r.cmd = "rename"
    PROVE  Agree(After(s, t, FirstDb, r), After(o, u, FirstDb, r), Influenced(T, r))
<1> DEFINE x == <<FirstDb, r.key>>
           y == <<FirstDb, r.to>>
           a == After(s, t, FirstDb, r)
           b == After(o, u, FirstDb, r)
           p == Checked(s, t, x)
           q == Checked(o, u, x)
           c == DeleteKeys(p, {x})
           e == DeleteKeys(q, {x})
           k == PutValue(c, y, p.val[x], p.typ[x])
           l == PutValue(e, y, q.val[x], q.typ[x])
           I == Influenced(T, r)
<1>1. x \in Slots /\ y \in Slots
  BY PersistenceParameters DEF Slots, RequestType
<1>2. a = IF ~Present(p, x) THEN p
          ELSE IF p.ttl[x] > 0 THEN SetExpireAt(k, y, p.ttl[x]) ELSE k
  BY AfterRename
<1>3. b = IF ~Present(q, x) THEN q
          ELSE IF q.ttl[x] > 0 THEN SetExpireAt(l, y, q.ttl[x]) ELSE l
  BY AfterRename
<1>4. (x \in T => I = T \cup {y}) /\ (x \notin T => I = T)
  BY DEF Influenced
<1> HIDE DEF x, y, a, b, I
<1>5. SameBut(s, p, x) /\ SameBut(p, c, x) /\ SameBut(o, q, x) /\ SameBut(q, e, x)
  BY <1>1, CallsAtOneSlot
<1> HIDE DEF p, q, c, e
<1>6. SameBut(s, c, x) /\ SameBut(o, e, x)
  BY <1>5, SameButTrans
<1>7. SameBut(c, k, y) /\ SameBut(e, l, y)
  BY <1>1, CallsAtOneSlot
<1>8. \A deadline : SameBut(c, SetExpireAt(k, y, deadline), y) /\ SameBut(e, SetExpireAt(l, y, deadline), y)
  BY <1>1, <1>7, OneMoreCall
<1> HIDE DEF k, l
<1>9. ASSUME NEW z \in Slots \ {x, y}, Twin(s, o, z) PROVE Twin(a, b, z)
  <2>1. Alike(s, a, z)
    BY <1>2, <1>5, <1>6, <1>7, <1>8 DEF SameBut, Alike
  <2>2. Alike(o, b, z)
    BY <1>3, <1>5, <1>6, <1>7, <1>8 DEF SameBut, Alike
  <2> QED
    BY <1>9, <2>1, <2>2 DEF Twin, Alike
<1>10. ASSUME x \notin T
       PROVE  Twin(a, b, x) /\ (y \notin T => Twin(a, b, y))
  <2>1. Twin(s, o, x)
    BY <1>1, <1>10 DEF Agree
  <2>2. Twin(p, q, x)
    BY <1>1, <2>1, TwinReads DEF p, q
  <2>3. (Present(p, x) <=> Present(q, x)) /\ p.val[x] = q.val[x] /\ p.typ[x] = q.typ[x]
    BY <2>2, TwinGuards DEF Twin, Alike
  <2>4. ~(p.ttl[x] > 0) /\ ~(q.ttl[x] > 0)
    BY <2>2 DEF Twin, Alike, NoDeadline
  <2>5. Twin(c, e, x)
    BY <1>1, TwinDeletes DEF c, e
  <2>6. y # x /\ y \notin T => Twin(p, q, y) /\ Twin(c, e, y)
    BY <1>1, <1>5, <1>6, TwinElsewhere DEF Agree
  <2>7. y \notin T => Twin(k, l, y)
    <3>1. y \notin T => Twin(c, e, y)
      BY <2>5, <2>6
    <3> QED
      BY <1>1, <2>3, <3>1, TwinCalls DEF k, l
  <2>8. y # x => Twin(k, l, x)
    BY <1>1, <1>7, <2>5, TwinElsewhere
  <2>9. /\ a = IF ~Present(p, x) THEN p ELSE k
        /\ b = IF ~Present(q, x) THEN q ELSE l
    BY <1>2, <1>3, <2>4
  <2> QED
    BY <1>10, <2>2, <2>3, <2>6, <2>7, <2>8, <2>9
<1>11. ASSUME NEW z \in Slots \ I PROVE Twin(a, b, z)
  <2>1. z \notin T /\ Twin(s, o, z)
    BY <1>4 DEF Agree
  <2>2. x \in T => z # y /\ z # x
    BY <1>4, <2>1
  <2> QED
    BY <1>9, <1>10, <2>1, <2>2
<1> QED
  BY <1>11 DEF Agree, a, b, I

\* FLUSHDB, FLUSHALL and SWAPDB.
LEMMA BulkAgree ==
    ASSUME NEW s, NEW o, NEW T, Agree(s, o, T), NEW t, NEW u,
           NEW r \in RequestType, r.cmd \in {"flushdb", "flushall", "swapdb"}
    PROVE  Agree(After(s, t, FirstDb, r), After(o, u, FirstDb, r), Influenced(T, r))
<1>1. CASE r.cmd = "flushdb"
  <2>1. Influenced(T, r) = {z \in T : z[1] # FirstDb}
    BY <1>1 DEF Influenced
  <2>2. Agree(FlushDbs(s, {FirstDb}), FlushDbs(o, {FirstDb}), {z \in T : z[1] # FirstDb})
    BY DEF Agree, Twin, Alike, FlushDbs, DropSlots, Store
  <2> QED
    BY <1>1, <2>1, <2>2, AfterBulk
<1>2. CASE r.cmd = "flushall"
  <2>1. Influenced(T, r) = {}
    BY <1>2 DEF Influenced
  <2>2. \A z \in Slots : z[1] \in DBs
    BY DEF Slots
  <2>3. Agree(FlushDbs(s, DBs), FlushDbs(o, DBs), {})
    BY <2>2 DEF Agree, Twin, Alike, FlushDbs, DropSlots, Store
  <2> QED
    BY <1>2, <2>1, <2>3, AfterBulk
<1>3. CASE r.cmd = "swapdb"
  <2> DEFINE W(z) == SwappedSlot(FirstDb, r.other, z)
  <2>1. Influenced(T, r) = {z \in Slots : W(z) \in T}
    BY <1>3 DEF Influenced
  <2>2. \A z \in Slots : W(z) \in Slots
    BY PersistenceParameters DEF SwappedSlot, Slots, RequestType
  <2> HIDE DEF W
  <2>3. ASSUME NEW z \in Slots, W(z) \notin T PROVE Twin(s, o, W(z))
    BY <2>2, <2>3 DEF Agree
  <2>4. \A q, z : z \in Slots => /\ SwapDbs(q, FirstDb, r.other).val[z] = q.val[W(z)]
                                 /\ SwapDbs(q, FirstDb, r.other).typ[z] = q.typ[W(z)]
                                 /\ SwapDbs(q, FirstDb, r.other).ttl[z] = q.ttl[W(z)]
    BY DEF SwapDbs, Store, W
  <2>5. Agree(SwapDbs(s, FirstDb, r.other), SwapDbs(o, FirstDb, r.other), {z \in Slots : W(z) \in T})
    BY <2>3, <2>4 DEF Agree, Twin, Alike
  <2> QED
    BY <1>3, <2>1, <2>5, AfterBulk
<1> QED
  BY <1>1, <1>2, <1>3

\* Any command.
LEMMA CommandAgree ==
    ASSUME NEW s, NEW o, NEW T, Agree(s, o, T), NEW t \in Nat, NEW u \in Nat, NEW r \in RequestType
    PROVE  Agree(After(s, t, FirstDb, r), After(o, u, FirstDb, r), Influenced(T, r))
  BY LocalAgree, RenameAgree, BulkAgree DEF RequestType, LocalRequest


\* The slots with an influence on them, command after command.
IsDating(f, log) ==
    f = [i \in 0 .. Len(log) |-> IF i = 0 THEN {} ELSE Influenced(f[i - 1], log[i])]

\* The same, step by step.
LEMMA DatingSteps ==
    ASSUME NEW f, NEW log, Len(log) \in Nat, IsDating(f, log)
    PROVE  /\ f[0] = {}
           /\ \A i \in 0 .. Len(log) - 1 : f[i + 1] = Influenced(f[i], log[i + 1])
<1>1. f[0] = {}
  BY DEF IsDating
<1>2. ASSUME NEW i \in 0 .. Len(log) - 1 PROVE f[i + 1] = Influenced(f[i], log[i + 1])
  <2>1. i + 1 \in 0 .. Len(log) /\ i + 1 # 0 /\ i + 1 - 1 = i
    OBVIOUS
  <2> QED
    BY <2>1 DEF IsDating
<1> QED
  BY <1>1, <1>2

\* Dated is well defined, like RunAll.
LEMMA DatingExists ==
    ASSUME NEW log \in Seq(RequestType)
    PROVE  \E f : IsDating(f, log)
<1> DEFINE Upto(f, n) ==
               f = [i \in 0 .. n |-> IF i = 0 THEN {} ELSE Influenced(f[i - 1], log[i])]
           P == {n \in Nat : \E f : Upto(f, n)}
<1>1. Len(log) \in Nat
  OBVIOUS
<1>2. 0 \in P
  <2>1. Upto([i \in 0 .. 0 |-> {}], 0)
    OBVIOUS
  <2> QED
    BY <2>1
<1>3. ASSUME NEW n \in 0 .. Len(log) - 1, n \in P PROVE n + 1 \in P
  <2>1. PICK f : Upto(f, n)
    BY <1>3
  <2> DEFINE h == [i \in 0 .. n + 1 |-> IF i = n + 1 THEN Influenced(f[n], log[n + 1]) ELSE f[i]]
  <2>2. h[n + 1] = Influenced(f[n], log[n + 1]) /\ \A i \in 0 .. n : h[i] = f[i]
    OBVIOUS
  <2>3. \A i \in 0 .. n : f[i] = IF i = 0 THEN {} ELSE Influenced(f[i - 1], log[i])
    BY <2>1
  <2>4. ASSUME NEW i \in 0 .. n + 1
        PROVE  h[i] = IF i = 0 THEN {} ELSE Influenced(h[i - 1], log[i])
    <3> HIDE DEF h
    <3>1. CASE i = n + 1
      <4>1. i # 0 /\ i - 1 = n /\ n \in 0 .. n
        BY <3>1
      <4> QED
        BY <2>2, <3>1, <4>1
    <3>2. CASE i # n + 1
      <4>1. i \in 0 .. n /\ (i # 0 => i - 1 \in 0 .. n)
        BY <3>2
      <4> QED
        BY <2>2, <2>3, <4>1
    <3> QED
      BY <3>1, <3>2
  <2>5. h = [i \in 0 .. n + 1 |-> h[i]]
    OBVIOUS
  <2>6. n + 1 \in Nat /\ Upto(h, n + 1)
    <3> HIDE DEF h
    <3> QED
      BY <2>4, <2>5
  <2> HIDE DEF h, Upto
  <2> QED
    BY <2>6
<1>4. \A n \in 0 .. Len(log) : n \in P
  <2> HIDE DEF P
  <2> QED
    BY <1>1, <1>2, <1>3, UpTo
<1>5. Len(log) \in P
  BY <1>1, <1>4
<1> QED
  BY <1>5 DEF IsDating

\* and the last of these sets is Dated.
LEMMA DatedIs ==
    ASSUME NEW log \in Seq(RequestType), NEW f, IsDating(f, log)
    PROVE  Dated(log) = f[Len(log)]
<1> DEFINE h == CHOOSE h : IsDating(h, log)
           P == {n \in Nat : f[n] = h[n]}
<1>1. Dated(log) = h[Len(log)]
  BY DEF Dated, IsDating
<1>2. IsDating(h, log)
  OBVIOUS
<1> HIDE DEF h
<1>3. Len(log) \in Nat
  OBVIOUS
<1>a. f[0] = {} /\ h[0] = {}
  BY <1>2, <1>3, DatingSteps
<1>4. 0 \in P
  BY <1>a
<1>5. ASSUME NEW n \in 0 .. Len(log) - 1, n \in P PROVE n + 1 \in P
  <2>1. f[n + 1] = Influenced(f[n], log[n + 1])
    BY <1>3, DatingSteps
  <2>2. h[n + 1] = Influenced(h[n], log[n + 1])
    BY <1>2, <1>3, DatingSteps
  <2> QED
    BY <1>5, <2>1, <2>2
<1>6. \A n \in 0 .. Len(log) : n \in P
  <2> HIDE DEF P
  <2> QED
    BY <1>3, <1>4, <1>5, UpTo
<1>7. Len(log) \in P
  BY <1>3, <1>6
<1> QED
  BY <1>1, <1>7

\* The beginning of a run is a run, and so for the influences.
LEMMA Beginnings ==
    ASSUME NEW log \in Seq(RequestType), NEW cmds \in Seq(RequestType), NEW s, NEW t, NEW d,
           NEW g, IsRun(g, s, t, d, log \o cmds), NEW f, IsDating(f, log \o cmds)
    PROVE  RunAll(s, t, d, log) = g[Len(log)] /\ Dated(log) = f[Len(log)]
<1> DEFINE n == Len(log)
           whole == log \o cmds
           k == [i \in 0 .. n |-> g[i]]
           e == [i \in 0 .. n |-> f[i]]
<1>1. /\ n \in Nat /\ Len(cmds) \in Nat
      /\ Len(whole) = n + Len(cmds)
      /\ \A i \in 1 .. n : whole[i] = log[i]
  BY ConcatProperties
<1>a. Len(whole) \in Nat /\ IsRun(g, s, t, d, whole) /\ IsDating(f, whole)
  BY <1>1
<1> HIDE DEF whole
<1>2. g[0] = s /\ \A i \in 0 .. Len(whole) - 1 : g[i + 1] = After(g[i], t, d, whole[i + 1])
  BY <1>a, RunSteps
<1>3. f[0] = {} /\ \A i \in 0 .. Len(whole) - 1 : f[i + 1] = Influenced(f[i], whole[i + 1])
  BY <1>a, DatingSteps, Zenon
<1> HIDE DEF n
<1>4. ASSUME NEW i \in 0 .. n
      PROVE  /\ k[i] = IF i = 0 THEN s ELSE After(k[i - 1], t, d, log[i])
             /\ e[i] = IF i = 0 THEN {} ELSE Influenced(e[i - 1], log[i])
  <2>1. CASE i = 0
    BY <1>1, <1>2, <1>3, <2>1
  <2>2. CASE i # 0
    <3>1. i - 1 \in 0 .. Len(whole) - 1 /\ i - 1 + 1 = i /\ i - 1 \in 0 .. n /\ i \in 1 .. n
      BY <1>1, <2>2
    <3>2. k[i] = g[i] /\ k[i - 1] = g[i - 1] /\ e[i] = f[i] /\ e[i - 1] = f[i - 1]
      BY <3>1
    <3> HIDE DEF k, e
    <3>3. whole[i] = log[i]
      BY <1>1, <3>1
    <3>4. g[i] = After(g[i - 1], t, d, whole[i])
      BY <1>2, <3>1
    <3>5. f[i] = Influenced(f[i - 1], whole[i])
      BY <1>3, <3>1
    <3> QED
      BY <2>2, <3>2, <3>3, <3>4, <3>5
  <2> QED
    BY <2>1, <2>2
<1>5. k = [i \in 0 .. n |-> k[i]] /\ e = [i \in 0 .. n |-> e[i]]
  OBVIOUS
<1>6. k[n] = g[n] /\ e[n] = f[n]
  BY <1>1
<1> HIDE DEF k, e
<1>7. IsRun(k, s, t, d, log)
  BY <1>4, <1>5 DEF IsRun, n
<1>8. IsDating(e, log)
  BY <1>4, <1>5 DEF IsDating, n
<1>9. RunAll(s, t, d, log) = k[Len(log)]
  BY <1>7, RunIs
<1>10. Dated(log) = e[Len(log)]
  BY <1>8, DatedIs
<1> QED
  BY <1>6, <1>9, <1>10 DEF n

\* A log that rebuilds a store rebuilds, with more commands at its end, the
\* store after them.
LEMMA LogGrows ==
    ASSUME NEW log \in Seq(RequestType), NEW cmds \in Seq(RequestType), NEW s,
           NEW t \in Nat, NEW u \in Nat,
           Agree(RunAll(EmptyStore, t, FirstDb, log), s, Dated(log))
    PROVE  Agree(RunAll(EmptyStore, t, FirstDb, log \o cmds), RunAll(s, u, FirstDb, cmds),
                 Dated(log \o cmds))
<1> DEFINE n == Len(log)
           m == Len(cmds)
           whole == log \o cmds
<1>1. /\ n \in Nat /\ m \in Nat
      /\ whole \in Seq(RequestType) /\ Len(whole) = n + m
      /\ \A i \in 1 .. m : whole[n + i] = cmds[i]
  BY ConcatProperties
<1>2. PICK g : IsRun(g, EmptyStore, t, FirstDb, whole)
  BY <1>1, RunExists
<1>3. PICK f : IsDating(f, whole)
  BY <1>1, DatingExists
<1>4. PICK h : IsRun(h, s, u, FirstDb, cmds)
  BY RunExists
<1> DEFINE P == {i \in Nat : Agree(g[n + i], h[i], f[n + i])}
<1>5. 0 \in P
  <2>1. h[0] = s
    BY <1>1, <1>4, RunSteps
  <2>2. RunAll(EmptyStore, t, FirstDb, log) = g[n] /\ Dated(log) = f[n]
    BY <1>2, <1>3, Beginnings
  <2>3. n + 0 = n
    BY <1>1
  <2> QED
    BY <2>1, <2>2, <2>3
<1>6. ASSUME NEW i \in 0 .. m - 1, i \in P PROVE i + 1 \in P
  <2>1. cmds[i + 1] \in RequestType
    BY <1>1, ElementOfSeq
  <2> HIDE DEF whole, n, m
  <2>2. /\ i + 1 \in 1 .. m /\ n + i \in 0 .. Len(whole) - 1
        /\ (n + i) + 1 = n + (i + 1) /\ Len(whole) \in Nat
    BY <1>1
  <2>3. whole[n + (i + 1)] = cmds[i + 1]
    BY <1>1, <2>2
  <2>4. g[(n + i) + 1] = After(g[n + i], t, FirstDb, whole[(n + i) + 1])
    BY <1>2, <2>2, RunSteps
  <2>5. f[(n + i) + 1] = Influenced(f[n + i], whole[(n + i) + 1])
    BY <1>3, <2>2, DatingSteps
  <2>6. h[i + 1] = After(h[i], u, FirstDb, cmds[i + 1])
    BY <1>1, <1>4, RunSteps DEF m
  <2>7. Agree(g[n + i], h[i], f[n + i])
    BY <1>6
  <2>8. Agree(After(g[n + i], t, FirstDb, cmds[i + 1]), After(h[i], u, FirstDb, cmds[i + 1]),
              Influenced(f[n + i], cmds[i + 1]))
    BY <2>1, <2>7, CommandAgree
  <2>9. Agree(g[n + (i + 1)], h[i + 1], f[n + (i + 1)])
    BY <2>2, <2>3, <2>4, <2>5, <2>6, <2>8
  <2> QED
    BY <1>1, <2>9
<1>7. \A i \in 0 .. m : i \in P
  <2> HIDE DEF P, m
  <2> QED
    BY <1>1, <1>5, <1>6, UpTo
<1>8. Agree(g[n + m], h[m], f[n + m])
  BY <1>1, <1>7
<1> HIDE DEF whole
<1>9. RunAll(EmptyStore, t, FirstDb, whole) = g[n + m]
  <2>1. RunAll(EmptyStore, t, FirstDb, whole) = g[Len(whole)]
    BY <1>1, <1>2, RunIs, Zenon
  <2> QED
    BY <1>1, <2>1
<1>10. Dated(whole) = f[n + m]
  BY <1>1, <1>3, DatedIs
<1>11. RunAll(s, u, FirstDb, cmds) = h[m]
  BY <1>4, RunIs
<1> QED
  BY <1>8, <1>9, <1>10, <1>11 DEF whole

\* Without commands nothing happens.
LEMMA EmptyRun ==
    ASSUME NEW s, NEW t, NEW d
    PROVE  RunAll(s, t, d, <<>>) = s /\ Dated(<<>>) = {}
<1> DEFINE g == [i \in 0 .. 0 |-> s]
           f == [i \in 0 .. 0 |-> {}]
<1>1. <<>> \in Seq(RequestType) /\ Len(<<>>) = 0
  OBVIOUS
<1>2. IsRun(g, s, t, d, <<>>) /\ IsDating(f, <<>>)
  BY <1>1 DEF IsRun, IsDating
<1>3. g[0] = s /\ f[0] = {}
  OBVIOUS
<1> HIDE DEF g, f
<1>4. RunAll(s, t, d, <<>>) = g[Len(<<>>)]
  BY <1>1, <1>2, RunIs, Zenon
<1>5. Dated(<<>>) = f[Len(<<>>)]
  BY <1>1, <1>2, DatedIs, Zenon
<1> QED
  BY <1>1, <1>3, <1>4, <1>5

\* One command.
LEMMA ShortRun ==
    ASSUME NEW s, NEW t, NEW d, NEW r \in RequestType
    PROVE  RunAll(s, t, d, <<r>>) = After(s, t, d, r)
<1> DEFINE g == [i \in 0 .. 1 |-> IF i = 0 THEN s ELSE After(s, t, d, r)]
<1>1. <<r>> \in Seq(RequestType) /\ Len(<<r>>) = 1 /\ <<r>>[1] = r
  OBVIOUS
<1>2. IsRun(g, s, t, d, <<r>>)
  BY <1>1 DEF IsRun
<1>3. g[1] = After(s, t, d, r)
  OBVIOUS
<1> HIDE DEF g
<1> QED
  BY <1>1, <1>2, <1>3, RunIs

\* Replays of the same log at two times agree.
LEMMA ReplaysAgree ==
    ASSUME NEW log \in Seq(RequestType), NEW t \in Nat, NEW u \in Nat
    PROVE  Agree(RunAll(EmptyStore, t, FirstDb, log), RunAll(EmptyStore, u, FirstDb, log), Dated(log))
<1>1. Agree(EmptyStore, EmptyStore, {})
  BY DEF Agree, Twin, Alike, EmptyStore, Store
<1>2. Agree(RunAll(EmptyStore, t, FirstDb, <<>>), EmptyStore, Dated(<<>>))
  BY <1>1, EmptyRun
<1>3. <<>> \in Seq(RequestType) /\ <<>> \o log = log
  BY ConcatEmptySeq
<1> QED
  BY <1>2, <1>3, LogGrows

-----------------------------------------------------------------------------
(* Types. *)

\* A command leaves a store.
LEMMA SomeOutcome ==
    ASSUME NEW s, NEW t, NEW d, NEW r \in RequestType
    PROVE  After(s, t, d, r) \in Outcomes(s, t, d, r)
<1>1. SUFFICES Outcomes(s, t, d, r) # {}
  BY DEF After
<1> DEFINE x == <<d, r.key>>
           y == <<d, r.to>>
<1>2. \A q, z, v, ty : SetOutcomes(q, t, z, v, ty) # {}
  BY SetWrites
<1>3. CASE r.cmd = "set"
  <2> DEFINE g == Get(CheckExpired(s, t, {x}), t, x)
  <2>1. \A keep, ex : CmdSet(s, t, x, r.val, "any", keep, ex) # {}
    BY <1>2 DEF CmdSet
  <2> HIDE DEF x
  <2> QED
    BY <1>3, <2>1 DEF Outcomes, x
<1>4. CASE r.cmd = "rename"
  <2>1. RenameOutcomes(s, t, x, y) # {}
    BY <1>2 DEF RenameOutcomes
  <2> HIDE DEF x, y
  <2> QED
    BY <1>4, <2>1 DEF Outcomes, CmdRename, x, y
<1>5. CASE r.cmd = "sadd"
  <2>1. CmdSadd(s, t, x, {r.elem}) # {}
    BY <1>2 DEF CmdSadd
  <2> QED
    BY <1>5, <2>1 DEF Outcomes
<1>6. CASE r.cmd = "srem"
  <2>1. CmdSrem(s, t, x, {r.elem}) # {}
    BY DEF CmdSrem
  <2> QED
    BY <1>6, <2>1 DEF Outcomes
<1>7. CASE r.cmd \in {"get", "del", "expire", "persist"}
  BY <1>7 DEF Outcomes, CmdRead, CmdDel, CmdExpire, CmdPersist
<1>8. CASE r.cmd \in {"flushdb", "flushall", "swapdb"}
  BY <1>8 DEF Outcomes
<1> QED
  BY <1>3, <1>4, <1>5, <1>6, <1>7, <1>8 DEF RequestType

\* and it is a consistent one.
LEMMA AfterConsistent ==
    ASSUME NEW s, Consistent(s), NEW t \in Nat \ {0}, NEW d \in DBs, NEW r \in RequestType
    PROVE  Consistent(After(s, t, d, r))
<1> DEFINE x == <<d, r.key>>
           y == <<d, r.to>>
           a == After(s, t, d, r)
           ex == IF r.ttl = 0 THEN NoDeadline ELSE t + r.ttl
<1>1. x \in Slots /\ y \in Slots
  BY DEF Slots, RequestType
<1>2. r.ttl \in Nat /\ t + r.ttl \in Nat \ {0} /\ ex \in DeadlineOptions
  BY TimeBound DEF RequestType, DeadlineOptions
<1>3. /\ r.val \in Strings /\ {r.elem} \in NonEmptySets /\ {r.elem} \in SUBSET Elems
      /\ r.other \in DBs /\ FirstDb \in DBs
  BY PersistenceParameters DEF RequestType, NonEmptySets
<1>4. a \in Outcomes(s, t, d, r)
  BY SomeOutcome
<1>5. CASE r.cmd = "get"
  <2>1. a \in CmdRead(s, t, x, "string")
    BY <1>4, <1>5 DEF Outcomes
  <2> HIDE DEF x, a
  <2> QED
    BY <1>1, <2>1, ReadsConsistent DEF a
<1>6. CASE r.cmd = "set"
  <2>1. a \in CmdSet(s, t, x, r.val, "any", FALSE, ex)
    BY <1>4, <1>6 DEF Outcomes
  <2> HIDE DEF x, a, ex
  <2> QED
    BY <1>1, <1>2, <1>3, <2>1, SetCommandConsistent DEF a
<1>7. CASE r.cmd = "del"
  <2>1. a \in CmdDel(s, {x}) /\ {x} \in SUBSET Slots
    BY <1>1, <1>4, <1>7 DEF Outcomes
  <2> HIDE DEF x, a
  <2> QED
    BY <1>1, <2>1, RemovalsConsistent DEF a
<1>8. CASE r.cmd \in {"expire", "persist"}
  <2>1. a \in CmdExpire(s, t, x, t + r.ttl) \cup CmdPersist(s, t, x)
    BY <1>4, <1>8 DEF Outcomes
  <2> HIDE DEF x, a
  <2> QED
    BY <1>1, <1>2, <2>1, ExpireConsistent DEF a
<1>9. CASE r.cmd = "rename"
  <2>1. a \in CmdRename(s, t, x, y)
    BY <1>4, <1>9 DEF Outcomes
  <2> HIDE DEF x, y, a
  <2> QED
    BY <1>1, <2>1, RenamesConsistent DEF a
<1>10. CASE r.cmd = "sadd"
  <2>1. a \in CmdSadd(s, t, x, {r.elem})
    BY <1>4, <1>10 DEF Outcomes
  <2> HIDE DEF x, a
  <2> QED
    BY <1>1, <1>3, <2>1, SaddConsistent DEF a
<1>11. CASE r.cmd = "srem"
  <2>1. a \in CmdSrem(s, t, x, {r.elem})
    BY <1>4, <1>11 DEF Outcomes
  <2> HIDE DEF x, a
  <2> QED
    BY <1>1, <1>3, <2>1, SremSpopConsistent DEF a
<1>12. CASE r.cmd \in {"flushdb", "flushall", "swapdb"}
  <2>1. Consistent(FlushDbs(s, {d})) /\ Consistent(FlushDbs(s, DBs))
    BY FlushConsistent
  <2>2. Consistent(SwapDbs(s, FirstDb, r.other))
    BY <1>3, SwapConsistent
  <2> QED
    BY <1>12, <2>1, <2>2, AfterBulk
<1> QED
  BY <1>5, <1>6, <1>7, <1>8, <1>9, <1>10, <1>11, <1>12 DEF RequestType

\* A property of stores that every command keeps is kept by a run of commands.
LEMMA RunKeeps ==
    ASSUME NEW s, NEW t, NEW d, NEW cmds \in Seq(RequestType), NEW Good, s \in Good,
           \A q \in Good, i \in 1 .. Len(cmds) : After(q, t, d, cmds[i]) \in Good
    PROVE  RunAll(s, t, d, cmds) \in Good
<1>1. PICK g : IsRun(g, s, t, d, cmds)
  BY RunExists
<1> DEFINE P == {n \in Nat : g[n] \in Good}
<1>2. Len(cmds) \in Nat /\ \A i \in 0 .. Len(cmds) - 1 : i + 1 \in 1 .. Len(cmds)
  OBVIOUS
<1>3. g[0] = s /\ \A i \in 0 .. Len(cmds) - 1 : g[i + 1] = After(g[i], t, d, cmds[i + 1])
  BY <1>1, <1>2, RunSteps
<1>4. 0 \in P
  BY <1>3
<1>5. ASSUME NEW n \in 0 .. Len(cmds) - 1, n \in P PROVE n + 1 \in P
  BY <1>2, <1>3, <1>5
<1>6. \A n \in 0 .. Len(cmds) : n \in P
  <2> HIDE DEF P
  <2> QED
    BY <1>2, <1>4, <1>5, UpTo
<1>7. g[Len(cmds)] \in Good
  BY <1>2, <1>6
<1>8. RunAll(s, t, d, cmds) = g[Len(cmds)]
  BY <1>1, RunIs
<1> QED
  BY <1>7, <1>8

\* The consistent stores.
GoodStores == {s \in StoreType : MapsConsistent(s)}

\* So a run leaves a consistent store.
LEMMA RunConsistent ==
    ASSUME NEW s, Consistent(s), NEW t \in Nat \ {0}, NEW d \in DBs, NEW cmds \in Seq(RequestType)
    PROVE  Consistent(RunAll(s, t, d, cmds))
<1>1. ASSUME NEW q \in GoodStores, NEW i \in 1 .. Len(cmds)
      PROVE  After(q, t, d, cmds[i]) \in GoodStores
  <2>1. cmds[i] \in RequestType
    OBVIOUS
  <2> QED
    BY <2>1, AfterConsistent DEF GoodStores, Consistent
<1>2. s \in GoodStores
  BY DEF GoodStores, Consistent
<1>3. RunAll(s, t, d, cmds) \in GoodStores
  BY <1>1, <1>2, RunKeeps
<1> QED
  BY <1>3 DEF GoodStores, Consistent

\* Every sequence the model builds is one of requests.
LEMMA SequencesOfRequests ==
    /\ Requests \subseteq RequestType /\ Seq(Requests) \subseteq Seq(RequestType)
    /\ <<>> \in Seq(Requests)
    /\ \A r \in Requests : <<r>> \in Seq(Requests)
    /\ \A q \in Queues : q \in Seq(Requests)
    /\ \A a, b \in Seq(Requests) : a \o b \in Seq(Requests)
    /\ \A cmds \in Seq(Requests) : Remnants(cmds) \subseteq Seq(Requests)
<1>1. Requests \subseteq RequestType /\ Queues \subseteq Seq(Requests)
  BY PersistenceParameters
<1>2. /\ <<>> \in Seq(Requests)
      /\ \A r \in Requests : <<r>> \in Seq(Requests)
      /\ \A a, b \in Seq(Requests) : a \o b \in Seq(Requests)
  OBVIOUS
<1>3. Seq(Requests) \subseteq Seq(RequestType)
  BY <1>1
<1>4. ASSUME NEW cmds \in Seq(Requests), NEW w \in Remnants(cmds) PROVE w \in Seq(Requests)
  <2>a. PICK n \in 0 .. Len(cmds) : \E f \in [1 .. n -> DOMAIN cmds] : w = [i \in 1 .. n |-> cmds[f[i]]]
    BY <1>4 DEF Remnants
  <2>1. PICK f \in [1 .. n -> DOMAIN cmds] : w = [i \in 1 .. n |-> cmds[f[i]]]
    BY <2>a
  <2>2. \A i \in DOMAIN cmds : cmds[i] \in Requests
    OBVIOUS
  <2>3. n \in Nat
    OBVIOUS
  <2>4. \A i \in 1 .. n : w[i] \in Requests
    BY <2>1, <2>2
  <2>5. w = [i \in 1 .. n |-> w[i]]
    BY <2>1
  <2> QED
    BY <2>3, <2>4, <2>5, IsASeq
<1> QED
  BY <1>1, <1>2, <1>3, <1>4

\* Stores that are the same but for the key versions and the deadlines.
LEMMA BareConsistent ==
    ASSUME NEW s, Consistent(s)
    PROVE  Consistent(Quiet(s)) /\ \A t : Consistent(Load(s, t))
<1>1. Consistent(Quiet(s))
  BY StoreFields DEF Consistent, Quiet, Store, StoreType, MapsConsistent, Present
<1>2. ASSUME NEW t PROVE Consistent(Load(s, t))
  <2>1. [x \in Slots |-> IF x \in Lapsed(s, t) THEN NoDeadline ELSE s.ttl[x]]
            \in [Slots -> {NoDeadline} \cup (Nat \ {0})]
    BY StoreFields DEF Consistent
  <2> QED
    BY <2>1, StoreFields DEF Consistent, Load, Store, StoreType, MapsConsistent, Present
<1> QED
  BY <1>1, <1>2

\* The inductive invariant: the types, and the maps of both stores agree.
PInv == PTypeOK /\ MapsConsistent(store) /\ MapsConsistent(snap)

\* What it gives to an action.
LEMMA PInvFacts ==
    ASSUME PInv
    PROVE  /\ Consistent(store) /\ Consistent(snap) /\ Consistent(Fresh) /\ Consistent(EmptyStore)
           /\ Consistent(Snapshot)
           /\ now \in Nat \ {0}
           /\ config.appendonly \in BOOLEAN /\ config.appendfsync \in {"always", "everysec", "no"}
           /\ file \in Seq(RequestType) /\ buffer \in Seq(RequestType)
           /\ file \o buffer \in Seq(RequestType)
<1>1. Consistent(store) /\ Consistent(snap)
  BY DEF PInv, PTypeOK, Consistent
<1>2. Fresh = Quiet(store)
  BY DEF Fresh, Quiet
<1>3. Consistent(Fresh)
  BY <1>1, <1>2, BareConsistent
<1>4. Consistent(EmptyStore)
  BY AbsentIsNoValue DEF Consistent, EmptyStore, Store, StoreType, MapsConsistent, Present, Types, Values
<1>5. Consistent(Snapshot)
  BY <1>3, KeysInDbConsistent DEF Snapshot
<1>6. now \in Nat \ {0}
  BY TimeBound DEF PInv, PTypeOK
<1>7. config.appendonly \in BOOLEAN /\ config.appendfsync \in {"always", "everysec", "no"}
  BY PersistenceParameters DEF PInv, PTypeOK
<1>8. /\ file \in Seq(RequestType) /\ buffer \in Seq(RequestType)
      /\ file \o buffer \in Seq(RequestType)
  BY SequencesOfRequests DEF PInv, PTypeOK
<1> QED
  BY <1>1, <1>3, <1>4, <1>5, <1>6, <1>7, <1>8

\* Appending to the log, and flushing it, keeps the types.
LEMMA LogTyped ==
    ASSUME PInv, NEW cmds \in Seq(Requests), NEW b \in BOOLEAN, Log(cmds, b)
    PROVE  /\ file' \in Seq(Requests) /\ buffer' \in Seq(Requests) /\ spoilt' \in BOOLEAN
           /\ ~config.appendonly \/ config.appendfsync = "always" => buffer' = <<>>
<1>1. file \in Seq(Requests) /\ buffer \in Seq(Requests) /\ spoilt \in BOOLEAN
  BY DEF PInv, PTypeOK
<1>2. ~config.appendonly \/ config.appendfsync = "always" => buffer = <<>>
  BY DEF PInv, PTypeOK
<1>3. CASE UNCHANGED logVars
  BY <1>1, <1>2, <1>3 DEF logVars
<1>4. CASE config.appendonly /\ config.appendfsync # "always" /\ buffer' = buffer \o cmds
           /\ spoilt' = (spoilt \/ b) /\ UNCHANGED file
  BY <1>1, <1>4, SequencesOfRequests
<1>5. ASSUME config.appendonly, NEW written \in Remnants(cmds), file' = file \o written,
             spoilt' = (spoilt \/ b \/ written # cmds), UNCHANGED buffer
      PROVE  /\ file' \in Seq(Requests) /\ buffer' \in Seq(Requests) /\ spoilt' \in BOOLEAN
             /\ ~config.appendonly \/ config.appendfsync = "always" => buffer' = <<>>
  BY <1>1, <1>2, <1>5, SequencesOfRequests
<1> QED
  BY <1>3, <1>4, <1>5 DEF Log

\* Flushing and truncating leave a log of commands and an empty buffer.
LEMMA FlushTyped ==
    ASSUME PInv, NEW ok \in BOOLEAN, Flush(ok) \/ Truncate(ok)
    PROVE  file' \in Seq(Requests) /\ buffer' = <<>> /\ spoilt' \in BOOLEAN
<1>1. file \in Seq(Requests) /\ buffer \in Seq(Requests) /\ spoilt \in BOOLEAN
  BY DEF PInv, PTypeOK
<1>2. file \o buffer \in Seq(Requests) /\ <<>> \in Seq(Requests)
  BY <1>1, SequencesOfRequests
<1> QED
  BY <1>1, <1>2 DEF Flush, Truncate

\* What is not counted are slots.
LEMMA UncountedSlots ==
    ASSUME NEW d \in DBs, NEW r \in RequestType
    PROVE  Uncounted(d, r) \subseteq Slots
  BY PersistenceParameters DEF Uncounted, Slots, RequestType

\* The commands of a client, alone or in EXEC.
LEMMA ServeTyped ==
    ASSUME PInv, NEW d \in DBs, NEW cmds \in Seq(Requests), NEW logged \in Seq(Requests),
           Serve(d, cmds, logged)
    PROVE  PInv'
<1> DEFINE s == RunAll(Fresh, now, d, cmds)
<1>1. cmds \in Seq(RequestType)
  BY SequencesOfRequests
<1>2. Consistent(s)
  BY <1>1, PInvFacts, RunConsistent
<1>3. store' = Quiet(s)
  BY DEF Serve
<1> HIDE DEF s
<1>4. Consistent(store')
  BY <1>2, <1>3, BareConsistent
<1>5. /\ file' \in Seq(Requests) /\ buffer' \in Seq(Requests) /\ spoilt' \in BOOLEAN
      /\ ~config.appendonly \/ config.appendfsync = "always" => buffer' = <<>>
  <2>1. (d # FirstDb /\ logged # <<>>) \in BOOLEAN /\ Log(logged, d # FirstDb /\ logged # <<>>)
    BY DEF Serve
  <2> QED
    BY <2>1, LogTyped
<1>6. served' \in 0 .. MaxCommands
  BY PersistenceParameters DEF Serve, Count, PInv, PTypeOK
<1>7. \A i \in DOMAIN cmds : Uncounted(d, cmds[i]) \subseteq Slots
  BY <1>1, UncountedSlots
<1>8. unsaved' \in BOOLEAN /\ uncounted' \subseteq Slots /\ snap' = snap
  <2>1. unsaved \in BOOLEAN /\ uncounted \subseteq Slots
    BY DEF PInv, PTypeOK
  <2>2. CASE config.appendonly
    BY <2>1, <2>2 DEF Serve, rdbVars
  <2>3. CASE ~config.appendonly
    <3>1. /\ unsaved' = (unsaved \/ CountsAsDirty(s, cmds)) /\ snap' = snap
          /\ uncounted' = uncounted \cup UNION {Uncounted(d, cmds[i]) : i \in DOMAIN cmds}
      BY <2>3 DEF Serve, s
    <3>2. CountsAsDirty(s, cmds) \in BOOLEAN
      BY DEF CountsAsDirty
    <3> QED
      BY <1>7, <2>1, <3>1, <3>2
  <2> QED
    BY <2>2, <2>3
<1>9. up /\ up' = up /\ now' = now /\ config' = config
  BY DEF Serve
<1> QED
  BY <1>4, <1>5, <1>6, <1>8, <1>9 DEF PInv, PTypeOK, Consistent

\* A save writes a consistent snapshot, or none.
LEMMA SaveTyped ==
    ASSUME PInv, NEW ok \in BOOLEAN, Save(ok)
    PROVE  Consistent(snap') /\ unsaved' \in BOOLEAN /\ uncounted' \subseteq Slots
<1>1. unsaved \in BOOLEAN /\ uncounted \subseteq Slots /\ Consistent(snap) /\ Consistent(Snapshot)
  BY PInvFacts DEF PInv, PTypeOK
<1> QED
  BY <1>1 DEF Save, rdbVars

\* The timers.
LEMMA TimersTyped ==
    ASSUME PInv, NEW ok \in BOOLEAN, NEW S \in SUBSET Slots,
           FlushTimer(ok) \/ AutoSave(ok) \/ PurgeTimer(S) \/ PTick
    PROVE  PInv'
<1>1. CASE FlushTimer(ok)
  <2>1. file' \in Seq(Requests) /\ buffer' = <<>> /\ spoilt' \in BOOLEAN
    BY <1>1, FlushTyped DEF FlushTimer
  <2> QED
    BY <1>1, <2>1, SequencesOfRequests DEF FlushTimer, PInv, PTypeOK, rdbVars
<1>2. CASE AutoSave(ok)
  <2>1. Consistent(snap') /\ unsaved' \in BOOLEAN /\ uncounted' \subseteq Slots
    BY <1>2, SaveTyped DEF AutoSave
  <2>2. Consistent(store')
    BY <1>2, PInvFacts DEF AutoSave
  <2> QED
    BY <1>2, <2>1, <2>2 DEF AutoSave, PInv, PTypeOK, Consistent, logVars
<1>3. CASE PurgeTimer(S)
  <2>1. Consistent(DeleteKeys(Fresh, S))
    BY PInvFacts, DeleteConsistent
  <2>2. Consistent(store')
    BY <1>3, <2>1, BareConsistent DEF PurgeTimer
  <2>3. unsaved' \in BOOLEAN
    BY <1>3 DEF PurgeTimer, PInv, PTypeOK
  <2> QED
    BY <1>3, <2>2, <2>3 DEF PurgeTimer, PInv, PTypeOK, Consistent, logVars
<1>4. CASE PTick
  <2>1. now' \in 1 .. MaxTime
    BY <1>4, TimeBound DEF PTick, PInv, PTypeOK
  <2> QED
    BY <1>4, <2>1 DEF PTick, PInv, PTypeOK, logVars, rdbVars
<1> QED
  BY <1>1, <1>2, <1>3, <1>4

\* The process.
LEMMA ProcessTyped ==
    ASSUME PInv, NEW ok \in BOOLEAN, Start \/ Shutdown(ok) \/ Stop(ok) \/ Crash
    PROVE  PInv'
<1>1. CASE Start
  <2>1. Consistent(Replay(file, now))
    <3>1. Consistent(RunAll(EmptyStore, now, FirstDb, file))
      BY PInvFacts, RunConsistent, PersistenceParameters
    <3> QED
      BY <3>1, BareConsistent DEF Replay
  <2>2. Consistent(Load(snap, now))
    BY PInvFacts, BareConsistent
  <2>3. Consistent(store')
    BY <1>1, <2>1, <2>2 DEF Start
  <2>4. uncounted' \subseteq Slots
    BY <1>1 DEF Start, Lapsed
  <2> QED
    BY <1>1, <2>3, <2>4 DEF Start, PInv, PTypeOK, Consistent
<1>2. ASSUME Exit, file' \in Seq(Requests), buffer' = <<>>, spoilt' \in BOOLEAN,
             Consistent(snap'), unsaved' \in BOOLEAN, uncounted' \subseteq Slots
      PROVE  PInv'
  <2>1. Consistent(store') /\ store' = EmptyStore
    BY <1>2, PInvFacts DEF Exit
  <2> QED
    BY <1>2, <2>1, SequencesOfRequests DEF Exit, PInv, PTypeOK, Consistent
<1>3. /\ file \in Seq(Requests) /\ spoilt \in BOOLEAN /\ Consistent(snap)
      /\ unsaved \in BOOLEAN /\ uncounted \subseteq Slots
  BY PInvFacts DEF PInv, PTypeOK
<1>4. CASE Shutdown(ok)
  <2>1. Consistent(snap') /\ unsaved' \in BOOLEAN /\ uncounted' \subseteq Slots
    BY <1>4, SaveTyped DEF Shutdown
  <2>2. file' \in Seq(Requests) /\ buffer' = <<>> /\ spoilt' \in BOOLEAN
    <3>1. CASE config.appendonly
      BY <1>4, <3>1, FlushTyped DEF Shutdown
    <3>2. CASE ~config.appendonly
      <4>1. file' = file /\ spoilt' = spoilt /\ buffer' = buffer
        BY <1>4, <3>2 DEF Shutdown, logVars
      <4>2. buffer = <<>>
        BY <3>2 DEF PInv, PTypeOK
      <4> QED
        BY <1>3, <4>1, <4>2
    <3> QED
      BY <3>1, <3>2
  <2> QED
    BY <1>2, <1>4, <2>1, <2>2 DEF Shutdown
<1>5. CASE Stop(ok)
  <2>1. file' \in Seq(Requests) /\ buffer' = <<>> /\ spoilt' \in BOOLEAN
    BY <1>5, FlushTyped DEF Stop
  <2> QED
    BY <1>2, <1>3, <1>5, <2>1 DEF Stop, rdbVars
<1>6. CASE Crash
  BY <1>2, <1>3, <1>6 DEF Crash, rdbVars
<1> QED
  BY <1>1, <1>4, <1>5, <1>6

\* The actions as they occur in PNext.
LEMMA PActions ==
    ASSUME PNext
    PROVE  \/ \E d \in DBs, cmds \in Seq(Requests), logged \in Seq(Requests) : Serve(d, cmds, logged)
           \/ \E r \in Requests : BridgeQueue(r)
           \/ \E ok \in BOOLEAN : FlushTimer(ok) \/ AutoSave(ok) \/ Shutdown(ok) \/ Stop(ok)
           \/ \E S \in SUBSET Slots : PurgeTimer(S)
           \/ PTick \/ Start \/ Crash
<1>1. ASSUME NEW d \in DBs, NEW r \in Requests, Run(d, r)
      PROVE  \E cmds \in Seq(Requests), logged \in Seq(Requests) : Serve(d, cmds, logged)
  <2>1. <<r>> \in Seq(Requests) /\ <<>> \in Seq(Requests)
    BY SequencesOfRequests
  <2> QED
    BY <1>1, <2>1 DEF Run
<1>2. ASSUME NEW d \in DBs, NEW q \in Queues, Exec(d, q)
      PROVE  \E cmds \in Seq(Requests), logged \in Seq(Requests) : Serve(d, cmds, logged)
  BY <1>2, SequencesOfRequests DEF Exec
<1> QED
  BY <1>1, <1>2 DEF PNext

\* Every step keeps the invariant.
LEMMA PInvStep ==
    PInv /\ [PNext]_pVars => PInv'
<1> SUFFICES ASSUME PInv, [PNext]_pVars PROVE PInv'
  OBVIOUS
<1>1. CASE UNCHANGED pVars
  BY <1>1 DEF pVars, logVars, rdbVars, PInv, PTypeOK
<1>2. ASSUME NEW r \in Requests, BridgeQueue(r) PROVE PInv'
  <2>1. /\ file' \in Seq(Requests) /\ buffer' \in Seq(Requests) /\ spoilt' \in BOOLEAN
        /\ ~config.appendonly \/ config.appendfsync = "always" => buffer' = <<>>
    <3>1. <<r>> \in Seq(Requests)
      BY SequencesOfRequests
    <3> QED
      BY <1>2, <3>1, LogTyped DEF BridgeQueue
  <2>2. served' \in 0 .. MaxCommands
    BY <1>2, PersistenceParameters DEF BridgeQueue, Count, PInv, PTypeOK
  <2> QED
    BY <1>2, <2>1, <2>2 DEF BridgeQueue, Appending, rdbVars, PInv, PTypeOK
<1>3. CASE PNext
  BY <1>2, <1>3, PActions, ServeTyped, TimersTyped, ProcessTyped
<1> QED
  BY <1>1, <1>3

\* At first both files are empty.
LEMMA PInvInit ==
    PInit => PInv
<1> SUFFICES ASSUME PInit PROVE PInv
  OBVIOUS
<1>1. EmptyStore \in StoreType /\ MapsConsistent(EmptyStore)
  BY AbsentIsNoValue DEF EmptyStore, Store, StoreType, MapsConsistent, Present, Types, Values
<1>2. now \in 1 .. MaxTime /\ served \in 0 .. MaxCommands
  BY TimeBound, PersistenceParameters DEF PInit, Init
<1> QED
  BY <1>1, <1>2, SequencesOfRequests DEF PInit, Init, PInv, PTypeOK

\* The inductive invariant holds in every reachable state,
THEOREM PersistenceConsistent == PSpec => []PInv
<1> QED
  BY PInvInit, PInvStep, PTL DEF PSpec

\* and with it the types: a process that is down has no memory, and nothing
\* waits in the buffer where nothing should (aof.js:57-72).
THEOREM PersistenceTyped == PSpec => []PTypeOK
<1>1. PInv => PTypeOK
  BY DEF PInv
<1> QED
  BY <1>1, PersistenceConsistent, PTL

-----------------------------------------------------------------------------
(* The log rebuilds the store. *)

\* Replay of the log, at whatever time, agrees with the store where no
\* deadline had an influence.
Mirror(log, s) == \A t \in Nat : Agree(RunAll(EmptyStore, t, FirstDb, log), s, Dated(log))

\* The inductive invariant behind LogRebuilds.
Mirrors == config.appendonly /\ up /\ ~spoilt => Mirror(file \o buffer, store)

\* Key versions are of no interest.
LEMMA TwinQuiet ==
    ASSUME NEW s, NEW o, NEW T, Agree(s, o, T)
    PROVE  Agree(s, Quiet(o), T) /\ Agree(Quiet(s), o, T)
  BY DEF Agree, Twin, Alike, Quiet, Store

\* More commands, logged as they are served.
LEMMA MirrorGrows ==
    ASSUME NEW log \in Seq(RequestType), NEW cmds \in Seq(RequestType), NEW s,
           NEW u \in Nat, Mirror(log, s)
    PROVE  Mirror(log \o cmds, RunAll(s, u, FirstDb, cmds))
<1>1. ASSUME NEW t \in Nat
      PROVE  Agree(RunAll(EmptyStore, t, FirstDb, log \o cmds), RunAll(s, u, FirstDb, cmds),
                   Dated(log \o cmds))
  BY LogGrows DEF Mirror
<1> QED
  BY <1>1 DEF Mirror

\* What leaves alone each slot without a deadline does not matter to the log.
LEMMA SteadyMirrors ==
    ASSUME NEW log, NEW s, NEW a, Mirror(log, s),
           \A y \in Slots : s.ttl[y] = NoDeadline => Alike(s, a, y)
    PROVE  Mirror(log, a)
<1>1. ASSUME NEW o, NEW T, Agree(o, s, T) PROVE Agree(o, a, T)
  <2>1. ASSUME NEW y \in Slots \ T PROVE Twin(o, a, y)
    <3>1. Twin(o, s, y)
      BY <1>1 DEF Agree
    <3>2. Alike(s, a, y)
      BY <3>1 DEF Twin, Alike
    <3> QED
      BY <3>1, <3>2 DEF Twin, Alike
  <2> QED
    BY <2>1 DEF Agree
<1> QED
  BY <1>1 DEF Mirror

\* A GET is not logged: it leaves each slot without a deadline as it was,
\* on whatever database.
LEMMA GetMirrors ==
    ASSUME NEW log, NEW s, NEW u, NEW d \in DBs, NEW r \in RequestType, r.cmd = "get", Mirror(log, s)
    PROVE  Mirror(log, After(s, u, d, r))
<1> DEFINE x == <<d, r.key>>
           a == After(s, u, d, r)
<1>1. x \in Slots
  BY DEF Slots, RequestType
<1>2. a \in {Checked(s, u, x), Fetched(s, u, x)}
  BY AfterGet
<1> HIDE DEF x, a
<1>3. SameBut(s, a, x)
  BY <1>1, <1>2, CallsAtOneSlot
<1>4. s.ttl[x] = NoDeadline => Alike(s, a, x)
  <2>1. SUFFICES ASSUME s.ttl[x] = NoDeadline PROVE Alike(s, a, x)
    OBVIOUS
  <2>2. Alike(s, Checked(s, u, x), x)
    BY <1>1, <2>1 DEF Alike, Store, Checked, CheckExpired, DropSlots, IsExpired, HasExpiry
  <2> DEFINE p == Checked(s, u, x)
  <2>3. p.ttl[x] = NoDeadline
    BY <2>1, <2>2 DEF Alike
  <2> HIDE DEF p
  <2>4. Alike(p, Get(p, u, x), x)
    BY <1>1, <2>3 DEF Alike, Store, Get, Touch, CheckExpired, DropSlots, IsExpired, HasExpiry
  <2>5. Alike(s, Fetched(s, u, x), x)
    BY <2>2, <2>4 DEF Alike, Fetched, p
  <2> QED
    BY <1>2, <2>2, <2>5
<1>5. \A y \in Slots : s.ttl[y] = NoDeadline => Alike(s, a, y)
  BY <1>3, <1>4 DEF SameBut
<1> QED
  BY <1>5, SteadyMirrors DEF a

\* Nor does the removal of slots that have a deadline.
LEMMA DropMirrors ==
    ASSUME NEW log, NEW s, Mirror(log, s), NEW S, \A x \in S : HasExpiry(s, x)
    PROVE  Mirror(log, DropSlots(s, S)) /\ Mirror(log, DeleteKeys(s, S))
<1>1. \A y \in Slots : s.ttl[y] = NoDeadline => Alike(s, DropSlots(s, S), y)
  BY DEF Alike, DropSlots, Store, HasExpiry
<1>2. \A y \in Slots : s.ttl[y] = NoDeadline => Alike(s, DeleteKeys(s, S), y)
  BY <1>1 DEF Alike, DeleteKeys, Bump, Store
<1> QED
  BY <1>1, <1>2, SteadyMirrors

\* Nor do the key versions.
LEMMA QuietMirrors ==
    ASSUME NEW log, NEW s, Mirror(log, s)
    PROVE  Mirror(log, Quiet(s))
<1>1. \A y \in Slots : s.ttl[y] = NoDeadline => Alike(s, Quiet(s), y)
  BY DEF Alike, Quiet, Store
<1> QED
  BY <1>1, SteadyMirrors

\* As long as the log tells what happened, logged commands are appended to it.
LEMMA LogAppends ==
    ASSUME PInv, NEW cmds \in Seq(Requests), NEW b \in BOOLEAN, Log(cmds, b),
           config.appendonly, ~spoilt'
    PROVE  ~spoilt /\ ~b /\ file' \o buffer' = (file \o buffer) \o cmds
<1>1. file \in Seq(Requests) /\ buffer \in Seq(Requests)
  BY DEF PInv, PTypeOK
<1>2. config.appendfsync = "always" => buffer = <<>>
  BY DEF PInv, PTypeOK
<1>3. /\ file \o (buffer \o cmds) = (file \o buffer) \o cmds
      /\ (file \o <<>>) \o cmds = file \o cmds /\ (file \o cmds) \o <<>> = file \o cmds
  <2> HIDE <1>2
  <2>1. file \o (buffer \o cmds) = (file \o buffer) \o cmds
    BY <1>1, ConcatAssociative
  <2>2. file \o <<>> = file /\ (file \o cmds) \o <<>> = file \o cmds
    <3>1. file \o cmds \in Seq(Requests)
      BY <1>1
    <3> QED
      BY <1>1, <3>1, ConcatEmptySeq
  <2> QED
    BY <2>1, <2>2
<1> QED
  BY <1>2, <1>3 DEF Log

\* Commands, alone or in EXEC.
LEMMA ServeMirrors ==
    ASSUME PInv, Mirrors, NEW d \in DBs, NEW cmds \in Seq(Requests), NEW logged \in Seq(Requests),
           Serve(d, cmds, logged),
           logged = cmds \/ (\E r \in Requests : r.cmd = "get" /\ cmds = <<r>> /\ logged = <<>>)
    PROVE  Mirrors'
<1> SUFFICES ASSUME config.appendonly, ~spoilt' PROVE Mirror(file' \o buffer', store')
  BY DEF Mirrors, Serve
<1> DEFINE log == file \o buffer
           s == RunAll(Fresh, now, d, cmds)
<1>1. ~spoilt /\ (d = FirstDb \/ logged = <<>>) /\ file' \o buffer' = log \o logged
  BY LogAppends DEF Serve
<1>2. log \in Seq(RequestType) /\ cmds \in Seq(RequestType) /\ now \in Nat /\ log \o <<>> = log
  BY PInvFacts, SequencesOfRequests, ConcatEmptySeq
<1>3. Mirror(log, store)
  BY <1>1 DEF Mirrors, Serve
<1>4. Mirror(log, Fresh)
  <2>1. Fresh = Quiet(store)
    BY DEF Fresh, Quiet
  <2> HIDE DEF log
  <2> QED
    BY <1>3, <2>1, QuietMirrors
<1>5. Mirror(log \o logged, s)
  <2>1. CASE logged = cmds /\ d = FirstDb
    <3> HIDE DEF log
    <3> QED
      BY <1>2, <1>4, <2>1, MirrorGrows
  <2>2. CASE logged = cmds /\ logged = <<>>
    BY <1>2, <1>4, <2>2, EmptyRun
  <2>3. ASSUME NEW r \in Requests, r.cmd = "get", cmds = <<r>>, logged = <<>>
        PROVE  Mirror(log \o logged, s)
    <3>1. r \in RequestType
      BY PersistenceParameters
    <3>2. s = After(Fresh, now, d, r)
      BY <2>3, <3>1, ShortRun
    <3> HIDE DEF log, s
    <3>3. Mirror(log, After(Fresh, now, d, r))
      BY <1>4, <2>3, <3>1, GetMirrors
    <3> QED
      BY <1>2, <2>3, <3>2, <3>3
  <2> QED
    BY <1>1, <2>1, <2>2, <2>3
<1>6. Mirror(log \o logged, Quiet(s))
  <2> HIDE DEF log, s
  <2> QED
    BY <1>5, QuietMirrors
<1>7. store' = Quiet(s)
  BY DEF Serve
<1> QED
  BY <1>1, <1>6, <1>7

\* Timers.
LEMMA TimersMirror ==
    ASSUME PInv, Mirrors, NEW ok \in BOOLEAN, NEW S \in SUBSET Slots,
           FlushTimer(ok) \/ AutoSave(ok) \/ PurgeTimer(S) \/ PTick
    PROVE  Mirrors'
<1> SUFFICES ASSUME config.appendonly, up, ~spoilt' PROVE Mirror(file' \o buffer', store')
  BY DEF Mirrors, FlushTimer, AutoSave, PurgeTimer, PTick
<1> DEFINE log == file \o buffer
<1>1. ~spoilt => Mirror(log, store) /\ Mirror(log, Fresh)
  <2>1. ~spoilt => Mirror(log, store)
    BY DEF Mirrors
  <2>2. Fresh = Quiet(store)
    BY DEF Fresh, Quiet
  <2> HIDE DEF log
  <2> QED
    BY <2>1, <2>2, QuietMirrors
<1>2. CASE FlushTimer(ok)
  <2>1. store' = store /\ ~spoilt /\ (ok \/ buffer = <<>>)
    BY <1>2 DEF FlushTimer, Flush
  <2>2. file' \o buffer' = log
    <3>1. file' = log /\ buffer' = <<>>
      BY <1>2, <2>1, PInvFacts, ConcatEmptySeq DEF FlushTimer, Flush
    <3>2. log \in Seq(RequestType)
      BY PInvFacts
    <3> QED
      BY <3>1, <3>2, ConcatEmptySeq
  <2> QED
    BY <1>1, <2>1, <2>2
<1>3. CASE AutoSave(ok)
  <2>1. ~spoilt /\ file' \o buffer' = log /\ store' = Snapshot
    BY <1>3 DEF AutoSave, logVars
  <2> DEFINE E == {x \in {y \in Slots : y[1] \in DBs /\ Present(Fresh, y)} : IsExpired(Fresh, now, x)}
  <2>2. store' = DropSlots(Fresh, E) /\ \A x \in E : HasExpiry(Fresh, x)
    BY <2>1 DEF Snapshot, KeysInDb, CheckExpired, IsExpired
  <2> HIDE DEF log, E
  <2> QED
    BY <1>1, <2>1, <2>2, DropMirrors
<1>4. CASE PurgeTimer(S)
  <2>1. ~spoilt /\ file' \o buffer' = log /\ store' = Quiet(DeleteKeys(Fresh, S))
    BY <1>4 DEF PurgeTimer, logVars
  <2>2. \A x \in S : HasExpiry(Fresh, x)
    BY <1>4 DEF PurgeTimer, IsExpired, HasExpiry, Fresh, Store
  <2> HIDE DEF log
  <2>4. Mirror(log, DeleteKeys(Fresh, S))
    BY <1>1, <2>1, <2>2, DropMirrors
  <2> QED
    BY <2>1, <2>4, QuietMirrors
<1>5. CASE PTick
  BY <1>1, <1>5 DEF PTick, logVars
<1> QED
  BY <1>2, <1>3, <1>4, <1>5

\* A process that starts replays the whole log.
LEMMA StartMirrors ==
    ASSUME PInv, Start
    PROVE  Mirrors'
<1> SUFFICES ASSUME config.appendonly PROVE Mirror(file' \o buffer', store')
  BY DEF Mirrors, Start
<1> DEFINE s == RunAll(EmptyStore, now, FirstDb, file)
<1>1. file \in Seq(RequestType) /\ now \in Nat
  BY PInvFacts
<1>2. file' \o buffer' = file
  BY <1>1, ConcatEmptySeq DEF Start, PInv, PTypeOK
<1>3. Mirror(file, s)
  BY <1>1, ReplaysAgree DEF Mirror
<1>4. Mirror(file, Quiet(s))
  <2> HIDE DEF s
  <2> QED
    BY <1>3, QuietMirrors
<1> QED
  BY <1>2, <1>4 DEF Start, Replay

\* Every step keeps it.
LEMMA MirrorsStep ==
    PInv /\ Mirrors /\ [PNext]_pVars => Mirrors'
<1> SUFFICES ASSUME PInv, Mirrors, [PNext]_pVars PROVE Mirrors'
  OBVIOUS
<1>1. CASE UNCHANGED pVars
  BY <1>1 DEF pVars, logVars, Mirrors
<1>2. ASSUME NEW d \in DBs, NEW r \in Requests, Run(d, r) PROVE Mirrors'
  <2>1. <<r>> \in Seq(Requests) /\ <<>> \in Seq(Requests)
    BY SequencesOfRequests
  <2>2. CASE IsWriteCommand(r)
    <3>1. Serve(d, <<r>>, <<r>>)
      BY <1>2, <2>2 DEF Run
    <3> QED
      BY <2>1, <3>1, ServeMirrors
  <2>3. CASE ~IsWriteCommand(r)
    <3>1. Serve(d, <<r>>, <<>>) /\ r.cmd = "get"
      BY <1>2, <2>3 DEF Run, IsWriteCommand
    <3> QED
      BY <2>1, <3>1, ServeMirrors
  <2> QED
    BY <2>2, <2>3
<1>3. ASSUME NEW d \in DBs, NEW q \in Queues, Exec(d, q) PROVE Mirrors'
  BY <1>3, SequencesOfRequests, ServeMirrors DEF Exec
<1>4. ASSUME NEW r \in Requests, BridgeQueue(r) PROVE Mirrors'
  <2>1. <<r>> \in Seq(Requests)
    BY SequencesOfRequests
  <2>2. config.appendonly /\ Log(<<r>>, TRUE) /\ config' = config
    BY <1>4 DEF BridgeQueue, Appending
  <2>3. spoilt'
    BY <2>2 DEF Log
  <2> QED
    BY <2>3 DEF Mirrors
<1>5. ASSUME NEW ok \in BOOLEAN, Shutdown(ok) \/ Stop(ok) \/ Crash PROVE Mirrors'
  BY <1>5 DEF Shutdown, Stop, Crash, Exit, Mirrors
<1>6. CASE PNext
  BY <1>2, <1>3, <1>4, <1>5, <1>6, TimersMirror, StartMirrors DEF PNext
<1> QED
  BY <1>1, <1>6

\* The log rebuilds, at every moment and whenever it is read, all that no
\* deadline has influenced.
THEOREM LogMirrorsStore == PSpec => []Mirrors
<1>1. PInit => Mirrors
  BY DEF PInit, Mirrors
<1> QED
  BY <1>1, MirrorsStep, PersistenceConsistent, PTL DEF PSpec

\* In particular a restart now would bring back those values: commands that
\* were refused, EXECs, FLUSHALL and SWAPDB included (connection.js:76-84,
\* aof.js:57-128).
THEOREM LogRebuildsStore == PSpec => []LogRebuilds
<1>1. PInv /\ Mirrors => LogRebuilds
  BY PInvFacts DEF Mirrors, Mirror, LogRebuilds, Replay, Quiet, Store, Agree, Twin, Alike
<1> QED
  BY <1>1, LogMirrorsStore, PersistenceConsistent, PTL

\* A server that stops in an orderly way and can write its file keeps what
\* clients see, but for what a deadline influences (server.js:131-147, 172-176).
THEOREM OrderlyStop == PSpec => OrderlyStopKeepsData
<1> DEFINE Orderly == \/ ~config.appendonly /\ Shutdown(TRUE)
                      \/ config.appendonly /\ ~spoilt /\ Stop(TRUE)
<1>1. ASSUME PInv, Mirrors, config.appendonly, ~spoilt, Stop(TRUE)
      PROVE  KeepsData
  <2> DEFINE log == file \o buffer
             s == RunAll(EmptyStore, now, FirstDb, log)
  <2>1. file' = log /\ up
    BY <1>1 DEF Stop, Flush, Exit
  <2>2. Agree(s, store, Dated(log))
    BY <1>1, <2>1, PInvFacts DEF Mirrors, Mirror
  <2>3. Replay(file', now).val = s.val
    BY <2>1 DEF Replay, Quiet, Store
  <2> HIDE DEF s
  <2>4. ASSUME NEW x \in Slots \ Dated(log) PROVE s.val[x] = VisibleValue(store, now, x)
    <3>1. Twin(s, store, x)
      BY <2>2 DEF Agree
    <3> QED
      BY <3>1 DEF Twin, Alike, VisibleValue, Visible, Present, IsExpired, HasExpiry
  <2> HIDE DEF log
  <2> QED
    BY <1>1, <2>3, <2>4 DEF KeepsData, log
<1>2. ASSUME PInv, ~config.appendonly, Shutdown(TRUE)
      PROVE  KeepsData
  <2>1. Load(snap', now).val = Snapshot.val
    BY <1>2 DEF Shutdown, Save, Load, Store
  <2>2. ASSUME NEW x \in Slots PROVE Snapshot.val[x] = VisibleValue(store, now, x)
    <3>1. x[1] \in DBs
      BY DEF Slots
    <3> QED
      BY <3>1 DEF Snapshot, KeysInDb, CheckExpired, DropSlots, Store, Fresh, VisibleValue, Visible,
                  Present, IsExpired, HasExpiry
  <2> QED
    BY <1>2, <2>1, <2>2 DEF KeepsData
<1>3. PInv /\ Mirrors /\ [PNext]_pVars => [Orderly => KeepsData]_pVars
  BY <1>1, <1>2
<1> QED
  BY <1>3, PersistenceConsistent, LogMirrorsStore, PTL DEF PSpec, OrderlyStopKeepsData

-----------------------------------------------------------------------------
(* While nothing counts as changed, the snapshot is what clients see. *)

\* What clients will see of a slot from now on is the same in two stores.
Lasting(s, o, t, x) == \A u \in Nat : u >= t => Shown(o, u, x) = Shown(s, u, x)

\* Slots that are alike are seen alike.
LEMMA AlikeLasts ==
    ASSUME NEW s, NEW o, NEW t, NEW x, Alike(s, o, x)
    PROVE  Lasting(s, o, t, x)
  BY DEF Alike, Lasting, Shown, VisibleValue, VisibleDeadline, Visible, Present, IsExpired, HasExpiry

\* What has expired will not be seen again, so purging it makes no difference.
LEMMA PurgeLasts ==
    ASSUME NEW s \in StoreType, NEW t \in Nat, NEW S, \A x \in S \cap Slots : IsExpired(s, t, x)
    PROVE  \A x \in Slots : Lasting(s, DropSlots(s, S), t, x)
<1> SUFFICES ASSUME NEW x \in Slots, NEW u \in Nat, u >= t
             PROVE  Shown(DropSlots(s, S), u, x) = Shown(s, u, x)
  BY DEF Lasting
<1> DEFINE o == DropSlots(s, S)
<1>1. CASE x \in S
  <2>1. HasExpiry(s, x) /\ t >= s.ttl[x]
    BY <1>1 DEF IsExpired
  <2>2. s.ttl[x] \in Int
    BY StoreFields DEF NoDeadline
  <2>3. ~Visible(s, u, x)
    BY <2>1, <2>2 DEF Visible, IsExpired
  <2>4. ~Visible(o, u, x)
    BY <1>1 DEF DropSlots, Store, Visible, Present
  <2> QED
    BY <2>3, <2>4 DEF Shown, VisibleValue, VisibleDeadline
<1>2. CASE x \notin S
  <2>1. o.val[x] = s.val[x] /\ o.ttl[x] = s.ttl[x]
    BY <1>2 DEF DropSlots, Store
  <2> QED
    BY <2>1 DEF Shown, VisibleValue, VisibleDeadline, Visible, Present, IsExpired, HasExpiry
<1> QED
  BY <1>1, <1>2

\* What reading a slot leaves.
LEMMA ReadLasts ==
    ASSUME NEW s \in StoreType, NEW t \in Nat, NEW x \in Slots
    PROVE  \A y \in Slots : Lasting(s, Checked(s, t, x), t, y) /\ Lasting(s, Fetched(s, t, x), t, y)
<1> DEFINE E == {z \in {x} : IsExpired(s, t, z)}
           p == Checked(s, t, x)
<1>1. p = DropSlots(s, E) /\ \A z \in E \cap Slots : IsExpired(s, t, z)
  BY DEF Checked, CheckExpired
<1>2. \A y \in Slots : Lasting(s, p, t, y)
  <2> HIDE DEF E, p
  <2> QED
    BY <1>1, PurgeLasts
<1>3. ~IsExpired(p, t, x)
  BY DEF Checked, CheckExpired, DropSlots, Store, IsExpired, HasExpiry
<1>4. \A y \in Slots : Fetched(s, t, x).val[y] = p.val[y] /\ Fetched(s, t, x).ttl[y] = p.ttl[y]
  <2> HIDE DEF p
  <2> QED
    BY <1>3 DEF Fetched, Get, Touch, CheckExpired, DropSlots, Store, p
<1>5. \A y \in Slots : \A u : Shown(Fetched(s, t, x), u, y) = Shown(p, u, y)
  <2> HIDE DEF p
  <2> QED
    BY <1>4 DEF Shown, VisibleValue, VisibleDeadline, Visible, Present, IsExpired, HasExpiry
<1> HIDE DEF p
<1> QED
  BY <1>2, <1>5 DEF Lasting, p

\* Reading a slot bumps no version,
LEMMA ReadsCount ==
    ASSUME NEW s, NEW t, NEW x
    PROVE  Checked(s, t, x).mod = s.mod /\ Fetched(s, t, x).mod = s.mod
<1>1. \A q : Checked(q, t, x).mod = q.mod /\ Get(q, t, x).mod = q.mod
  BY DEF Checked, CheckExpired, DropSlots, Get, Touch, Store
<1> QED
  BY <1>1 DEF Fetched

\* removing one that is there does.
LEMMA RemovalCounts ==
    ASSUME NEW s, NEW x
    PROVE  /\ s.mod \subseteq DeleteKeys(s, {x}).mod
           /\ Present(s, x) => x \in DeleteKeys(s, {x}).mod
  BY DEF DeleteKeys, Bump, DropSlots, Store

\* A command that has bumped no version, and is no flush, has changed nothing
\* but what Uncounted names.
Still(s, a, t, d, r) ==
    /\ s.mod \subseteq a.mod
    /\ a.mod = {} => \A y \in Slots \ Uncounted(d, r) : Lasting(s, a, t, y)

\* What only reads leave, and what bumps a version, will do.
LEMMA StillCases ==
    ASSUME NEW s, NEW a, NEW t, NEW d, NEW r,
           \/ a.mod = s.mod /\ \A y \in Slots : Lasting(s, a, t, y)
           \/ s.mod \subseteq a.mod /\ a.mod # {}
    PROVE  Still(s, a, t, d, r)
  BY DEF Still

\* GET, SET, RENAME and SADD.
LEMMA WritesStill ==
    ASSUME NEW s \in StoreType, NEW t \in Nat, NEW d \in DBs, NEW r \in RequestType,
           r.cmd \in {"get", "set", "rename", "sadd"}
    PROVE  Still(s, After(s, t, d, r), t, d, r)
<1> DEFINE x == <<d, r.key>>
           y == <<d, r.to>>
           a == After(s, t, d, r)
           p == Checked(s, t, x)
           g == Fetched(s, t, x)
<1>1. x \in Slots /\ y \in Slots
  BY DEF Slots, RequestType
<1>2. /\ p.mod = s.mod /\ \A z \in Slots : Lasting(s, p, t, z)
      /\ g.mod = s.mod /\ \A z \in Slots : Lasting(s, g, t, z)
  <2> HIDE DEF x
  <2> QED
    BY <1>1, ReadsCount, ReadLasts
<1>3. Still(s, p, t, d, r) /\ Still(s, g, t, d, r)
  <2> HIDE DEF p, g
  <2> QED
    BY <1>2, StillCases
<1>4. CASE r.cmd = "get"
  <2>1. a = p \/ a = g
    BY <1>4, AfterGet
  <2> QED
    BY <1>3, <2>1
<1>5. CASE r.cmd = "set"
  <2> DEFINE o == PutValue(g, x, r.val, "string")
             ex == IF r.ttl = 0 THEN NoDeadline ELSE t + r.ttl
  <2>1. a = p \/ a = SetExpireAt(o, x, ex)
    BY <1>5, AfterSet
  <2>2. SetExpireAt(o, x, ex).mod = s.mod \cup {x}
    <3> HIDE DEF p, g, x, ex
    <3>1. o.mod = g.mod \cup {x}
      BY DEF PutValue, Store
    <3> HIDE DEF o
    <3>2. SetExpireAt(o, x, ex).mod = o.mod
      BY DEF SetExpireAt, Store
    <3> QED
      BY <1>2, <3>1, <3>2
  <2> HIDE DEF o, ex, x, p, g, a
  <2>3. Still(s, SetExpireAt(o, x, ex), t, d, r)
    BY <2>2, StillCases
  <2> QED
    BY <1>3, <2>1, <2>3 DEF a
<1>6. CASE r.cmd = "rename"
  <2> DEFINE c == DeleteKeys(p, {x})
             o == PutValue(c, y, p.val[x], p.typ[x])
  <2>1. a = p \/ a = o \/ a = SetExpireAt(o, y, p.ttl[x])
    BY <1>6, AfterRename
  <2> HIDE DEF p, g, x, y, a
  <2>2. s.mod \subseteq c.mod
    BY <1>2, RemovalCounts
  <2> HIDE DEF c
  <2>3. o.mod = c.mod \cup {y}
    BY DEF PutValue, Store
  <2> HIDE DEF o
  <2>4. \A deadline : SetExpireAt(o, y, deadline).mod = o.mod
    BY DEF SetExpireAt, Store
  <2>5. Still(s, o, t, d, r) /\ Still(s, SetExpireAt(o, y, p.ttl[x]), t, d, r)
    BY <2>2, <2>3, <2>4, StillCases
  <2> QED
    BY <1>3, <2>1, <2>5 DEF a
<1>7. CASE r.cmd = "sadd"
  <2> DEFINE v == g.val[x] \cup {r.elem}
             m == MutateInPlace(g, x, v)
  <2>1. a = p \/ a = PutValue(g, x, {r.elem}, "set") \/ a = PutValue(m, x, v, "set")
    BY <1>7, AfterSadd DEF Grown
  <2> HIDE DEF p, g, x, y, a, v
  <2>2. m.mod = s.mod
    BY <1>2 DEF MutateInPlace, Store
  <2> HIDE DEF m
  <2>3. PutValue(g, x, {r.elem}, "set").mod = s.mod \cup {x}
    BY <1>2 DEF PutValue, Store
  <2>4. PutValue(m, x, v, "set").mod = s.mod \cup {x}
    BY <2>2 DEF PutValue, Store
  <2>5. Still(s, PutValue(g, x, {r.elem}, "set"), t, d, r)
    BY <2>3, StillCases
  <2>6. Still(s, PutValue(m, x, v, "set"), t, d, r)
    BY <2>4, StillCases
  <2> QED
    BY <1>3, <2>1, <2>5, <2>6 DEF a
<1> QED
  BY <1>4, <1>5, <1>6, <1>7

\* DEL, SREM, EXPIRE, PERSIST and SWAPDB.
LEMMA ChangesStill ==
    ASSUME NEW s, Consistent(s), NEW t \in Nat, NEW d \in DBs, NEW r \in RequestType,
           r.cmd \in {"del", "srem", "expire", "persist", "swapdb"}
    PROVE  Still(s, After(s, t, d, r), t, d, r)
<1> DEFINE x == <<d, r.key>>
           a == After(s, t, d, r)
           p == Checked(s, t, x)
           g == Fetched(s, t, x)
<1>1. x \in Slots /\ s \in StoreType
  BY DEF Slots, RequestType, Consistent
<1>2. /\ p.mod = s.mod /\ \A z \in Slots : Lasting(s, p, t, z)
      /\ g.mod = s.mod /\ \A z \in Slots : Lasting(s, g, t, z)
  <2> HIDE DEF x
  <2> QED
    BY <1>1, ReadsCount, ReadLasts
<1>3. Still(s, p, t, d, r) /\ Still(s, g, t, d, r)
  <2> HIDE DEF p, g
  <2> QED
    BY <1>2, StillCases
<1>4. CASE r.cmd = "del"
  <2>1. a = DeleteKeys(s, {x})
    BY <1>4, AfterDel
  <2>2. s.mod \subseteq a.mod /\ (Present(s, x) => x \in a.mod)
    BY <2>1, RemovalCounts
  <2>3. ASSUME ~Present(s, x), NEW y \in Slots, NEW u PROVE Shown(a, u, y) = Shown(s, u, y)
    <3>1. /\ y # x => a.val[y] = s.val[y] /\ a.ttl[y] = s.ttl[y]
          /\ a.val[y] = s.val[y]
      BY <2>1, <2>3 DEF DeleteKeys, Bump, DropSlots, Store, Present
    <3> HIDE DEF a, x
    <3> QED
      BY <2>3, <3>1 DEF Shown, VisibleValue, VisibleDeadline, Visible, Present, IsExpired, HasExpiry
  <2> HIDE DEF a, x
  <2> QED
    BY <2>2, <2>3 DEF Still, Lasting, a
<1>5. CASE r.cmd = "srem"
  <2> DEFINE v == g.val[x] \ {r.elem}
             m == MutateInPlace(g, x, v)
             n == Shrunk(g, x, r.elem)
  <2>1. a = IF WrongType(p, x, "set") THEN p
            ELSE IF ~Present(g, x) THEN g ELSE DropIfEmpty(n, x)
    BY <1>5, AfterSrem
  <2>2. n = IF g.val[x] \cap {r.elem} # {} THEN MarkDirty(m, x) ELSE m
    BY DEF Shrunk
  <2>3. /\ m.mod = s.mod /\ m.ttl = g.ttl
        /\ m.val[x] = v /\ \A y \in Slots \ {x} : m.val[y] = g.val[y]
    BY <1>1, <1>2 DEF MutateInPlace, Store, MapSet
  <2> HIDE DEF a, p, g, x, m, n
  <2>4. CASE g.val[x] \cap {r.elem} # {}
    <3>1. s.mod \subseteq n.mod /\ x \in n.mod
      BY <2>2, <2>3, <2>4 DEF MarkDirty, Bump, Touch, Store
    <3>2. s.mod \subseteq DropIfEmpty(n, x).mod /\ x \in DropIfEmpty(n, x).mod
      BY <3>1, RemovalCounts DEF DropIfEmpty
    <3>3. Still(s, DropIfEmpty(n, x), t, d, r)
      BY <3>2, StillCases
    <3> QED
      BY <1>3, <2>1, <3>3 DEF a
  <2>5. CASE g.val[x] \cap {r.elem} = {}
    <3>1. n = m /\ v = g.val[x]
      BY <2>2, <2>5
    <3>2. \A y \in Slots : n.val[y] = g.val[y] /\ n.ttl[y] = g.ttl[y]
      BY <2>3, <3>1
    <3>3. \A y \in Slots : \A u : Shown(n, u, y) = Shown(g, u, y)
      BY <3>2 DEF Shown, VisibleValue, VisibleDeadline, Visible, Present, IsExpired, HasExpiry
    <3>4. \A y \in Slots : Lasting(s, n, t, y)
      BY <1>2, <3>3 DEF Lasting
    <3>5. n.mod = s.mod
      BY <2>3, <3>1
    <3>6. Still(s, n, t, d, r)
      BY <3>4, <3>5, StillCases
    <3>7. n.val[x] = {} => Present(n, x)
      BY AbsentIsNoValue DEF Present
    <3>8. n.val[x] = {} => Still(s, DeleteKeys(n, {x}), t, d, r)
      <4>1. n.val[x] = {} => s.mod \subseteq DeleteKeys(n, {x}).mod /\ x \in DeleteKeys(n, {x}).mod
        BY <3>5, <3>7, RemovalCounts
      <4> QED
        BY <4>1, StillCases
    <3> QED
      BY <1>3, <2>1, <3>6, <3>8 DEF DropIfEmpty, a
  <2> QED
    BY <2>4, <2>5
<1>6. CASE r.cmd \in {"expire", "persist"}
  <2>1. Uncounted(d, r) = {x}
    BY <1>6 DEF Uncounted
  <2>2. LocalRequest(r)
    BY <1>6 DEF LocalRequest
  <2>3. SameBut(s, a, x)
    BY <2>2, LocalCommands
  <2>4. s.mod \subseteq a.mod
    <3>1. a \in {p, DeleteKeys(p, {x}), SetExpireAt(p, x, t + r.ttl), SetExpireAt(p, x, NoDeadline)}
      BY <1>6, AfterExpire, AfterPersist DEF RemoveExpiry
    <3> HIDE DEF a, p, x
    <3>2. s.mod \subseteq DeleteKeys(p, {x}).mod
      BY <1>2, RemovalCounts
    <3>3. \A deadline : SetExpireAt(p, x, deadline).mod = s.mod
      BY <1>2 DEF SetExpireAt, Store
    <3> QED
      BY <1>2, <3>1, <3>2, <3>3
  <2> HIDE DEF a, x
  <2>5. \A y \in Slots \ {x} : Lasting(s, a, t, y)
    BY <2>3, AlikeLasts DEF SameBut
  <2> QED
    BY <2>1, <2>4, <2>5 DEF Still, a
<1>7. CASE r.cmd = "swapdb"
  <2>1. a = SwapDbs(s, FirstDb, r.other)
    BY <1>7, AfterBulk
  <2>2. Uncounted(d, r) = {FirstDb, r.other} \X Keys
    BY <1>7 DEF Uncounted
  <2>3. ASSUME NEW y \in Slots \ Uncounted(d, r) PROVE Alike(s, a, y)
    <3>1. SwappedSlot(FirstDb, r.other, y) = y
      BY <2>2 DEF SwappedSlot, Slots
    <3> QED
      BY <2>1, <3>1 DEF SwapDbs, Store, Alike
  <2>4. a.mod = s.mod
    BY <2>1 DEF SwapDbs, Store
  <2> HIDE DEF a
  <2>5. \A y \in Slots \ Uncounted(d, r) : Lasting(s, a, t, y)
    BY <2>3, AlikeLasts
  <2> QED
    BY <2>4, <2>5 DEF Still, a
<1> QED
  BY <1>4, <1>5, <1>6, <1>7

\* Any command but a flush.
LEMMA CommandStill ==
    ASSUME NEW s, Consistent(s), NEW t \in Nat, NEW d \in DBs, NEW r \in RequestType,
           r.cmd \notin {"flushdb", "flushall"}
    PROVE  Still(s, After(s, t, d, r), t, d, r)
  BY WritesStill, ChangesStill DEF RequestType, Consistent

\* A run of commands that counted nothing as changed.
LEMMA RunStill ==
    ASSUME NEW s, Consistent(s), NEW t \in Nat \ {0}, NEW d \in DBs, NEW cmds \in Seq(RequestType),
           ~CountsAsDirty(RunAll(s, t, d, cmds), cmds)
    PROVE  \A x \in Slots \ UNION {Uncounted(d, cmds[i]) : i \in DOMAIN cmds} :
               Lasting(s, RunAll(s, t, d, cmds), t, x)
<1> SUFFICES ASSUME NEW x \in Slots \ UNION {Uncounted(d, cmds[i]) : i \in DOMAIN cmds},
                    NEW u \in Nat, u >= t
             PROVE  Shown(RunAll(s, t, d, cmds), u, x) = Shown(s, u, x)
  BY DEF Lasting
<1> DEFINE o == RunAll(s, t, d, cmds)
           Good == {q \in GoodStores : q.mod = {} => Shown(q, u, x) = Shown(s, u, x)}
<1>1. o.mod = {} /\ \A i \in 1 .. Len(cmds) : cmds[i].cmd \notin {"flushdb", "flushall"}
  BY DEF CountsAsDirty
<1>2. s \in Good
  BY DEF GoodStores, Consistent
<1>3. ASSUME NEW q \in Good, NEW i \in 1 .. Len(cmds) PROVE After(q, t, d, cmds[i]) \in Good
  <2> DEFINE r == cmds[i]
             a == After(q, t, d, r)
  <2>1. r \in RequestType /\ Consistent(q) /\ x \in Slots \ Uncounted(d, r)
    BY DEF GoodStores, Consistent
  <2>2. r.cmd \notin {"flushdb", "flushall"}
    BY <1>1
  <2> HIDE DEF r
  <2>3. Consistent(a)
    BY <2>1, AfterConsistent
  <2>4. Still(q, a, t, d, r)
    BY <2>1, <2>2, CommandStill
  <2> HIDE DEF a
  <2>5. a.mod = {} => q.mod = {} /\ Shown(a, u, x) = Shown(q, u, x)
    BY <2>1, <2>4 DEF Still, Lasting
  <2>6. a \in Good
    BY <2>3, <2>5 DEF GoodStores, Consistent
  <2> QED
    BY <2>6 DEF a, r
<1>4. o \in Good
  <2> HIDE DEF Good
  <2> QED
    BY <1>2, <1>3, RunKeeps
<1> QED
  BY <1>1, <1>4

\* The inductive invariant behind CleanMeansSaved: now and later, as long as
\* nothing counts as changed.
Saved ==
    ~config.appendonly /\ up /\ ~unsaved =>
        \A x \in Slots \ uncounted : Lasting(snap, store, now, x)

\* One more step with lasting effect only.
LEMMA LastingTrans ==
    ASSUME NEW s, NEW o, NEW q, NEW t, NEW x, Lasting(s, o, t, x), Lasting(o, q, t, x)
    PROVE  Lasting(s, q, t, x)
  BY DEF Lasting

\* Key versions are not seen.
LEMMA QuietLasts ==
    ASSUME NEW s, NEW o, NEW t, NEW x, Lasting(s, o, t, x)
    PROVE  Lasting(s, Quiet(o), t, x)
  BY DEF Lasting, Quiet, Store, Shown, VisibleValue, VisibleDeadline, Visible, Present, IsExpired, HasExpiry

\* Commands.
LEMMA ServeSaved ==
    ASSUME PInv, Saved, NEW d \in DBs, NEW cmds \in Seq(Requests), NEW logged, Serve(d, cmds, logged)
    PROVE  Saved'
<1> SUFFICES ASSUME ~config.appendonly, ~unsaved', NEW x \in Slots, x \notin uncounted'
             PROVE  Lasting(snap, store', now, x)
  BY DEF Saved, Serve
<1> DEFINE s == RunAll(Fresh, now, d, cmds)
           U == UNION {Uncounted(d, cmds[i]) : i \in DOMAIN cmds}
<1>1. /\ up /\ snap' = snap /\ store' = Quiet(s)
      /\ ~unsaved /\ ~CountsAsDirty(s, cmds)
      /\ x \notin uncounted /\ x \notin U
  BY DEF Serve
<1>2. Lasting(snap, store, now, x)
  BY <1>1 DEF Saved
<1>3. Lasting(snap, Fresh, now, x)
  BY <1>2, QuietLasts DEF Fresh, Quiet
<1>4. /\ Consistent(Fresh) /\ now \in Nat \ {0} /\ cmds \in Seq(RequestType)
  BY PInvFacts, SequencesOfRequests
<1>5. Lasting(Fresh, s, now, x)
  BY <1>1, <1>4, RunStill
<1> HIDE DEF s
<1>6. Lasting(snap, s, now, x)
  BY <1>3, <1>5, LastingTrans
<1> QED
  BY <1>1, <1>6, QuietLasts

\* Timers.
LEMMA TimersSaved ==
    ASSUME PInv, Saved, NEW ok \in BOOLEAN, NEW S \in SUBSET Slots,
           FlushTimer(ok) \/ AutoSave(ok) \/ PurgeTimer(S) \/ PTick
    PROVE  Saved'
<1> SUFFICES ASSUME ~config.appendonly, up, ~unsaved', NEW x \in Slots, x \notin uncounted'
             PROVE  Lasting(snap', store', now', x)
  BY DEF Saved, FlushTimer, AutoSave, PurgeTimer, PTick
<1>1. Fresh \in StoreType /\ now \in Nat
  BY PInvFacts DEF Consistent
<1>2. CASE FlushTimer(ok)
  BY <1>2 DEF FlushTimer, Appending
<1>3. CASE AutoSave(ok)
  <2>1. snap' = store'
    BY <1>3 DEF AutoSave, Save
  <2> QED
    BY <2>1 DEF Lasting
<1>4. CASE PurgeTimer(S)
  <2>1. /\ ~unsaved /\ x \notin uncounted /\ snap' = snap /\ now' = now
        /\ store' = Quiet(DeleteKeys(Fresh, S))
    BY <1>4 DEF PurgeTimer
  <2>2. Lasting(snap, store, now, x)
    BY <2>1 DEF Saved
  <2>3. Lasting(snap, Fresh, now, x)
    BY <2>2, QuietLasts DEF Fresh, Quiet
  <2>4. \A y \in S \cap Slots : IsExpired(Fresh, now, y)
    BY <1>4 DEF PurgeTimer, IsExpired, HasExpiry, Fresh, Store
  <2>5. Lasting(Fresh, DropSlots(Fresh, S), now, x)
    BY <1>1, <2>4, PurgeLasts
  <2>6. Lasting(snap, DropSlots(Fresh, S), now, x)
    BY <2>3, <2>5, LastingTrans
  <2>7. Quiet(DeleteKeys(Fresh, S)) = Quiet(DropSlots(Fresh, S))
    BY DEF Quiet, DeleteKeys, Bump, DropSlots, Store
  <2> QED
    BY <2>1, <2>6, <2>7, QuietLasts
<1>5. CASE PTick
  <2>1. /\ ~unsaved /\ x \notin uncounted /\ snap' = snap /\ now' = now + 1 /\ store' = store
    BY <1>5 DEF PTick, rdbVars
  <2>2. Lasting(snap, store, now, x)
    BY <2>1 DEF Saved
  <2> QED
    BY <1>1, <2>1, <2>2 DEF Lasting
<1> QED
  BY <1>2, <1>3, <1>4, <1>5

\* Start: a deadline that has passed is dropped, and its slot is not counted.
LEMMA StartSaved ==
    ASSUME Start
    PROVE  Saved'
<1> SUFFICES ASSUME ~config.appendonly, NEW x \in Slots, x \notin uncounted'
             PROVE  Lasting(snap, store', now, x)
  BY DEF Saved, Start
<1>1. store' = Load(snap, now) /\ x \notin Lapsed(snap, now)
  BY DEF Start
<1>2. Alike(snap, store', x)
  BY <1>1 DEF Load, Store, Alike
<1> QED
  BY <1>2, AlikeLasts

\* Every step keeps it.
LEMMA SavedStep ==
    PInv /\ Saved /\ [PNext]_pVars => Saved'
<1> SUFFICES ASSUME PInv, Saved, [PNext]_pVars PROVE Saved'
  OBVIOUS
<1>1. CASE UNCHANGED pVars
  BY <1>1 DEF pVars, rdbVars, Saved
<1>2. ASSUME NEW r \in Requests, BridgeQueue(r) PROVE Saved'
  BY <1>2 DEF BridgeQueue, Appending, Saved
<1>3. ASSUME NEW ok \in BOOLEAN, Shutdown(ok) \/ Stop(ok) \/ Crash PROVE Saved'
  BY <1>3 DEF Shutdown, Stop, Crash, Exit, Saved
<1>4. CASE PNext
  BY <1>2, <1>3, <1>4, PActions, ServeSaved, TimersSaved, StartSaved
<1> QED
  BY <1>1, <1>4

\* As long as nothing counts as changed the snapshot holds what clients see,
\* now and later.
THEOREM SnapshotLasts == PSpec => []Saved
<1>1. PInit => Saved
  BY DEF PInit, Saved
<1> QED
  BY <1>1, SavedStep, PersistenceConsistent, PTL DEF PSpec

\* So while no save is due, none is needed, but for EXPIRE, PERSIST and SWAPDB,
\* which do not count (rdb.js:22-38, 81-95, store.js:49-81).
THEOREM CleanSnapshot == PSpec => []CleanMeansSaved
<1>1. ASSUME PInv, Saved PROVE CleanMeansSaved
  <2>1. SUFFICES ASSUME ~config.appendonly, up, ~unsaved, NEW x \in Slots \ uncounted
                 PROVE  /\ VisibleValue(snap, now, x) = VisibleValue(store, now, x)
                        /\ VisibleDeadline(snap, now, x) = VisibleDeadline(store, now, x)
    BY DEF CleanMeansSaved
  <2>2. now \in Nat /\ now >= now
    BY <1>1, PInvFacts
  <2>3. Shown(store, now, x) = Shown(snap, now, x)
    BY <1>1, <2>1, <2>2 DEF Saved, Lasting
  <2> QED
    BY <2>3 DEF Shown
<1> QED
  BY <1>1, SnapshotLasts, PersistenceConsistent, PTL
=============================================================================
