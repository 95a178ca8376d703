-------------------------- MODULE AbstractKeyspace -------------------------
(***************************************************************************)
(* What the keyspace promises to a client when no memory limit is set: a   *)
(* map from slots to entries, each with a value and perhaps a deadline,    *)
(* from which an entry vanishes at the instant its deadline is reached.    *)
(* Every command is the set of maps it may leave, under the name and the   *)
(* parameters it has in Keyspace; a read leaves the map it finds.  Lazy    *)
(* and active expiry, access times, type tags and key versions are means   *)
(* to this end and do not appear.                                          *)
(*                                                                         *)
(* It is a specification for Keyspace to implement, stated from what the   *)
(* handlers leave visible; it corresponds to no code of its own.           *)
(***************************************************************************)
EXTENDS Integers

CONSTANTS DBs, Keys, Strings, Elems, Absent, NoDeadline, MaxTime

VARIABLES entries, clock

avars == <<entries, clock>>

Slots == DBs \X Keys
Entry(v, dl) == [val |-> v, dl |-> dl]
NoEntry == Entry(Absent, NoDeadline)

Has(x) == entries[x] # NoEntry
HasString(x) == entries[x].val \in Strings
HasSet(x) == Has(x) /\ ~HasString(x)

Init == entries = [x \in Slots |-> NoEntry] /\ clock = 1

-----------------------------------------------------------------------------
\* The building blocks: nothing changes, only x does, the slots of S vanish.
Same == {entries}
Becomes(x, v, dl) == {[entries EXCEPT ![x] = Entry(v, dl)]}
Without(S) == {[x \in Slots |-> IF x \in S THEN NoEntry ELSE entries[x]]}

(* Strings. *)

\* A deadline that has passed already deletes; KEEPTTL prefers the old one.
Set(x, v, cond, keep, ex) ==
    LET Refused == HasSet(x) \/ (cond = "nx" /\ Has(x)) \/ (cond = "xx" /\ ~Has(x))
        old == entries[x].dl
    IN  IF Refused THEN Same
        ELSE IF ex # NoDeadline /\ ex <= clock THEN Without({x})
        ELSE Becomes(x, v, IF keep /\ old # NoDeadline THEN old ELSE ex)

\* A value computed from the old one keeps its deadline; the computation may
\* fail.
Update(x, v) == Same \cup (IF HasSet(x) THEN {} ELSE Becomes(x, v, entries[x].dl))

Setnx(x, v) == IF Has(x) THEN Same ELSE Becomes(x, v, NoDeadline)

\* MSET overwrites a set as well.
Mset(x, v, y, w) ==
    {[entries EXCEPT ![x] = Entry(v, NoDeadline), ![y] = Entry(w, NoDeadline)]}

Getdel(x) == IF HasString(x) THEN Without({x}) ELSE Same

(* Any type. *)

Del(S) == Without(S)

Expire(x, deadline) ==
    IF ~Has(x) THEN Same
    ELSE IF deadline <= clock THEN Without({x})
    ELSE Becomes(x, entries[x].val, deadline)

Persist(x) == IF Has(x) THEN Becomes(x, entries[x].val, NoDeadline) ELSE Same

Moved(x, y, e) ==
    [z \in Slots |-> CASE z = y -> e
                       [] z = x /\ x # y -> NoEntry
                       [] OTHER -> entries[z]]

\* The entry moves with its deadline.  If it has none, the code leaves the
\* deadline of the entry that was at y in force: a visible entry passes its
\* deadline on, and one that had expired unnoticed makes the moved one vanish.
Rename(x, y) ==
    IF ~Has(x) THEN Same
    ELSE IF x = y \/ entries[x].dl # NoDeadline THEN {Moved(x, y, entries[x])}
    ELSE {Moved(x, y, e) : e \in {Entry(entries[x].val, entries[y].dl)}
                                 \cup (IF Has(y) THEN {} ELSE {NoEntry})}

\* RENAMENX looks at y first, and that purges it.
Renamenx(x, y) == IF Has(x) /\ ~Has(y) THEN {Moved(x, y, entries[x])} ELSE Same

(* Sets. *)

Sadd(x, M) ==
    IF HasString(x) THEN Same
    ELSE Becomes(x, M \cup (IF Has(x) THEN entries[x].val ELSE {}), entries[x].dl)

\* The key goes with its last member.
Srem(x, M) ==
    IF ~HasSet(x) THEN Same
    ELSE IF entries[x].val \subseteq M THEN Without({x})
    ELSE Becomes(x, entries[x].val \ M, entries[x].dl)

Spop(x, M) == Srem(x, M)

(* Whole databases. *)

FlushDb(d) == Without({x \in Slots : x[1] = d})
FlushAll == Without(Slots)

Other(a, b, x) ==
    CASE x[1] = a -> <<b, x[2]>>
      [] x[1] = b /\ a # b -> <<a, x[2]>>
      [] OTHER -> x

SwapDb(a, b) == {[x \in Slots |-> entries[Other(a, b, x)]]}

-----------------------------------------------------------------------------
\* A command on one slot leaves the others alone.
Alone(x) == \A y \in Slots \ {x} : entries'[y] = entries[y]

Times == 1 .. (MaxTime + 1)

OnStrings(x) ==
    \/ \E v \in Strings, cond \in {"any", "nx", "xx"}, keep \in BOOLEAN,
          ex \in {NoDeadline} \cup Times :
              entries' \in Set(x, v, cond, keep, ex)
    \/ \E v \in Strings : entries' \in Update(x, v) \cup Setnx(x, v)
    \/ entries' \in Getdel(x)

OnSets(x) == \E M \in SUBSET Elems : entries' \in Sadd(x, M) \cup Srem(x, M) \cup Spop(x, M)

OnDeadlines(x) == \E deadline \in Times : entries' \in Expire(x, deadline) \cup Persist(x)

OnPairs(x, y) ==
    \/ \E v, w \in Strings : entries' \in Mset(x, v, y, w)
    \/ entries' \in Rename(x, y) \cup Renamenx(x, y) \cup Del({x, y})

Command ==
    \/ \E x \in Slots : Alone(x) /\ (OnStrings(x) \/ OnSets(x) \/ OnDeadlines(x))
    \/ \E x, y \in Slots : x[1] = y[1] /\ OnPairs(x, y)
    \/ \E d \in DBs : entries' \in FlushDb(d)
    \/ entries' \in FlushAll
    \/ \E a, b \in DBs : entries' \in SwapDb(a, b)

\* Time passes and exactly the entries that are due vanish.
Pass ==
    /\ clock' = clock + 1
    /\ entries' \in Without({x \in Slots : /\ Has(x) /\ entries[x].dl # NoDeadline
                                           /\ entries[x].dl <= clock'})

Next == (Command /\ UNCHANGED clock) \/ Pass

Spec == Init /\ [][Next]_avars
=============================================================================
