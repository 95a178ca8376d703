----------------------------- MODULE Commands ------------------------------
(***************************************************************************)
(* The command handlers of src/src/commands that read or change the        *)
(* keyspace, each as the set of stores it may leave when it starts from    *)
(* store s at time t.  Replies are left out; an error reply that follows   *)
(* only reads leaves what those reads leave.  A handler that ends in       *)
(* store.set has one outcome per outcome of set, because none of them      *)
(* looks at what set returned.                                             *)
(***************************************************************************)
EXTENDS DataStore

-----------------------------------------------------------------------------
(* Reads: they purge what has expired and touch what they fetch. *)

\* EXISTS, TYPE, TTL, PTTL, OBJECT: exists or typeOf, no touch.
CmdExists(s, t, x) == {CheckExpired(s, t, {x})}

\* GET, STRLEN, GETRANGE and the set reads: checkType, then get.
CmdRead(s, t, x, ty) ==
    LET p == CheckExpired(s, t, {x})
    IN  {IF WrongType(p, x, ty) THEN p ELSE Get(p, t, x)}

\* KEYS, SCAN, DBSIZE, RANDOMKEY on one database; INFO on all of them.
CmdKeys(s, t, D) == {KeysInDb(s, t, D)}

-----------------------------------------------------------------------------
(* Strings. *)

\* The last part of SET, after store.set: ex is the new deadline (NoDeadline
\* without EX, PX, EXAT or PXAT), prev the deadline KEEPTTL saw.
ApplyTtlOptions(s, t, x, keep, prev, ex) ==
    IF ex # NoDeadline /\ ex <= t THEN DeleteKeys(s, {x})
    ELSE IF keep /\ prev > 0 THEN SetExpireAt(s, x, prev)
    ELSE IF ex # NoDeadline THEN SetExpireAt(s, x, ex)
    ELSE IF keep THEN s
    ELSE RemoveExpiry(s, x)

\* SET x v [NX|XX] [KEEPTTL] [EX|PX|EXAT|PXAT ex]; cond is "nx", "xx" or "any".
CmdSet(s, t, x, v, cond, keep, ex) ==
    LET p == CheckExpired(s, t, {x})
        g == Get(p, t, x)
        Refused == (cond = "nx" /\ Present(g, x)) \/ (cond = "xx" /\ ~Present(g, x))
        prev == IF keep THEN g.ttl[x] ELSE NoDeadline
    IN  IF WrongType(p, x, "string") THEN {p}
        ELSE IF Refused THEN {g}
        ELSE {ApplyTtlOptions(o, t, x, keep, prev, ex) :
                 o \in SetOutcomes(g, t, x, v, "string")}

\* INCR, DECR, INCRBY, DECRBY, INCRBYFLOAT, APPEND: compute v from the value
\* read and set it; the numeric ones may stop with an error before that.
CmdUpdate(s, t, x, v) ==
    LET p == CheckExpired(s, t, {x})
        g == Get(p, t, x)
    IN  IF WrongType(p, x, "string") THEN {p}
        ELSE {g} \cup SetOutcomes(g, t, x, v, "string")

CmdSetnx(s, t, x, v) ==
    LET p == CheckExpired(s, t, {x})
    IN  IF Present(p, x) THEN {p} ELSE SetOutcomes(p, t, x, v, "string")

\* One pair of MSET: no type check, no look at the old deadline.
MsetPair(s, t, x, v) ==
    {RemoveExpiry(o, x) : o \in SetOutcomes(s, t, x, v, "string")}

CmdMset(s, t, x, v, y, w) ==
    UNION {MsetPair(o, t, y, w) : o \in MsetPair(s, t, x, v)}

CmdGetdel(s, t, x) ==
    LET p == CheckExpired(s, t, {x})
        g == Get(p, t, x)
    IN  {IF WrongType(p, x, "string") THEN p
         ELSE IF ~Present(g, x) THEN g
         ELSE DeleteKeys(g, {x})}

-----------------------------------------------------------------------------
(* Generic key commands. *)

\* DEL, UNLINK: deleteKey per argument, expired or not.
CmdDel(s, S) == {DeleteKeys(s, S)}

\* Mutant: looks for the key in the map without the lazy check.
CmdExpire_Unchecked(s, t, x, deadline) ==
    {IF ~Present(s, x) THEN s
     ELSE IF deadline <= t THEN DeleteKeys(s, {x})
     ELSE SetExpireAt(s, x, deadline)}

\* EXPIRE, PEXPIRE, EXPIREAT, PEXPIREAT: no version bump when the key stays.
CmdExpire(s, t, x, deadline) ==
    LET p == CheckExpired(s, t, {x})
    IN  {IF ~Present(p, x) THEN p
         ELSE IF deadline <= t THEN DeleteKeys(p, {x})
         ELSE SetExpireAt(p, x, deadline)}

\* Mutant: the same for PERSIST.
CmdPersist_Unchecked(s, t, x) == {IF Present(s, x) THEN RemoveExpiry(s, x) ELSE s}

CmdPersist(s, t, x) ==
    LET p == CheckExpired(s, t, {x})
    IN  {IF Present(p, x) THEN RemoveExpiry(p, x) ELSE p}

\* DataStore.rename: the target's own deadline is only overwritten when the
\* source has one.
RenameOutcomes(s, t, from, to) ==
    LET p == CheckExpired(s, t, {from})
        Moved(o) == IF p.ttl[from] > 0 THEN SetExpireAt(o, to, p.ttl[from]) ELSE o
    IN  IF ~Present(p, from) THEN {p}
        ELSE {Moved(o) : o \in SetOutcomes(DeleteKeys(p, {from}), t, to,
                                           p.val[from], p.typ[from])}

CmdRename(s, t, from, to) == RenameOutcomes(s, t, from, to)

CmdRenamenx(s, t, from, to) ==
    LET p == CheckExpired(s, t, {from})
        q == CheckExpired(p, t, {to})
    IN  IF ~Present(p, from) THEN {p}
        ELSE IF Present(q, to) THEN {q}
        ELSE RenameOutcomes(q, t, from, to)

-----------------------------------------------------------------------------
(* Sets.  get hands out the stored Set itself, so members change before    *)
(* store.set has decided whether the write is allowed.                     *)

CmdSadd(s, t, x, M) ==
    LET p == CheckExpired(s, t, {x})
        g == Get(p, t, x)
        grown == g.val[x] \cup M
    IN  IF WrongType(p, x, "set") THEN {p}
        ELSE IF ~Present(g, x) THEN SetOutcomes(g, t, x, M, "set")
        ELSE SetOutcomes(MutateInPlace(g, x, grown), t, x, grown, "set")

\* Mutant: the key stays with an empty set.
DropIfEmpty_Kept(s, x) == s

\* The tail of SREM and SPOP: drop the key with its last member.
DropIfEmpty(s, x) == IF s.val[x] = {} THEN DeleteKeys(s, {x}) ELSE s

\* Mutant: SREM marks the key dirty only when it deletes it.
CmdSrem_Unmarked(s, t, x, M) ==
    LET p == CheckExpired(s, t, {x})
        g == Get(p, t, x)
        m == MutateInPlace(g, x, g.val[x] \ M)
    IN  {IF WrongType(p, x, "set") THEN p
         ELSE IF ~Present(g, x) THEN g
         ELSE DropIfEmpty(m, x)}

CmdSrem(s, t, x, M) ==
    LET p == CheckExpired(s, t, {x})
        g == Get(p, t, x)
        m == MutateInPlace(g, x, g.val[x] \ M)
    IN  {IF WrongType(p, x, "set") THEN p
         ELSE IF ~Present(g, x) THEN g
         ELSE DropIfEmpty(IF g.val[x] \cap M # {} THEN MarkDirty(m, x) ELSE m, x)}

\* SPOP x [count]: any members may go; a count of 0 still marks the key dirty.
CmdSpop(s, t, x, M) ==
    LET p == CheckExpired(s, t, {x})
        g == Get(p, t, x)
        m == MutateInPlace(g, x, g.val[x] \ M)
    IN  {IF WrongType(p, x, "set") THEN p
         ELSE IF ~Present(g, x) THEN g
         ELSE DropIfEmpty(MarkDirty(m, x), x)}
=============================================================================
