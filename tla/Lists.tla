------------------------------- MODULE Lists -------------------------------
(***************************************************************************)
(* Lists (src/src/commands/lists.js) under one key of the store.  The loop *)
(* of LREM, which removes from the array it walks over, and that of LPOS,  *)
(* which skips, counts and stops at a limit, take one step for each round; *)
(* the other commands are one step.  Every command mutates the array that  *)
(* is in the store, and calls set or markDirty afterwards.                 *)
(***************************************************************************)
EXTENDS Integers, Sequences, FiniteSets, SequencesExt

CONSTANTS
    LValues,      \* the elements
    LMaxLen,      \* bounds the length of the list
    LMayRefuse    \* whether store.set may refuse a write (maxmemory)

ASSUME ListParameters == LMaxLen \in Nat

\* The counts, indexes and limits that clients pass.
LNumbers == (-LMaxLen - 1) .. (LMaxLen + 1)

Abs(n) == IF n < 0 THEN -n ELSE n

VARIABLES
    lstored,      \* is the array in the store
    litems,       \* the array
    lcmd,         \* the loop under way: its command, arguments, index, results
    lold,         \* history: the array when the loop began
    lbumped,      \* history: has the last command bumped the key's version
    lsilent       \* history: is the last step one that bumps no version at all

lvars == <<lstored, litems, lcmd, lold, lbumped, lsilent>>

NoLoop == [kind |-> "none"]

LInit ==
    /\ lstored = FALSE /\ litems = <<>>
    /\ lcmd = NoLoop
    /\ lold = <<>> /\ lbumped = FALSE /\ lsilent = FALSE

Free == lcmd = NoLoop
Loop(kind) == lcmd.kind = kind

\* markDirty, and deleteKey for an array that has become empty.
LeaveStored(items) ==
    /\ litems' = items
    /\ lstored' = (items # <<>>)
    /\ lbumped' = TRUE /\ lsilent' = FALSE

-----------------------------------------------------------------------------
\* LPUSH, RPUSH: the values are added one by one, then store.set accepts the
\* array or refuses it, which leaves an array in the store longer all the same.
Push(left, values) ==
    LET items == IF left THEN Reverse(values) \o litems ELSE litems \o values
    IN  /\ Free /\ Len(items) <= LMaxLen
        /\ \/ litems' = items /\ lstored' = TRUE /\ lbumped' = TRUE
           \/ /\ LMayRefuse
              /\ litems' = IF lstored THEN items ELSE <<>>
              /\ lbumped' = FALSE
              /\ UNCHANGED lstored
        /\ lsilent' = FALSE
        /\ UNCHANGED <<lcmd, lold>>

\* LPOP, RPOP, whose count may be 0 or larger than the list.
Pop(left, count) ==
    LET n == Min({count, Len(litems)})
        items == IF left THEN SubSeq(litems, n + 1, Len(litems))
                 ELSE SubSeq(litems, 1, Len(litems) - n)
    IN  /\ Free /\ litems # <<>>
        /\ LeaveStored(items)
        /\ UNCHANGED <<lcmd, lold>>

Lset(i, v) ==
    LET index == IF i < 0 THEN Len(litems) + i ELSE i
    IN  /\ Free /\ lstored
        /\ index \in 0 .. Len(litems) - 1
        /\ LeaveStored([litems EXCEPT ![index + 1] = v])
        /\ UNCHANGED <<lcmd, lold>>

-----------------------------------------------------------------------------
\* LREM walks from the left for a positive count, else from the right.
LremBegin(count, v) ==
    /\ Free /\ lstored
    /\ lcmd' = [kind |-> "lrem", count |-> count, value |-> v, removed |-> 0,
                at |-> IF count > 0 THEN 0 ELSE Len(litems) - 1]
    /\ lold' = litems /\ lbumped' = FALSE /\ lsilent' = FALSE
    /\ UNCHANGED <<lstored, litems>>

LremGoesOn ==
    /\ lcmd.at >= 0 /\ lcmd.at < Len(litems)
    /\ lcmd.count # 0 => lcmd.removed < Abs(lcmd.count)

\* Mutant: the walk from the left moves on after a removal too.
LremStep_Skips ==
    LET hit == litems[lcmd.at + 1] = lcmd.value
    IN  /\ Loop("lrem") /\ LremGoesOn
        /\ litems' = IF hit THEN RemoveAt(litems, lcmd.at + 1) ELSE litems
        /\ lcmd' = [lcmd EXCEPT !.removed = IF hit THEN @ + 1 ELSE @,
                                !.at = IF lcmd.count > 0 THEN @ + 1 ELSE @ - 1]
        /\ UNCHANGED <<lstored, lold, lbumped, lsilent>>

\* From the left the next element comes to the place of a removed one.
LremStep ==
    LET hit == litems[lcmd.at + 1] = lcmd.value
    IN  /\ Loop("lrem") /\ LremGoesOn
        /\ litems' = IF hit THEN RemoveAt(litems, lcmd.at + 1) ELSE litems
        /\ lcmd' = [lcmd EXCEPT !.removed = IF hit THEN @ + 1 ELSE @,
                                !.at = IF lcmd.count <= 0 THEN @ - 1
                                       ELSE IF hit THEN @ ELSE @ + 1]
        /\ UNCHANGED <<lstored, lold, lbumped, lsilent>>

\* Mutant: markDirty is left to deleteKey.
LremEnd_Unmarked ==
    /\ Loop("lrem") /\ ~LremGoesOn
    /\ lcmd' = NoLoop /\ lold' = <<>>
    /\ lstored' = (litems # <<>>)
    /\ lbumped' = (litems = <<>>)
    /\ UNCHANGED <<litems, lsilent>>

LremEnd ==
    /\ Loop("lrem") /\ ~LremGoesOn
    /\ lcmd' = NoLoop /\ lold' = <<>>
    /\ lstored' = (litems # <<>>)
    /\ lbumped' = (lcmd.removed > 0)
    /\ UNCHANGED <<litems, lsilent>>

-----------------------------------------------------------------------------
\* LPOS with its options RANK, COUNT and MAXLEN; RANK 0 walks from the right
\* and skips nothing.
LposBegin(v, rank, count, maxlen) ==
    /\ Free /\ lstored
    /\ LET limit == IF maxlen > 0 THEN Min({maxlen, Len(litems)}) ELSE Len(litems)
       IN  lcmd' = [kind |-> "lpos", value |-> v, rank |-> rank, count |-> count,
                    maxlen |-> maxlen, results |-> <<>>, done |-> FALSE,
                    skip |-> Abs(rank) - 1,
                    at |-> IF rank > 0 THEN 0 ELSE Len(litems) - 1,
                    last |-> IF rank > 0 THEN limit - 1 ELSE Len(litems) - limit]
    /\ lbumped' = FALSE /\ lsilent' = FALSE
    /\ UNCHANGED <<lstored, litems, lold>>

LposGoesOn ==
    /\ ~lcmd.done
    /\ IF lcmd.rank > 0 THEN lcmd.at <= lcmd.last ELSE lcmd.at >= lcmd.last

\* Mutant: a match that RANK skips counts for COUNT.
LposStep_CountsSkipped ==
    LET hit == litems[lcmd.at + 1] = lcmd.value
        found == IF hit /\ lcmd.skip <= 0 THEN Append(lcmd.results, lcmd.at)
                 ELSE lcmd.results
    IN  /\ Loop("lpos") /\ LposGoesOn
        /\ lcmd' = [lcmd EXCEPT
                      !.skip = IF hit /\ @ > 0 THEN @ - 1 ELSE @,
                      !.results = found,
                      !.done = hit /\ lcmd.count # 0 /\ Len(found) + 1 >= lcmd.count,
                      !.at = IF lcmd.rank > 0 THEN @ + 1 ELSE @ - 1]
        /\ UNCHANGED <<lstored, litems, lold, lbumped, lsilent>>

LposStep ==
    LET hit == litems[lcmd.at + 1] = lcmd.value /\ lcmd.skip <= 0
        found == IF hit THEN Append(lcmd.results, lcmd.at) ELSE lcmd.results
    IN  /\ Loop("lpos") /\ LposGoesOn
        /\ lcmd' = [lcmd EXCEPT
                      !.skip = IF litems[lcmd.at + 1] = lcmd.value /\ @ > 0
                               THEN @ - 1 ELSE @,
                      !.results = found,
                      !.done = hit /\ lcmd.count # 0 /\ Len(found) >= lcmd.count,
                      !.at = IF lcmd.rank > 0 THEN @ + 1 ELSE @ - 1]
        /\ UNCHANGED <<lstored, litems, lold, lbumped, lsilent>>

LposEnd ==
    /\ Loop("lpos") /\ ~LposGoesOn
    /\ lcmd' = NoLoop
    /\ UNCHANGED <<lstored, litems, lold, lbumped, lsilent>>

\* deleteKey: DEL, the sweep of deadlines, an eviction.
LDelete ==
    /\ Free /\ lstored
    /\ lstored' = FALSE /\ litems' = <<>>
    /\ lbumped' = TRUE /\ lsilent' = FALSE
    /\ UNCHANGED <<lcmd, lold>>

\* A read that notices the deadline, FLUSHDB, FLUSHALL: no version is bumped.
LVanish ==
    /\ Free /\ lstored
    /\ lstored' = FALSE /\ litems' = <<>>
    /\ lbumped' = FALSE /\ lsilent' = TRUE
    /\ UNCHANGED <<lcmd, lold>>

\* SWAPDB brings the list that the other database has under the key, if any;
\* no version is bumped.
LSwap(items) ==
    /\ Free
    /\ litems' = items /\ lstored' = (items # <<>>)
    /\ lbumped' = FALSE /\ lsilent' = TRUE
    /\ UNCHANGED <<lcmd, lold>>

LNext ==
    \/ \E left \in BOOLEAN, v \in LValues : Push(left, <<v>>)
    \/ \E left \in BOOLEAN, v, w \in LValues : Push(left, <<v, w>>)
    \/ \E left \in BOOLEAN, n \in 0 .. LMaxLen + 1 : Pop(left, n)
    \/ \E i \in LNumbers, v \in LValues : Lset(i, v)
    \/ \E n \in LNumbers, v \in LValues : LremBegin(n, v)
    \/ \E v \in LValues, rank \in LNumbers, n, max \in 0 .. LMaxLen :
          LposBegin(v, rank, n, max)
    \/ LDelete \/ LVanish
    \/ \E n \in 0 .. LMaxLen : \E items \in [1 .. n -> LValues] : LSwap(items)
    \/ LremStep \/ LremEnd
    \/ LposStep \/ LposEnd

LSpec == LInit /\ [][LNext]_lvars

-----------------------------------------------------------------------------
\* LRANGE.
LRange(start, stop) ==
    LET len == Len(litems)
        from == IF start < 0 THEN Max({0, len + start}) ELSE start
        to == IF stop < 0 THEN len + stop ELSE stop
    IN  IF from > to \/ from >= len THEN <<>>
        ELSE SubSeq(litems, from + 1, Min({to, len - 1}) + 1)

\* items are the elements of list at the positions of P, in order.
Selects(items, list, P) ==
    \E f \in [DOMAIN items -> P] :
        /\ \A i, j \in DOMAIN items : i < j => f[i] < f[j]
        /\ \A p \in P : \E i \in DOMAIN items : f[i] = p
        /\ \A i \in DOMAIN items : items[i] = list[f[i]]

\* LREM removes the occurrences nearest to the end it starts from, as many as
\* asked for, and nothing else, although it walks over the array it removes
\* from (lists.js:155-185).
LremExact ==
    Loop("lrem") /\ ~LremGoesOn =>
        LET hits == {p \in 1 .. Len(lold) : lold[p] = lcmd.value}
            nearer(p) == IF lcmd.count > 0 THEN {q \in hits : q < p}
                         ELSE {q \in hits : q > p}
            gone == {p \in hits : lcmd.count # 0 =>
                                    Cardinality(nearer(p)) < Abs(lcmd.count)}
        IN  /\ Selects(litems, lold, (1 .. Len(lold)) \ gone)
            /\ lcmd.removed = Cardinality(gone)

\* LPOS returns the matches from the rank-th on, at most count of them, among
\* the first (or last) maxlen elements.
PositionsExact ==
    Loop("lpos") /\ ~LposGoesOn =>
        LET size == Len(litems)
            depth(p) == IF lcmd.rank > 0 THEN p ELSE size - 1 - p
            hits == {p \in 0 .. size - 1 :
                        /\ litems[p + 1] = lcmd.value
                        /\ lcmd.maxlen > 0 => depth(p) < lcmd.maxlen}
            nth(p) == Cardinality({q \in hits : depth(q) <= depth(p)})
            first == Max({1, Abs(lcmd.rank)})
            wanted == {p \in hits :
                        /\ nth(p) >= first
                        /\ lcmd.count # 0 => nth(p) < first + lcmd.count}
        IN  /\ Range(lcmd.results) = wanted
            /\ \A i, j \in DOMAIN lcmd.results :
                  i < j => depth(lcmd.results[i]) < depth(lcmd.results[j])

\* LRANGE returns the elements whose index, counted from either end, lies in
\* the window.
ElementsExact ==
    Free /\ lstored =>
        \A start, stop \in LNumbers :
            LET index(i) == IF i < 0 THEN Len(litems) + i ELSE i
            IN  Selects(LRange(start, stop), litems,
                        {p \in 1 .. Len(litems) : /\ p - 1 >= index(start)
                                                  /\ p - 1 <= index(stop)})

\* The replies of LPOS and LRANGE are those of their definition, whatever the
\* signs and sizes of ranks, limits and indexes (lists.js:96-111, 213-246).
ListRepliesExact == PositionsExact /\ ElementsExact

\* Every command that changes a list bumps the version of its key, so that
\* WATCH notices it, unless the change is a push that store.set refused
\* (lists.js:10-30, 45-81, 140-142, 187-188; store.js:55-81).  The changes that
\* bump nothing are a deadline noticed by a read, FLUSHDB, FLUSHALL and SWAPDB
\* (store.js:29-38, 112-143).
ListChangesBumped ==
    [][ Free' /\ litems' # (IF Free THEN litems ELSE lold) /\ ~Loop("lpos")
        => \/ lbumped' \/ lsilent'
           \/ /\ LMayRefuse
              /\ \E left \in BOOLEAN, v \in LValues :
                   \/ Push(left, <<v>>)
                   \/ \E w \in LValues : Push(left, <<v, w>>) ]_lvars

=============================================================================
