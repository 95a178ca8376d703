----------------------------- MODULE SortedSets ----------------------------
(***************************************************************************)
(* Sorted sets (src/src/commands/sorted_sets.js).  The object stored under *)
(* a key has two halves that every command must keep in step: members, a   *)
(* Map from names to scores, and sorted, an array of entries that is       *)
(* searched by bisection.  One key is modelled.  A command runs in one     *)
(* piece in the server; here each pair of ZADD, each name of ZREM and each *)
(* round of the bisection is a step of its own.                            *)
(*                                                                         *)
(* Names are numbered in string order.  A score is an integer strictly     *)
(* between -Infinity and Infinity, one of these two, or NotANumber; a sum  *)
(* beyond the finite scores is infinite, as it is for doubles.             *)
(***************************************************************************)
EXTENDS Integers, Sequences, FiniteSets, SequencesExt

CONSTANTS
    ZNames,       \* the names a member may have
    Infinity,
    ZGiven,       \* the scores and increments that clients pass
    ZFlags,       \* the sets of options that clients pass to ZADD
    ZMaxArgs,     \* bounds the pairs of a ZADD and the names of a ZREM
    ZMayRefuse    \* whether store.set may refuse a write (maxmemory)

NotANumber == Infinity + 1
NoScore == Infinity + 2
Numbers == (-Infinity) .. Infinity
Scores == (-Infinity) .. NotANumber

ASSUME SortedSetParameters ==
    /\ ZNames \subseteq Nat /\ IsFiniteSet(ZNames)
    /\ Infinity \in Nat \ {0}
    /\ ZGiven \subseteq Numbers
    /\ ZFlags \subseteq SUBSET {"NX", "XX", "GT", "LT"}
    /\ \A F \in ZFlags : "NX" \in F => F = {"NX"}
    /\ ZMaxArgs \in Nat
    /\ ZMayRefuse \in BOOLEAN

VARIABLES
    zstored,      \* is the object in the store
    zmembers,     \* the Map of the object that the key or the command holds
    zsorted,      \* its array
    zcmd,         \* the command under way: its kind, options, arguments left
    zentry,       \* the entry that insertSorted is placing, or NoEntry
    zlo, zhi,     \* lo and hi of its search
    \* History: the Map when the command began, and whether a NotANumber has
    \* ever been a score of this object.
    zold, znan

zvars == <<zstored, zmembers, zsorted, zcmd, zentry, zlo, zhi, zold, znan>>

Entries == [member : ZNames, score : Scores]
NoEntry == [member |-> -1, score |-> NoScore]
NoMembers == [m \in ZNames |-> NoScore]
Idle == [kind |-> "none", flags |-> {}, left |-> 0]
Running(kind) == zcmd.kind = kind /\ zentry = NoEntry

ZInit ==
    /\ zstored = FALSE
    /\ zmembers = NoMembers /\ zsorted = <<>>
    /\ zcmd = Idle
    /\ zentry = NoEntry /\ zlo = 0 /\ zhi = 0
    /\ zold = NoMembers /\ znan = FALSE

-----------------------------------------------------------------------------
\* Whether insertSorted places e before f.  The difference of two scores that
\* are infinite alike is NaN, so their names are not compared.
Precedes(e, f) ==
    /\ NotANumber \notin {e.score, f.score}
    /\ \/ e.score < f.score
       \/ /\ e.score = f.score /\ e.score \notin {-Infinity, Infinity}
          /\ e.member < f.member

\* a <= b for two doubles.
AtMost(a, b) == NotANumber \notin {a, b} /\ a <= b

\* a + b for two doubles.
FloatSum(a, b) ==
    IF NotANumber \in {a, b} \/ {a, b} = {-Infinity, Infinity} THEN NotANumber
    ELSE IF a \in {-Infinity, Infinity} THEN a
    ELSE IF b \in {-Infinity, Infinity} THEN b
    ELSE IF a + b > Infinity THEN Infinity
    ELSE IF a + b < -Infinity THEN -Infinity
    ELSE a + b

Has(m) == zmembers[m] # NoScore
Place(m) == CHOOSE i \in 1 .. Len(zsorted) : zsorted[i].member = m
Without(m) == RemoveAt(zsorted, Place(m))

\* Gives m the score s in the Map, takes its old entry out of the array and
\* begins the search for the place of the new one.
Assign(m, s) ==
    LET rest == IF Has(m) THEN Without(m) ELSE zsorted
    IN  /\ zmembers' = [zmembers EXCEPT ![m] = s]
        /\ zsorted' = rest
        /\ zentry' = [member |-> m, score |-> s]
        /\ zlo' = 0 /\ zhi' = Len(rest)

Begin(kind, flags, n) ==
    /\ zcmd = Idle
    /\ zcmd' = [kind |-> kind, flags |-> flags, left |-> n]
    /\ zold' = zmembers

ZaddBegin(F, n) ==
    /\ Begin("zadd", F, n)
    /\ UNCHANGED <<zstored, zmembers, zsorted, zentry, zlo, zhi, znan>>

\* Mutant: GT compares the wrong way.
Applies_GtReversed(m, s) ==
    LET given(f) == f \in zcmd.flags
    IN  IF Has(m)
        THEN /\ ~given("NX") /\ s # zmembers[m]
             /\ given("GT") => ~AtMost(zmembers[m], s)
             /\ given("LT") => ~AtMost(zmembers[m], s)
        ELSE ~given("XX")

\* Whether ZADD writes the pair.
Applies(m, s) ==
    LET given(f) == f \in zcmd.flags
    IN  IF Has(m)
        THEN /\ ~given("NX") /\ s # zmembers[m]
             /\ given("GT") => ~AtMost(s, zmembers[m])
             /\ given("LT") => ~AtMost(zmembers[m], s)
        ELSE ~given("XX")

ZaddPair(m, s) ==
    /\ Running("zadd") /\ zcmd.left > 0
    /\ zcmd' = [zcmd EXCEPT !.left = @ - 1]
    /\ \/ Applies(m, s) /\ Assign(m, s)
       \/ ~Applies(m, s) /\ UNCHANGED <<zmembers, zsorted, zentry, zlo, zhi>>
    /\ UNCHANGED <<zstored, zold, znan>>

\* A score that is no float ends ZADD: the pairs before it stay in an object
\* that was in the store and go with one that was not.
ZaddBadScore ==
    /\ Running("zadd") /\ zcmd.left > 0
    /\ zcmd' = Idle
    /\ IF zstored THEN UNCHANGED <<zmembers, zsorted, znan>>
       ELSE zmembers' = NoMembers /\ zsorted' = <<>> /\ znan' = FALSE
    /\ zold' = NoMembers
    /\ UNCHANGED <<zstored, zentry, zlo, zhi>>

Zincrby(m, inc) ==
    LET s == IF Has(m) THEN FloatSum(zmembers[m], inc) ELSE inc
    IN  /\ Begin("zincrby", {}, 0)
        /\ Assign(m, s)
        /\ znan' = (znan \/ s = NotANumber)
        /\ UNCHANGED zstored

\* Mutant: ties are left as they come.
SearchStep_ByScore ==
    LET mid == (zlo + zhi) \div 2
    IN  /\ zentry # NoEntry /\ zlo < zhi
        /\ IF ~AtMost(zentry.score, zsorted[mid + 1].score)
           THEN zlo' = mid + 1 /\ zhi' = zhi
           ELSE zlo' = zlo /\ zhi' = mid
        /\ UNCHANGED <<zstored, zmembers, zsorted, zcmd, zentry, zold, znan>>

\* One round of the loop of insertSorted, whose array counts from 0.
SearchStep ==
    LET mid == (zlo + zhi) \div 2
    IN  /\ zentry # NoEntry /\ zlo < zhi
        /\ IF Precedes(zsorted[mid + 1], zentry)
           THEN zlo' = mid + 1 /\ zhi' = zhi
           ELSE zlo' = zlo /\ zhi' = mid
        /\ UNCHANGED <<zstored, zmembers, zsorted, zcmd, zentry, zold, znan>>

Splice ==
    /\ zentry # NoEntry /\ zlo = zhi
    /\ zsorted' = InsertAt(zsorted, zlo + 1, zentry)
    /\ zentry' = NoEntry /\ zlo' = 0 /\ zhi' = 0
    /\ UNCHANGED <<zstored, zmembers, zcmd, zold, znan>>

\* The call of store.set.  A refused write is not reported: what was changed
\* in place stays, and a new object is lost.  ZADD XX stores an empty one.
ZStore ==
    /\ Running("zadd") \/ Running("zincrby")
    /\ zcmd.left = 0
    /\ zcmd' = Idle
    /\ \/ zstored' = TRUE /\ UNCHANGED <<zmembers, zsorted, znan>>
       \/ /\ ZMayRefuse
          /\ IF zstored THEN UNCHANGED <<zmembers, zsorted, znan>>
             ELSE zmembers' = NoMembers /\ zsorted' = <<>> /\ znan' = FALSE
          /\ UNCHANGED zstored
    /\ zold' = NoMembers
    /\ UNCHANGED <<zentry, zlo, zhi>>

ZremBegin(n) ==
    /\ zstored
    /\ Begin("zrem", {}, n)
    /\ UNCHANGED <<zstored, zmembers, zsorted, zentry, zlo, zhi, znan>>

\* Mutant: the name leaves the Map only.
ZremName_MapOnly(m) ==
    /\ Running("zrem") /\ zcmd.left > 0
    /\ zcmd' = [zcmd EXCEPT !.left = @ - 1]
    /\ IF Has(m)
       THEN zmembers' = [zmembers EXCEPT ![m] = NoScore] /\ UNCHANGED zsorted
       ELSE UNCHANGED <<zmembers, zsorted>>
    /\ UNCHANGED <<zstored, zentry, zlo, zhi, zold, znan>>

ZremName(m) ==
    /\ Running("zrem") /\ zcmd.left > 0
    /\ zcmd' = [zcmd EXCEPT !.left = @ - 1]
    /\ IF Has(m)
       THEN zmembers' = [zmembers EXCEPT ![m] = NoScore] /\ zsorted' = Without(m)
       ELSE UNCHANGED <<zmembers, zsorted>>
    /\ UNCHANGED <<zstored, zentry, zlo, zhi, zold, znan>>

\* An object without members is deleted.
ZremEnd ==
    /\ Running("zrem") /\ zcmd.left = 0
    /\ zcmd' = Idle
    /\ zstored' = (zmembers # NoMembers)
    /\ znan' = (znan /\ zstored')
    /\ zold' = NoMembers
    /\ UNCHANGED <<zmembers, zsorted, zentry, zlo, zhi>>

\* DEL, an expiry, an eviction, FLUSHDB...
ZVanish ==
    /\ zcmd = Idle /\ zstored
    /\ zstored' = FALSE
    /\ zmembers' = NoMembers /\ zsorted' = <<>> /\ znan' = FALSE
    /\ zold' = NoMembers
    /\ UNCHANGED <<zcmd, zentry, zlo, zhi>>

\* The steps of the command under way.
ZProceed ==
    \/ \E m \in ZNames, s \in ZGiven : ZaddPair(m, s)
    \/ ZaddBadScore
    \/ SearchStep
    \/ Splice
    \/ ZStore
    \/ \E m \in ZNames : ZremName(m)
    \/ ZremEnd

ZNext ==
    \/ \E F \in ZFlags, n \in 1 .. ZMaxArgs : ZaddBegin(F, n)
    \/ \E m \in ZNames, inc \in ZGiven : Zincrby(m, inc)
    \/ \E n \in 1 .. ZMaxArgs : ZremBegin(n)
    \/ ZVanish
    \/ ZProceed

ZSpec == ZInit /\ [][ZNext]_zvars

-----------------------------------------------------------------------------
\* Replies.  The entries a command walks over, in the order it sends them.
Walk(rev) == IF rev THEN Reverse(zsorted) ELSE zsorted

\* ZRANK and ZREVRANK.
Rank(m) == Place(m) - 1
RevRank(m) == Len(zsorted) - 1 - Rank(m)

\* ZRANGE, ZRANGE REV and ZREVRANGE.
ZRange(start, stop, rev) ==
    LET len == Len(zsorted)
        from == IF start < 0 THEN Max({0, len + start}) ELSE start
        to == IF stop < 0 THEN len + stop ELSE stop
    IN  IF from > to \/ from >= len THEN <<>>
        ELSE SubSeq(Walk(rev), from + 1, Min({to, len - 1}) + 1)

\* A bound is [val, exclusive].
InRange(s, lo, hi) ==
    /\ IF lo.exclusive THEN ~AtMost(s, lo.val) /\ s # NotANumber
       ELSE AtMost(lo.val, s)
    /\ IF hi.exclusive THEN ~AtMost(hi.val, s) /\ s # NotANumber
       ELSE AtMost(s, hi.val)

\* The entries of an array whose score is in range, in its order.
InScores(list, lo, hi) ==
    LET found[n \in 0 .. Len(list)] ==
            IF n = 0 THEN <<>>
            ELSE IF InRange(list[n].score, lo, hi) THEN Append(found[n - 1], list[n])
            ELSE found[n - 1]
    IN  found[Len(list)]

\* Mutant: LIMIT counts from the first entry of the array.
ZRangeByScore_LimitFirst(lo, hi, offset, count) ==
    LET found == InScores(SubSeq(zsorted, Max({0, offset}) + 1, Len(zsorted)), lo, hi)
    IN  IF count < 0 THEN found ELSE SubSeq(found, 1, Min({count, Len(found)}))

\* ZRANGEBYSCORE; without LIMIT the offset is 0 and the count -1.
ZRangeByScore(lo, hi, offset, count) ==
    LET found == InScores(zsorted, lo, hi)
        rest == SubSeq(found, Max({0, offset}) + 1, Len(found))
    IN  IF count < 0 THEN rest ELSE SubSeq(rest, 1, Min({count, Len(rest)}))

ZCount(lo, hi) == Len(InScores(zsorted, lo, hi))

-----------------------------------------------------------------------------
Members == {m \in ZNames : Has(m)}
EntryOf(m) == [member |-> m, score |-> zmembers[m]]
Holds(m) == \E i \in 1 .. Len(zsorted) : zsorted[i].member = m

ZTypeOK ==
    /\ zstored \in BOOLEAN /\ znan \in BOOLEAN
    /\ zmembers \in [ZNames -> Scores \cup {NoScore}]
    /\ zold \in [ZNames -> Scores \cup {NoScore}]
    /\ zsorted \in Seq(Entries)
    /\ zcmd \in [kind : {"none", "zadd", "zincrby", "zrem"},
                 flags : ZFlags \cup {{}}, left : 0 .. ZMaxArgs]
    /\ zentry \in Entries \cup {NoEntry}
    /\ zlo \in Nat /\ zhi \in Nat

\* The two halves of the object agree after every step of every command: the
\* array holds each member of the Map once, with its score, but for the entry
\* that is being placed; a refused or failed command is no exception
\* (sorted_sets.js:17-39, 86-110, 121-130, 309-319).
IndexExact ==
    /\ \A i \in 1 .. Len(zsorted) :
          Has(zsorted[i].member) /\ zmembers[zsorted[i].member] = zsorted[i].score
    /\ \A i, j \in 1 .. Len(zsorted) :
          zsorted[i].member = zsorted[j].member => i = j
    /\ \A m \in ZNames : Has(m) => (Holds(m) <=> zentry.member # m)
    /\ zentry # NoEntry => Has(zentry.member) /\ zentry = EntryOf(zentry.member)

\* The array stays sorted by score, and by name among equal finite scores,
\* unless ZINCRBY has once added opposite infinities
\* (sorted_sets.js:17-31, 304-322).
SortedUnlessNaN ==
    ~znan => \A i, j \in 1 .. Len(zsorted) :
                i < j => ~Precedes(zsorted[j], zsorted[i])

\* The options of ZADD hold for the command as a whole, however often it
\* names a member and even if it fails half way: NX leaves what was there, XX
\* adds nothing, GT and LT move scores one way (sorted_sets.js:52-100).
OptionsHonoured ==
    zcmd.kind = "zadd" =>
        \A m \in ZNames :
            IF zold[m] = NoScore
            THEN "XX" \in zcmd.flags => ~Has(m)
            ELSE /\ Has(m)
                 /\ "NX" \in zcmd.flags => zmembers[m] = zold[m]
                 /\ zold[m] # NotANumber =>
                      /\ "GT" \in zcmd.flags => zmembers[m] >= zold[m]
                      /\ "LT" \in zcmd.flags => zmembers[m] <= zold[m]

\* A member's rank is a place that the order of the Map allows.
RanksExact ==
    \A m \in Members :
        LET before == {n \in Members : Precedes(EntryOf(n), EntryOf(m))}
            after == {n \in Members : Precedes(EntryOf(m), EntryOf(n))}
        IN  Rank(m) \in Cardinality(before) .. Cardinality(Members) - 1 - Cardinality(after)

RankFrom(m, rev) == IF rev THEN RevRank(m) ELSE Rank(m)

\* ZRANGE returns the members whose rank, counted from either end, is in the
\* window, in the order of their ranks; a negative index counts from the last.
WindowExact(start, stop, rev) ==
    LET reply == ZRange(start, stop, rev)
        index(i) == IF i < 0 THEN Cardinality(Members) + i ELSE i
    IN  /\ {reply[i].member : i \in 1 .. Len(reply)} =
             {m \in Members : index(start) <= RankFrom(m, rev) /\ RankFrom(m, rev) <= index(stop)}
        /\ \A i \in 2 .. Len(reply) :
             RankFrom(reply[i].member, rev) = RankFrom(reply[i - 1].member, rev) + 1

WindowsExact ==
    LET size == Cardinality(Members)
    IN  \A start, stop \in (-size - 1) .. size + 1, rev \in BOOLEAN : WindowExact(start, stop, rev)

\* The members whose score is in range; a NotANumber is in no range.
MembersIn(lo, hi) ==
    {m \in Members : /\ zmembers[m] # NotANumber
                     /\ lo.val <= zmembers[m] /\ zmembers[m] <= hi.val
                     /\ lo.exclusive => zmembers[m] # lo.val
                     /\ hi.exclusive => zmembers[m] # hi.val}

\* ZRANGEBYSCORE returns them less the first offset, at most count, in the
\* order of their ranks.
LimitExact(lo, hi, offset, count) ==
    LET reply == ZRangeByScore(lo, hi, offset, count)
        found == MembersIn(lo, hi)
        skipped(m) == Cardinality({n \in found : Rank(n) < Rank(m)})
    IN  /\ {reply[i].member : i \in 1 .. Len(reply)} =
             {m \in found : /\ skipped(m) >= offset
                            /\ count >= 0 => skipped(m) < offset + count}
        /\ \A i \in 2 .. Len(reply) : Rank(reply[i - 1].member) < Rank(reply[i].member)

\* ZCOUNT returns their number.
ScoresExact ==
    \A lo, hi \in [val : Numbers, exclusive : BOOLEAN] :
        /\ ZCount(lo, hi) = Cardinality(MembersIn(lo, hi))
        /\ \A offset \in 0 .. 1, count \in -1 .. 2 : LimitExact(lo, hi, offset, count)

\* The replies that read the array agree with the Map: ranks, unless the
\* array may be out of order, windows of ranks, whatever the signs and sizes
\* of the indexes, and ranges of scores with their LIMIT
\* (sorted_sets.js:149-299, 325-355).
RangesExact ==
    zcmd = Idle /\ zstored => (~znan => RanksExact) /\ WindowsExact /\ ScoresExact
=============================================================================
