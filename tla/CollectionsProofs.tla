-------------------------- MODULE CollectionsProofs -------------------------
(***************************************************************************)
(* Theorems about SCAN, hashes, lists and globbing for all values of their *)
(* constants.  The four modules share no variable; each has its own        *)
(* section here, with the inductive invariant its theorems follow from.    *)
(* Facts about sequences and induction are taken from SortedSetsProofs.    *)
(***************************************************************************)
EXTENDS Scan, Hashes, Lists, Glob, SortedSetsProofs, FiniteSetTheorems, SequenceTheorems, TLAPS

-----------------------------------------------------------------------------
(* SCAN.  The invariant splits the keys at the cursor: behind it, all that *)
(* have stayed have been sent; at it and ahead of it, none has.            *)

STypeOK ==
    /\ skeys \subseteq ScanKeys
    /\ scursor \in {Finished} \cup 0 .. Buckets - 1
    /\ sgot \subseteq ScanKeys
    /\ sstayed \subseteq skeys
    /\ sseen \subseteq ScanKeys

\* The matching keys that stayed and lie behind the cursor have been sent.
BehindIsSent ==
    \A k \in sstayed \cap MatchedKeys :
        scursor = Finished \/ Bucket[k] < scursor => k \in sgot

\* What is there now has been seen, and what is sent has been seen.
SeenIsRight ==
    /\ scursor # Finished => skeys \subseteq sseen
    /\ sgot \subseteq sseen \cap MatchedKeys

ScanInv == STypeOK /\ BehindIsSent /\ SeenIsRight /\ NoKeyTwice

\* A scan that has not begun has seen all there is.
LEMMA ScanInvInit == SInit => ScanInv
BY DEF SInit, ScanInv, STypeOK, BehindIsSent, SeenIsRight, NoKeyTwice, Finished

\* A key added while a scan runs is seen but has not stayed; one that is
\* deleted has not stayed any more.
LEMMA WritesKeepScanInv ==
    ASSUME ScanInv, NEW k \in ScanKeys, AddKey(k) \/ DeleteKey(k)
    PROVE ScanInv'
<1>1. CASE AddKey(k)
  BY <1>1 DEF AddKey, ScanInv, STypeOK, BehindIsSent, SeenIsRight, NoKeyTwice
<1>2. CASE DeleteKey(k)
  BY <1>2 DEF DeleteKey, ScanInv, STypeOK, BehindIsSent, SeenIsRight, NoKeyTwice
<1>3. QED BY <1>1, <1>2

\* A scan starts before the first bucket, with nothing sent.
LEMMA StartKeepsScanInv == ScanInv /\ StartScan => ScanInv'
<1>1. SUFFICES ASSUME ScanInv, StartScan PROVE ScanInv'
  OBVIOUS
<1>2. 0 \in 0 .. Buckets - 1 /\ Finished # 0
  BY ScanParameters DEF Finished
<1>3. STypeOK'
  BY <1>1, <1>2 DEF ScanInv, STypeOK, StartScan
<1>4. \A k \in ScanKeys : Bucket[k] \in Nat
  BY ScanParameters
<1>5. BehindIsSent'
  BY <1>1, <1>2, <1>4 DEF ScanInv, STypeOK, BehindIsSent, StartScan
<1>6. SeenIsRight' /\ NoKeyTwice'
  BY <1>1 DEF SeenIsRight, NoKeyTwice, StartScan
<1>7. QED BY <1>3, <1>5, <1>6 DEF ScanInv

\* A visit of the buckets from the cursor to last.
LEMMA StepKeepsScanInv ==
    ASSUME ScanInv, NEW count \in Counts, ScanStep(count)
    PROVE ScanInv'
<1>1. PICK last \in scursor .. Buckets - 1 :
          /\ sgot' = sgot \cup Returned(last)
          /\ scursor' = NextCursor(last)
  BY DEF ScanStep
<1>2. /\ scursor # Finished
      /\ skeys' = skeys /\ sstayed' = sstayed /\ sseen' = sseen
  BY DEF ScanStep
<1>3. scursor \in 0 .. Buckets - 1 /\ Buckets \in Nat \ {0}
  BY <1>2, ScanParameters DEF ScanInv, STypeOK
<1>4. \A k \in ScanKeys : Bucket[k] \in 0 .. Buckets - 1
  BY ScanParameters
<1>5. /\ last \in Int /\ last >= scursor
      /\ \/ scursor' = last + 1 /\ last + 1 < Buckets
         \/ scursor' = Finished /\ last = Buckets - 1
  <2>1. last \in Int /\ last >= scursor /\ last <= Buckets - 1
    BY <1>3
  <2>2. CASE last + 1 < Buckets
    BY <1>1, <2>1, <2>2 DEF NextCursor
  <2>3. CASE ~(last + 1 < Buckets)
    BY <1>1, <1>3, <2>1, <2>3 DEF NextCursor
  <2>4. QED BY <2>2, <2>3, <2>1
<1>6. Returned(last) \subseteq skeys \cap MatchedKeys
  BY DEF Returned
<1>7. STypeOK'
  BY <1>1, <1>2, <1>3, <1>5, <1>6 DEF ScanInv, STypeOK
<1>8. ASSUME NEW k \in sstayed' \cap MatchedKeys,
             scursor' = Finished \/ Bucket[k] < scursor'
      PROVE  k \in sgot'
  <2>1. k \in skeys /\ k \in sstayed /\ Bucket[k] \in 0 .. Buckets - 1
    BY <1>2, <1>4, <1>8 DEF ScanInv, STypeOK
  <2>2. Bucket[k] <= last
    BY <1>5, <1>8, <2>1, <1>3 DEF Finished
  <2>3. CASE Bucket[k] < scursor
    BY <2>1, <2>3, <1>1, <1>8 DEF ScanInv, BehindIsSent
  <2>4. CASE Bucket[k] >= scursor
    BY <2>1, <2>2, <2>4, <1>1, <1>8 DEF Returned
  <2>5. QED BY <2>1, <2>3, <2>4, <1>3
<1>9. BehindIsSent'
  BY <1>8 DEF BehindIsSent
<1>10. SeenIsRight'
  BY <1>1, <1>2, <1>6 DEF ScanInv, SeenIsRight
<1>11. NoKeyTwice'
  <2>1. SUFFICES ASSUME scursor' # Finished, NEW k \in sgot' PROVE Bucket[k] < scursor'
    BY DEF NoKeyTwice
  <2>2. scursor' = last + 1
    BY <1>5, <2>1
  <2>3. CASE k \in sgot
    <3>1. Bucket[k] < scursor
      BY <1>2, <2>3 DEF ScanInv, NoKeyTwice
    <3>2. Bucket[k] \in Int
      BY <2>3, <1>4 DEF ScanInv, STypeOK
    <3>3. QED BY <3>1, <3>2, <2>2, <1>5, <1>3
  <2>4. CASE k \in Returned(last)
    <3>1. k \in ScanKeys /\ Bucket[k] <= last
      BY <2>4 DEF Returned, ScanInv, STypeOK
    <3>2. Bucket[k] \in Int
      BY <3>1, <1>4
    <3>3. QED BY <3>1, <3>2, <2>2, <1>5
  <2>5. QED BY <2>1, <2>3, <2>4, <1>1
<1>12. QED BY <1>7, <1>9, <1>10, <1>11 DEF ScanInv

\* Every step keeps the invariant.
LEMMA NextKeepsScanInv == ScanInv /\ [SNext]_svars => ScanInv'
<1>1. SUFFICES ASSUME ScanInv, [SNext]_svars PROVE ScanInv'
  OBVIOUS
<1>2. CASE \E k \in ScanKeys : AddKey(k) \/ DeleteKey(k)
  BY <1>1, <1>2, WritesKeepScanInv
<1>3. CASE StartScan
  BY <1>1, <1>3, StartKeepsScanInv
<1>4. CASE \E count \in Counts : ScanStep(count)
  BY <1>1, <1>4, StepKeepsScanInv
<1>5. CASE UNCHANGED svars
  BY <1>1, <1>5 DEF svars, ScanInv, STypeOK, BehindIsSent, SeenIsRight, NoKeyTwice
<1>6. QED BY <1>1, <1>2, <1>3, <1>4, <1>5 DEF SNext

\* Whatever clients add and delete during a scan, and whatever COUNT it asks
\* for, a scan that has ended has returned every matching key that was there
\* all the time (keys.js:203-254).
THEOREM ScanMissesNothing == SSpec => []FullScanComplete
<1>1. ScanInv => FullScanComplete
  BY DEF ScanInv, BehindIsSent, SeenIsRight, FullScanComplete
<1>2. QED BY <1>1, ScanInvInit, NextKeepsScanInv, PTL DEF SSpec

\* No scan returns a key twice (keys.js:225-250).
THEOREM ScanSendsNoKeyTwice == SSpec => []NoKeyTwice
<1>1. ScanInv => NoKeyTwice
  BY DEF ScanInv
<1>2. QED BY <1>1, ScanInvInit, NextKeepsScanInv, PTL DEF SSpec

-----------------------------------------------------------------------------
(* Hashes.  A Map is in the store exactly if it has fields, and a field    *)
(* holds a number or a text.                                               *)

HValues == Int \cup {Text}

HashInv ==
    /\ hmap \in [HFields -> HValues \cup {NoField}]
    /\ hstored \in BOOLEAN
    /\ hstored <=> FieldsIn(hmap) # {}

\* Writing a field leaves a Map that has fields.
LEMMA WrittenMap ==
    ASSUME NEW m \in [HFields -> HValues \cup {NoField}],
           NEW f \in HFields, NEW v \in HValues
    PROVE  /\ [m EXCEPT ![f] = v] \in [HFields -> HValues \cup {NoField}]
           /\ FieldsIn([m EXCEPT ![f] = v]) = FieldsIn(m) \cup {f}
           /\ FieldsIn([m EXCEPT ![f] = v]) # {}
<1>1. v # NoField /\ v \in HValues \cup {NoField}
  BY HashParameters DEF HValues
<1>2. [m EXCEPT ![f] = v] \in [HFields -> HValues \cup {NoField}]
  BY <1>1
<1>3. \A g \in HFields : [m EXCEPT ![f] = v][g] = IF g = f THEN v ELSE m[g]
  OBVIOUS
<1>4. FieldsIn([m EXCEPT ![f] = v]) = FieldsIn(m) \cup {f}
  BY <1>1, <1>3 DEF FieldsIn
<1> QED
  BY <1>2, <1>4

\* Both outcomes of store.set keep the invariant, if the Map has fields.
LEMMA SetHashKeeps ==
    ASSUME HashInv, NEW map \in [HFields -> HValues \cup {NoField}],
           FieldsIn(map) # {}, SetHash(map)
    PROVE  HashInv'
<1>1. hmap' = map \/ hmap' = hmap
  BY DEF SetHash
<1>2. CASE hmap' = map /\ hstored' = TRUE
  BY <1>2 DEF HashInv
<1>3. CASE hmap' = hmap /\ hstored' = hstored
  BY <1>3 DEF HashInv
<1> QED
  BY <1>2, <1>3 DEF SetHash, HashInv

\* The numbers HINCRBY and HINCRBYFLOAT work with.
LEMMA NumbersAreInts ==
    ASSUME NEW v \in HValues \cup {NoField}
    PROVE  /\ IsNumber(v) => v \in Int
           /\ v = NoField \/ IsNumber(v) => Number(v) \in Int
  BY DEF IsNumber, Number, HValues

\* What clients write is a value.
LEMMA StringsAreValues == HStrings \subseteq HValues
  BY HashParameters DEF HStrings, HValues

\* HSET writes one field, then the other.
LEMMA HsetKeeps ==
    ASSUME HashInv, NEW f \in HFields, NEW g \in HFields,
           NEW v \in HStrings, NEW w \in HStrings, Hset(f, v, g, w)
    PROVE  HashInv'
<1> DEFINE first == [hmap EXCEPT ![f] = v]
           second == [first EXCEPT ![g] = w]
<1>1. v \in HValues /\ w \in HValues
  BY StringsAreValues
<1>2. first \in [HFields -> HValues \cup {NoField}]
  BY <1>1, WrittenMap DEF HashInv
<1>3. SetHash(second)
  BY DEF Hset
<1> HIDE DEF first
<1>4. second \in [HFields -> HValues \cup {NoField}] /\ FieldsIn(second) # {}
  BY <1>1, <1>2, WrittenMap
<1> QED
  BY <1>3, <1>4, SetHashKeeps

\* A command that writes a value under one field.
LEMMA WriteKeeps ==
    ASSUME HashInv, NEW f \in HFields, NEW v \in HValues,
           SetHash([hmap EXCEPT ![f] = v])
    PROVE  HashInv'
  BY WrittenMap, SetHashKeeps DEF HashInv

\* HDEL deletes a Map that it has emptied; a Map that vanishes has no field.
LEMMA RemovalsKeep ==
    ASSUME HashInv, HVanish \/ \E F \in (SUBSET HFields) \ {{}} : Hdel(F)
    PROVE  HashInv'
<1>1. CASE HVanish
  BY <1>1 DEF HVanish, HashInv, NoFields, FieldsIn
<1>2. CASE \E F \in (SUBSET HFields) \ {{}} : Hdel(F)
  BY <1>2 DEF Hdel, HashInv, FieldsIn
<1> QED
  BY <1>1, <1>2

\* The increments write a number, the sum.
LEMMA IncrementsKeep ==
    ASSUME HashInv, NEW f \in HFields, NEW n \in HStrings,
           Hincrby(f, n) \/ Hincrbyfloat(f, n)
    PROVE  HashInv'
<1> DEFINE result == Number(hmap[f]) + n
<1>1. CASE Fail
  BY <1>1 DEF Fail, HashInv
<1>2. CASE ~Fail
  <2>1. /\ IsNumber(n) /\ (hmap[f] = NoField \/ IsNumber(hmap[f]))
        /\ SetHash([hmap EXCEPT ![f] = result])
    BY <1>2 DEF Hincrby, Hincrbyfloat, ParsesAsInt, ParsesAsFloat
  <2>2. n \in HValues \cup {NoField} /\ hmap[f] \in HValues \cup {NoField}
    BY StringsAreValues DEF HashInv
  <2>3. n \in Int /\ Number(hmap[f]) \in Int
    BY <2>1, <2>2, NumbersAreInts
  <2>4. result \in HValues
    BY <2>3 DEF HValues
  <2> QED
    BY <2>1, <2>4, WriteKeeps
<1> QED
  BY <1>1, <1>2

\* Every step of a hash keeps its invariant.
LEMMA HashStepKeeps == HashInv /\ [HNext]_hvars => HashInv'
<1> SUFFICES ASSUME HashInv, [HNext]_hvars
             PROVE  HashInv'
  OBVIOUS
<1>1. CASE \E f, g \in HFields, v, w \in HStrings : Hset(f, v, g, w)
  BY <1>1, HsetKeeps
<1>2. CASE \E f \in HFields, v \in HStrings : Hsetnx(f, v)
  BY <1>2, WriteKeeps, StringsAreValues DEF Hsetnx, HashInv
<1>3. CASE \E f \in HFields, n \in HStrings : Hincrby(f, n) \/ Hincrbyfloat(f, n)
  BY <1>3, IncrementsKeep
<1>4. CASE HVanish \/ \E F \in (SUBSET HFields) \ {{}} : Hdel(F)
  BY <1>4, RemovalsKeep
<1>5. CASE UNCHANGED hvars
  BY <1>5 DEF hvars, HashInv
<1> QED
  BY <1>1, <1>2, <1>3, <1>4, <1>5 DEF HNext

\* What HSET counts: f if it is new, and g if it is new and not f.
LEMMA HsetCounts ==
    ASSUME HashInv, NEW f \in HFields, NEW g \in HFields,
           NEW v \in HStrings, NEW w \in HStrings, Hset(f, v, g, w)
    PROVE  hreply'.count = Cardinality({f, g} \ FieldsIn(hmap))
<1> DEFINE first == [hmap EXCEPT ![f] = v]
           new == {f, g} \ FieldsIn(hmap)
           a == IF hmap[f] = NoField THEN 1 ELSE 0
           b == IF first[g] = NoField THEN 1 ELSE 0
<1>1. hreply'.count = a + b
  BY DEF Hset, Reply, Ok
<1>2. v # NoField /\ first[g] = IF g = f THEN v ELSE hmap[g]
  BY StringsAreValues, HashParameters DEF HValues, HashInv
<1>3. f \in FieldsIn(hmap) <=> hmap[f] # NoField
  BY DEF FieldsIn
<1>4. g \in FieldsIn(hmap) <=> hmap[g] # NoField
  BY DEF FieldsIn
<1>5. CASE a = 0 /\ b = 0
  <2>1. new = {}
    BY <1>2, <1>3, <1>4, <1>5
  <2> QED
    BY <1>1, <1>5, <2>1, FS_EmptySet
<1>6. CASE a = 1 /\ b = 0
  <2>1. new = {f}
    BY <1>2, <1>3, <1>4, <1>6
  <2>2. Cardinality({f}) = 1
    BY FS_Singleton
  <2>3. hreply'.count = 1
    BY <1>1, <1>6
  <2> QED
    BY <2>1, <2>2, <2>3
<1>7. CASE a = 0 /\ b = 1
  <2>1. new = {g}
    BY <1>2, <1>3, <1>4, <1>7
  <2>2. Cardinality({g}) = 1
    BY FS_Singleton
  <2>3. hreply'.count = 1
    BY <1>1, <1>7
  <2> QED
    BY <2>1, <2>2, <2>3
<1>8. CASE a = 1 /\ b = 1
  <2>1. new = {f} \cup {g} /\ f # g
    BY <1>2, <1>3, <1>4, <1>8
  <2>2. IsFiniteSet({f}) /\ Cardinality({f}) = 1 /\ g \notin {f}
    BY <2>1, FS_Singleton
  <2>3. Cardinality({f} \cup {g}) = Cardinality({f}) + 1
    BY <2>2, FS_AddElement
  <2>4. hreply'.count = 2
    BY <1>1, <1>8
  <2> QED
    BY <2>1, <2>2, <2>3, <2>4
<1> QED
  BY <1>5, <1>6, <1>7, <1>8

\* What HINCRBY has written parses as an integer: half of it is one, and it
\* lies between the limits.
LEMMA HincrbyWritesInteger ==
    ASSUME HashInv, NEW f \in HFields, NEW n \in HStrings,
           Hincrby(f, n), hmap' # hmap
    PROVE  ParsesAsInt(hmap'[f])
<1> DEFINE result == Number(hmap[f]) + n
<1>1. /\ ParsesAsInt(n)
      /\ hmap[f] = NoField \/ ParsesAsInt(hmap[f])
      /\ result \in (-2 * IntMax) .. (2 * IntMax)
      /\ SetHash([hmap EXCEPT ![f] = result])
  BY DEF Hincrby, Fail
<1>2. n \in HValues \cup {NoField} /\ hmap[f] \in HValues \cup {NoField}
  BY StringsAreValues DEF HashInv
<1>3. n \in Int /\ Number(hmap[f]) \in Int /\ n % 2 = 0 /\ Number(hmap[f]) % 2 = 0
  BY <1>1, <1>2, NumbersAreInts DEF ParsesAsInt, Number
<1>4. result \in Int /\ result % 2 = 0
  BY <1>3
<1>5. hmap'[f] = result
  BY <1>1 DEF SetHash, HashInv
<1>6. IsNumber(result)
  BY <1>4, HashParameters DEF IsNumber
<1> QED
  BY <1>1, <1>4, <1>5, <1>6 DEF ParsesAsInt

\* An error comes from an increment that has failed.
LEMMA ErrorsChangeNothing ==
    ASSUME HNext, hreply'.error
    PROVE  UNCHANGED <<hstored, hmap>>
<1>1. \A n : hreply' = Ok(n) => ~hreply'.error
  BY DEF Ok
<1>2. CASE \E f \in HFields, n \in HStrings : Hincrby(f, n) \/ Hincrbyfloat(f, n)
  BY <1>1, <1>2 DEF Hincrby, Hincrbyfloat, Reply, Fail
<1>3. CASE \E f, g \in HFields, v, w \in HStrings : Hset(f, v, g, w)
  BY <1>1, <1>3 DEF Hset, Reply
<1>4. CASE \E f \in HFields, v \in HStrings : Hsetnx(f, v)
  BY <1>1, <1>4 DEF Hsetnx, Reply
<1>5. CASE HVanish \/ \E F \in (SUBSET HFields) \ {{}} : Hdel(F)
  BY <1>1, <1>5 DEF HVanish, Hdel, Reply
<1> QED
  BY <1>2, <1>3, <1>4, <1>5 DEF HNext

\* A hash is in the store exactly if it has fields.
THEOREM HashesConsistent == HSpec => []HashInv
<1>1. HInit => HashInv
  BY DEF HInit, HashInv, NoFields, FieldsIn
<1> QED
  BY <1>1, HashStepKeeps, PTL DEF HSpec

\* The replies of the hash commands tell what happened to the Map: an error
\* changes nothing, HSET counts the fields it adds, HINCRBY writes integers
\* only, and no emptied Map stays (hashes.js:15-22, 46-50, 146-197).
THEOREM HashRepliesAreTrue == HSpec => HashRepliesTrue
<1> DEFINE A == hvars' # hvars =>
                  /\ hreply'.error => UNCHANGED <<hstored, hmap>>
                  /\ CountsNewFields /\ StaysInteger
                  /\ hstored' <=> FieldsIn(hmap') # {}
<1>1. HashInv /\ [HNext]_hvars => [A]_hvars
  <2> SUFFICES ASSUME HashInv, HNext
               PROVE  A
    BY DEF hvars
  <2>1. hreply'.error => UNCHANGED <<hstored, hmap>>
    BY ErrorsChangeNothing
  <2>2. CountsNewFields
    BY HsetCounts DEF CountsNewFields
  <2>3. StaysInteger
    BY HincrbyWritesInteger DEF StaysInteger
  <2>4. hstored' <=> FieldsIn(hmap') # {}
    BY HashStepKeeps DEF HashInv, FieldsIn
  <2> QED
    BY <2>1, <2>2, <2>3, <2>4
<1> QED
  BY <1>1, HashesConsistent, PTL DEF HSpec, HashRepliesTrue

-----------------------------------------------------------------------------
(* Lists.  The loops of LREM and LPOS keep what they have done so far in   *)
(* step with the index they have come to.                                  *)

\* f leads from the elements of items to their positions in list, which are P.
Picks(f, items, list, P) ==
    /\ f \in [DOMAIN items -> P]
    /\ \A i, j \in DOMAIN items : i < j => f[i] < f[j]
    /\ \A p \in P : \E i \in DOMAIN items : f[i] = p
    /\ \A i \in DOMAIN items : items[i] = list[f[i]]

\* The occurrences of v that a walk of LREM over list has come across.  From
\* the left, the elements removed on the way have brought it further in list
\* than in what it leaves of it.
Walked(list, v, count, at, removed) ==
    {p \in 1 .. Len(list) : /\ list[p] = v
                            /\ IF count > 0 THEN p <= at + removed ELSE p > at + 1}

\* The occurrences of v that LREM is to remove: count of them, or all.
ToRemove(list, v, count) ==
    LET hits == {p \in 1 .. Len(list) : list[p] = v}
        nearer(p) == IF count > 0 THEN {q \in hits : q < p} ELSE {q \in hits : q > p}
    IN  {p \in hits : count # 0 => Cardinality(nearer(p)) < Abs(count)}

Left(list, v, count, at, removed) ==
    (1 .. Len(list)) \ Walked(list, v, count, at, removed)

\* What holds in the loop of LREM: it has removed what it has come across, and
\* what lies ahead is the rest of list, shifted or in place.
WalkInv(items, list, v, count, at, removed) ==
    /\ items \in Seq(LValues) /\ list \in Seq(LValues)
    /\ count \in Int /\ at \in Int /\ removed \in Nat
    /\ Len(items) + removed = Len(list)
    /\ IF count > 0 THEN at \in 0 .. Len(items) ELSE at \in -1 .. Len(items) - 1
    /\ count # 0 => removed <= Abs(count)
    /\ removed = 0 => items = list
    /\ removed = Cardinality(Walked(list, v, count, at, removed))
    /\ \E f \in [DOMAIN items -> Left(list, v, count, at, removed)] :
          /\ Picks(f, items, list, Left(list, v, count, at, removed))
          /\ \A i \in DOMAIN items :
                IF count > 0 THEN i > at => f[i] = i + removed
                ELSE i <= at + 1 => f[i] = i

LremLoops == [kind : {"lrem"}, count : Int, value : LValues, removed : Nat, at : Int]

\* How far LPOS may look, how deep in its order a position lies, the matches
\* before depth d and the number of the first one wanted.
Limit(items, maxlen) ==
    IF maxlen > 0 /\ maxlen < Len(items) THEN maxlen ELSE Len(items)
Depth(items, rank, p) == IF rank > 0 THEN p ELSE Len(items) - 1 - p
Matches(items, v, rank, d) ==
    {p \in 0 .. Len(items) - 1 : items[p + 1] = v /\ Depth(items, rank, p) < d}
FirstWanted(rank) == IF rank = 0 THEN 1 ELSE Abs(rank)

\* The results of LPOS, in its order, are the matches before depth d that the
\* rank does not skip.
Found(items, v, rank, d, results) ==
    /\ results \in Seq(0 .. Len(items) - 1)
    /\ \A i, j \in 1 .. Len(results) :
          i < j => Depth(items, rank, results[i]) < Depth(items, rank, results[j])
    /\ \A p \in 0 .. Len(items) - 1 :
          (\E i \in 1 .. Len(results) : results[i] = p)
          <=> /\ p \in Matches(items, v, rank, d)
              /\ FirstWanted(rank)
                 <= Cardinality(Matches(items, v, rank, Depth(items, rank, p) + 1))

\* What the loop of LPOS counts after so many matches: those still to be
\* skipped, and those found.
Counted(seen, rank, count, skip, found, done) ==
    LET first == FirstWanted(rank)
    IN  /\ skip = IF rank = 0 THEN -1 ELSE IF seen < first THEN first - 1 - seen ELSE 0
        /\ found = IF seen < first THEN 0 ELSE seen - (first - 1)
        /\ count # 0 => found <= count
        /\ done <=> count # 0 /\ found >= count

\* What holds in the loop of LPOS, which has come to depth d.
SearchInv(items, c) ==
    LET d == Depth(items, c.rank, c.at)
        limit == Limit(items, c.maxlen)
    IN  /\ d \in 0 .. limit
        /\ c.last = IF c.rank > 0 THEN limit - 1 ELSE Len(items) - limit
        /\ Found(items, c.value, c.rank, d, c.results)
        /\ Counted(Cardinality(Matches(items, c.value, c.rank, d)),
                   c.rank, c.count, c.skip, Len(c.results), c.done)

LposLoops ==
    [kind : {"lpos"}, value : LValues, rank : Int, count : Nat, maxlen : Nat,
     results : Seq(Nat), done : BOOLEAN, skip : Int, at : Int, last : Int]

\* An array is in the store unless it is empty; only a loop has an array to
\* compare with.
ListInv ==
    /\ litems \in Seq(LValues) /\ lold \in Seq(LValues)
    /\ lstored \in BOOLEAN /\ lbumped \in BOOLEAN /\ lsilent \in BOOLEAN
    /\ ~Loop("lrem") => (lstored <=> litems # <<>>)
    /\ lcmd \in {NoLoop} \cup LremLoops \cup LposLoops
    /\ Loop("lrem") => WalkInv(litems, lold, lcmd.value, lcmd.count, lcmd.at, lcmd.removed)
    /\ Loop("lpos") => SearchInv(litems, lcmd)

\* RemovedAt, with the bound written out.
LEMMA RemoveAtFacts ==
    ASSUME NEW S, NEW s \in Seq(S), NEW c \in 1 .. Len(s)
    PROVE  /\ RemoveAt(s, c) \in Seq(S)
           /\ Len(RemoveAt(s, c)) = Len(s) - 1
           /\ \A i \in 1 .. Len(s) - 1 :
                 RemoveAt(s, c)[i] = IF i < c THEN s[i] ELSE s[i + 1]
<1>1. Len(RemoveAt(s, c)) = Len(s) - 1
  BY RemovedAt
<1> QED
  BY <1>1, RemovedAt

\* What is left after a removal is picked from the same list, without the
\* position of what was removed.
LEMMA PicksRemove ==
    ASSUME NEW items \in Seq(LValues), NEW list, NEW P \in SUBSET Int,
           NEW f, Picks(f, items, list, P), NEW c \in 1 .. Len(items)
    PROVE  Picks([i \in 1 .. Len(items) - 1 |-> IF i < c THEN f[i] ELSE f[i + 1]],
                 RemoveAt(items, c), list, P \ {f[c]})
<1> DEFINE n == Len(items)
           g == [i \in 1 .. n - 1 |-> IF i < c THEN f[i] ELSE f[i + 1]]
           up(i) == IF i < c THEN i ELSE i + 1
<1>1. DOMAIN items = 1 .. n /\ n \in Nat /\ c \in Int /\ c >= 1 /\ c <= n
  OBVIOUS
<1>2. /\ \A i \in 1 .. n : f[i] \in P
      /\ \A i, j \in 1 .. n : i < j => f[i] < f[j]
      /\ \A p \in P : \E i \in 1 .. n : f[i] = p
      /\ \A i \in 1 .. n : items[i] = list[f[i]]
  BY <1>1 DEF Picks
<1>3. DOMAIN RemoveAt(items, c) = 1 .. n - 1
  BY <1>1, RemoveAtFacts
<1>4. \A i \in 1 .. n - 1 : RemoveAt(items, c)[i] = items[up(i)]
  BY <1>1, RemoveAtFacts
<1> HIDE DEF n
<1>5. \A i \in 1 .. n - 1 : /\ g[i] = f[up(i)] /\ up(i) \in 1 .. n
                            /\ up(i) < c \/ c < up(i)
  BY <1>1
<1>6. \A i, j \in 1 .. n - 1 : i < j => up(i) < up(j)
  BY <1>1
<1>7. \A i \in 1 .. n : i # c => \E j \in 1 .. n - 1 : up(j) = i
  <2> TAKE i \in 1 .. n
  <2>1. CASE i < c
    BY <1>1, <2>1
  <2>2. CASE i > c
    <3>1. i - 1 \in 1 .. n - 1 /\ up(i - 1) = i
      BY <1>1, <2>2
    <3> QED
      BY <3>1
  <2> QED
    BY <1>1, <2>1, <2>2
<1> HIDE DEF up, g
<1>8. \A i \in 1 .. n - 1 : g[i] \in P \ {f[c]}
  <2> TAKE i \in 1 .. n - 1
  <2>1. g[i] = f[up(i)] /\ up(i) \in 1 .. n /\ (up(i) < c \/ c < up(i))
    BY <1>5
  <2>2. f[up(i)] \in P /\ f[c] \in P /\ (f[up(i)] < f[c] \/ f[c] < f[up(i)])
    BY <1>1, <1>2, <2>1
  <2>3. f[up(i)] \in Int /\ f[c] \in Int
    BY <2>2
  <2>4. f[up(i)] # f[c]
    BY <2>2, <2>3
  <2> QED
    BY <2>1, <2>2, <2>4
<1>9. \A i, j \in 1 .. n - 1 : i < j => g[i] < g[j]
  BY <1>2, <1>5, <1>6
<1>10. \A p \in P \ {f[c]} : \E i \in 1 .. n - 1 : g[i] = p
  <2> TAKE p \in P \ {f[c]}
  <2>1. PICK i \in 1 .. n : f[i] = p
    BY <1>2
  <2>2. PICK j \in 1 .. n - 1 : up(j) = i
    BY <1>7, <2>1
  <2> QED
    BY <1>5, <2>1, <2>2
<1>11. \A i \in 1 .. n - 1 : RemoveAt(items, c)[i] = list[g[i]]
  BY <1>2, <1>4, <1>5
<1>12. g \in [1 .. n - 1 -> P \ {f[c]}]
  BY <1>8 DEF g
<1>13. Picks(g, RemoveAt(items, c), list, P \ {f[c]})
  BY <1>3, <1>9, <1>10, <1>11, <1>12 DEF Picks
<1> QED
  BY <1>13 DEF g, n

\* LREM begins with nothing removed.
LEMMA WalkBegins ==
    ASSUME NEW list \in Seq(LValues), list # <<>>, NEW v, NEW count \in Int
    PROVE  WalkInv(list, list, v, count, IF count > 0 THEN 0 ELSE Len(list) - 1, 0)
<1> DEFINE at == IF count > 0 THEN 0 ELSE Len(list) - 1
           id == [i \in 1 .. Len(list) |-> i]
<1>1. Len(list) \in Nat \ {0} /\ DOMAIN list = 1 .. Len(list)
  BY EmptySeq
<1>2. Walked(list, v, count, at, 0) = {}
  BY <1>1 DEF Walked
<1>3. Left(list, v, count, at, 0) = 1 .. Len(list)
  BY <1>2 DEF Left
<1>4. Cardinality({}) = 0
  BY FS_EmptySet
<1>5. /\ id \in [DOMAIN list -> 1 .. Len(list)]
      /\ Picks(id, list, list, 1 .. Len(list))
      /\ \A i \in DOMAIN list : id[i] = i
  BY <1>1 DEF Picks
<1>6. IF count > 0 THEN at \in 0 .. Len(list) ELSE at \in -1 .. Len(list) - 1
  BY <1>1
<1>7. at \in Int /\ Len(list) + 0 = Len(list)
  BY <1>1
<1>8. count # 0 => 0 <= Abs(count)
  BY DEF Abs
<1>9. \A i \in DOMAIN list : IF count > 0 THEN i > at => id[i] = i + 0
                             ELSE i <= at + 1 => id[i] = i
  BY <1>1, <1>5
<1> HIDE DEF at, id
<1>10. WalkInv(list, list, v, count, at, 0)
  BY <1>2, <1>3, <1>4, <1>5, <1>6, <1>7, <1>8, <1>9 DEF WalkInv
<1> QED
  BY <1>10 DEF at

\* What the walk comes across at its index, and how it goes on from there.
LEMMA WalkedStep ==
    ASSUME NEW items, NEW list, NEW v, NEW count, NEW at, NEW removed,
           WalkInv(items, list, v, count, at, removed), at \in 0 .. Len(items) - 1,
           NEW f \in [DOMAIN items -> Left(list, v, count, at, removed)],
           Picks(f, items, list, Left(list, v, count, at, removed)),
           \A i \in DOMAIN items : IF count > 0 THEN i > at => f[i] = i + removed
                                   ELSE i <= at + 1 => f[i] = i
    PROVE  LET e == f[at + 1]
               W == Walked(list, v, count, at, removed)
           IN  /\ at + 1 \in 1 .. Len(items)
               /\ e \in 1 .. Len(list) /\ e \notin W /\ items[at + 1] = list[e]
               /\ list[e] = v =>
                     Walked(list, v, count, IF count > 0 THEN at ELSE at - 1, removed + 1)
                     = W \cup {e}
               /\ list[e] # v =>
                     Walked(list, v, count, IF count > 0 THEN at + 1 ELSE at - 1, removed)
                     = W
<1> DEFINE e == f[at + 1]
           W == Walked(list, v, count, at, removed)
<1>1. /\ items \in Seq(LValues) /\ list \in Seq(LValues)
      /\ count \in Int /\ at \in Int /\ removed \in Nat
  BY DEF WalkInv
<1>2. at + 1 \in 1 .. Len(items) /\ DOMAIN items = 1 .. Len(items)
  BY <1>1
<1>3. e \in 1 .. Len(list) /\ e \notin W /\ items[at + 1] = list[e]
  BY <1>2 DEF Picks, Left
<1>4. e = IF count > 0 THEN at + 1 + removed ELSE at + 1
  BY <1>1, <1>2
<1>5. \A p \in 1 .. Len(list) :
        IF count > 0 THEN p <= at + (removed + 1) <=> p <= at + removed \/ p = e
        ELSE p > (at - 1) + 1 <=> p > at + 1 \/ p = e
  BY <1>1, <1>4
<1>6. \A p \in 1 .. Len(list) :
        count > 0 => (p <= (at + 1) + removed <=> p <= at + removed \/ p = e)
  BY <1>1, <1>4
<1> HIDE DEF e
<1>7. list[e] = v => Walked(list, v, count, IF count > 0 THEN at ELSE at - 1, removed + 1)
                     = W \cup {e}
  <2> SUFFICES ASSUME list[e] = v
               PROVE  Walked(list, v, count, IF count > 0 THEN at ELSE at - 1, removed + 1)
                      = W \cup {e}
    OBVIOUS
  <2>1. CASE count > 0
    BY <1>3, <1>5, <2>1 DEF Walked
  <2>2. CASE ~(count > 0)
    BY <1>3, <1>5, <2>2 DEF Walked
  <2> QED
    BY <2>1, <2>2
<1>8. list[e] # v => Walked(list, v, count, IF count > 0 THEN at + 1 ELSE at - 1, removed)
                     = W
  <2> SUFFICES ASSUME list[e] # v
               PROVE  Walked(list, v, count, IF count > 0 THEN at + 1 ELSE at - 1, removed)
                      = W
    OBVIOUS
  <2>1. CASE count > 0
    BY <1>6, <2>1 DEF Walked
  <2>2. CASE ~(count > 0)
    BY <1>5, <2>2 DEF Walked
  <2> QED
    BY <2>1, <2>2
<1> QED
  BY <1>2, <1>3, <1>7, <1>8 DEF e

\* LREM removes the occurrence it has come to.
LEMMA WalkRemoves ==
    ASSUME NEW items, NEW list, NEW v, NEW count, NEW at, NEW removed,
           WalkInv(items, list, v, count, at, removed), at \in 0 .. Len(items) - 1,
           count # 0 => removed < Abs(count), items[at + 1] = v
    PROVE  WalkInv(RemoveAt(items, at + 1), list, v, count,
                   IF count > 0 THEN at ELSE at - 1, removed + 1)
<1> DEFINE next == IF count > 0 THEN at ELSE at - 1
           rest == RemoveAt(items, at + 1)
           W == Walked(list, v, count, at, removed)
           P == Left(list, v, count, at, removed)
<1>1. /\ items \in Seq(LValues) /\ list \in Seq(LValues)
      /\ count \in Int /\ at \in Int /\ removed \in Nat
      /\ Len(items) + removed = Len(list) /\ removed = Cardinality(W)
  BY DEF WalkInv
<1>2. PICK f \in [DOMAIN items -> P] :
          /\ Picks(f, items, list, P)
          /\ \A i \in DOMAIN items : IF count > 0 THEN i > at => f[i] = i + removed
                                     ELSE i <= at + 1 => f[i] = i
  BY DEF WalkInv
<1> DEFINE e == f[at + 1]
           g == [i \in 1 .. Len(items) - 1 |-> IF i < at + 1 THEN f[i] ELSE f[i + 1]]
<1>3. /\ at + 1 \in 1 .. Len(items) /\ e \in 1 .. Len(list) /\ e \notin W
      /\ items[at + 1] = list[e]
  BY <1>2, WalkedStep
<1>4. Walked(list, v, count, next, removed + 1) = W \cup {e}
  BY <1>2, <1>3, WalkedStep
<1>5. Cardinality(W \cup {e}) = removed + 1
  <2>1. W \subseteq 1 .. Len(list)
    BY DEF Walked
  <2>2. IsFiniteSet(1 .. Len(list))
    BY <1>1, FS_Interval
  <2> HIDE DEF W
  <2>4. IsFiniteSet(W)
    BY <2>1, <2>2, FS_Subset
  <2>3. Cardinality(W \cup {e}) = Cardinality(W) + 1
    BY <1>3, <2>4, FS_AddElement
  <2> QED
    BY <1>1, <2>3
<1>6. Left(list, v, count, next, removed + 1) = P \ {e}
  BY <1>4 DEF Left
<1>7. Picks(g, rest, list, P \ {e})
  <2>1. P \in SUBSET Int
    BY DEF Left
  <2> QED
    BY <1>1, <1>2, <1>3, <2>1, PicksRemove
<1>8. rest \in Seq(LValues) /\ Len(rest) = Len(items) - 1 /\ DOMAIN rest = 1 .. Len(items) - 1
  BY <1>1, <1>3, RemoveAtFacts
<1>9. g \in [DOMAIN rest -> P \ {e}]
  BY <1>7 DEF Picks
<1>10. \A i \in DOMAIN rest : IF count > 0 THEN i > next => g[i] = i + (removed + 1)
                              ELSE i <= next + 1 => g[i] = i
  <2>1. \A i \in 1 .. Len(items) : IF count > 0 THEN i > at => f[i] = i + removed
                                   ELSE i <= at + 1 => f[i] = i
    BY <1>1, <1>2
  <2>2. ASSUME NEW i \in 1 .. Len(items) - 1
        PROVE  IF count > 0 THEN i > next => g[i] = i + (removed + 1)
               ELSE i <= next + 1 => g[i] = i
    <3>1. g[i] = IF i < at + 1 THEN f[i] ELSE f[i + 1]
      OBVIOUS
    <3>2. i \in 1 .. Len(items) /\ i + 1 \in 1 .. Len(items) /\ i \in Int
      BY <1>1
    <3>3. CASE count > 0
      <4>1. i > at => f[i + 1] = (i + 1) + removed
        BY <1>1, <2>1, <3>2, <3>3
      <4> QED
        BY <1>1, <3>1, <3>2, <3>3, <4>1
    <3>4. CASE ~(count > 0)
      <4>1. i <= at + 1 => f[i] = i
        BY <2>1, <3>2, <3>4
      <4> QED
        BY <1>1, <3>1, <3>2, <3>4, <4>1
    <3> QED
      BY <3>3, <3>4
  <2> QED
    BY <1>8, <2>2
<1>11. IF count > 0 THEN next \in 0 .. Len(rest) ELSE next \in -1 .. Len(rest) - 1
  BY <1>1, <1>8
<1>12. next \in Int /\ removed + 1 \in Nat /\ Len(rest) + (removed + 1) = Len(list)
  <2>1. Len(items) \in Nat /\ Len(rest) = Len(items) - 1
    BY <1>1, <1>8
  <2> HIDE DEF rest
  <2>2. Len(rest) + (removed + 1) = Len(items) + removed
    BY <1>1, <2>1
  <2> QED
    BY <1>1, <2>2
<1>13. count # 0 => removed + 1 <= Abs(count)
  BY <1>1 DEF Abs
<1>14. removed + 1 # 0
  BY <1>1
<1> HIDE DEF next, rest, W, P, e, g
<1>15. WalkInv(rest, list, v, count, next, removed + 1)
  BY <1>1, <1>4, <1>5, <1>6, <1>7, <1>8, <1>9, <1>10, <1>11, <1>12, <1>13, <1>14 DEF WalkInv
<1> QED
  BY <1>15 DEF next, rest

\* LREM passes another element.
LEMMA WalkPasses ==
    ASSUME NEW items, NEW list, NEW v, NEW count, NEW at, NEW removed,
           WalkInv(items, list, v, count, at, removed), at \in 0 .. Len(items) - 1,
           items[at + 1] # v
    PROVE  WalkInv(items, list, v, count, IF count > 0 THEN at + 1 ELSE at - 1, removed)
<1> DEFINE next == IF count > 0 THEN at + 1 ELSE at - 1
           P == Left(list, v, count, at, removed)
<1>1. /\ items \in Seq(LValues) /\ list \in Seq(LValues)
      /\ count \in Int /\ at \in Int /\ removed \in Nat
      /\ Len(items) + removed = Len(list)
      /\ count # 0 => removed <= Abs(count)
      /\ removed = 0 => items = list
      /\ removed = Cardinality(Walked(list, v, count, at, removed))
  BY DEF WalkInv
<1>2. PICK f \in [DOMAIN items -> P] :
          /\ Picks(f, items, list, P)
          /\ \A i \in DOMAIN items : IF count > 0 THEN i > at => f[i] = i + removed
                                     ELSE i <= at + 1 => f[i] = i
  BY DEF WalkInv
<1>3. items[at + 1] = list[f[at + 1]]
  BY <1>2, WalkedStep
<1>4. Walked(list, v, count, next, removed) = Walked(list, v, count, at, removed)
  BY <1>2, <1>3, WalkedStep
<1>5. Left(list, v, count, next, removed) = P
  BY <1>4 DEF Left
<1>6. IF count > 0 THEN next \in 0 .. Len(items) ELSE next \in -1 .. Len(items) - 1
  BY <1>1
<1>7. \A i \in DOMAIN items : IF count > 0 THEN i > next => f[i] = i + removed
                              ELSE i <= next + 1 => f[i] = i
  <2> TAKE i \in DOMAIN items
  <2>1. i \in Int
    BY <1>1
  <2> QED
    BY <1>1, <1>2, <2>1
<1>8. next \in Int
  BY <1>1
<1> HIDE DEF next, P
<1>9. WalkInv(items, list, v, count, next, removed)
  BY <1>1, <1>2, <1>4, <1>5, <1>6, <1>7, <1>8 DEF WalkInv
<1> QED
  BY <1>9 DEF next

\* When LREM stops, it has come across all it was to remove: all there is, or
\* as many as asked for, which are the first on its way.
LEMMA WalkEnds ==
    ASSUME NEW items, NEW list, NEW v, NEW count, NEW at, NEW removed,
           WalkInv(items, list, v, count, at, removed),
           ~(at >= 0 /\ at < Len(items) /\ (count # 0 => removed < Abs(count)))
    PROVE  Walked(list, v, count, at, removed) = ToRemove(list, v, count)
<1> DEFINE hits == {p \in 1 .. Len(list) : list[p] = v}
           nearer(p) == IF count > 0 THEN {q \in hits : q < p}
                        ELSE {q \in hits : q > p}
           W == Walked(list, v, count, at, removed)
           gone == {p \in hits : count # 0 => Cardinality(nearer(p)) < Abs(count)}
<1>1. /\ list \in Seq(LValues) /\ items \in Seq(LValues)
      /\ count \in Int /\ at \in Int /\ removed \in Nat
      /\ Len(items) + removed = Len(list)
      /\ IF count > 0 THEN at \in 0 .. Len(items) ELSE at \in -1 .. Len(items) - 1
      /\ count # 0 => removed <= Abs(count)
      /\ removed = Cardinality(W)
  BY DEF WalkInv
<1>2. W \subseteq hits /\ hits \subseteq 1 .. Len(list)
  BY DEF Walked
<1>3. IsFiniteSet(hits) /\ IsFiniteSet(W)
  <2>1. IsFiniteSet(1 .. Len(list))
    BY <1>1, FS_Interval
  <2>2. IsFiniteSet(hits)
    BY <1>2, <2>1, FS_Subset
  <2> QED
    BY <1>2, <2>2, FS_Subset
<1>4. W = hits \/ (count # 0 /\ removed = Abs(count))
  <2>1. CASE count # 0 /\ ~(removed < Abs(count))
    BY <1>1, <2>1 DEF Abs
  <2>2. CASE ~(at >= 0 /\ at < Len(items))
    <3>1. \A p \in 1 .. Len(list) : IF count > 0 THEN p <= at + removed ELSE p > at + 1
      BY <1>1, <2>2
    <3> QED
      BY <3>1 DEF Walked
  <2> QED
    BY <2>1, <2>2
<1>5. ASSUME NEW p \in W, count # 0
      PROVE  Cardinality(nearer(p)) < Abs(count)
  <2>1. p \in 1 .. Len(list) /\ \A q \in hits : q \in Int
    BY <1>1, <1>2
  <2>2. nearer(p) \subseteq W \ {p}
    <3>1. p \in Int /\ IF count > 0 THEN p <= at + removed ELSE p > at + 1
      BY <2>1 DEF Walked
    <3>2. CASE count > 0
      <4>1. \A q \in hits : q < p => q <= at + removed /\ q # p
        BY <1>1, <2>1, <3>1, <3>2
      <4>2. \A q \in hits : q <= at + removed => q \in W
        BY <3>2 DEF Walked
      <4> QED
        BY <3>2, <4>1, <4>2
    <3>3. CASE ~(count > 0)
      <4>1. \A q \in hits : q > p => q > at + 1 /\ q # p
        BY <1>1, <2>1, <3>1, <3>3
      <4>2. \A q \in hits : q > at + 1 => q \in W
        BY <3>3 DEF Walked
      <4> QED
        BY <3>3, <4>1, <4>2
    <3> QED
      BY <3>2, <3>3
  <2>3. /\ IsFiniteSet(W \ {p})
        /\ Cardinality(W \ {p}) = removed - 1
    BY <1>1, <1>3, FS_RemoveElement
  <2>4. Cardinality(nearer(p)) <= removed - 1
    BY <2>2, <2>3, FS_Subset
  <2>5. Cardinality(nearer(p)) \in Nat
    BY <2>2, <2>3, FS_Subset, FS_CardinalityType
  <2> QED
    BY <1>1, <1>5, <2>4, <2>5 DEF Abs
<1>6. ASSUME NEW p \in hits \ W, count # 0, removed = Abs(count)
      PROVE  ~(Cardinality(nearer(p)) < Abs(count))
  <2>1. p \in 1 .. Len(list) /\ \A q \in hits : q \in Int
    BY <1>1, <1>2
  <2>2. W \subseteq nearer(p) /\ nearer(p) \subseteq hits
    <3>1. p \in Int /\ ~(IF count > 0 THEN p <= at + removed ELSE p > at + 1)
      BY <2>1 DEF Walked
    <3>2. \A q \in W : q \in hits /\ (IF count > 0 THEN q <= at + removed ELSE q > at + 1)
      BY DEF Walked
    <3> HIDE DEF W
    <3>3. CASE count > 0
      <4>1. \A q \in W : q \in hits /\ q < p
        BY <1>1, <2>1, <3>1, <3>2, <3>3
      <4> QED
        BY <3>3, <4>1
    <3>4. CASE ~(count > 0)
      <4>1. \A q \in W : q \in hits /\ q > p
        BY <1>1, <2>1, <3>1, <3>2, <3>4
      <4> QED
        BY <3>4, <4>1
    <3> QED
      BY <3>3, <3>4
  <2>3. IsFiniteSet(nearer(p))
    BY <1>3, <2>2, FS_Subset
  <2>4. removed <= Cardinality(nearer(p)) /\ Cardinality(nearer(p)) \in Nat
    BY <1>1, <2>2, <2>3, FS_Subset, FS_CardinalityType
  <2> QED
    BY <1>1, <1>6, <2>4
<1> HIDE DEF nearer, W, hits
<1>7. \A p \in hits : p \in W <=> (count # 0 => Cardinality(nearer(p)) < Abs(count))
  BY <1>4, <1>5, <1>6
<1>8. W = gone
  BY <1>2, <1>7
<1> QED
  BY <1>8 DEF ToRemove, nearer, W, hits

\* The smaller and the larger of two integers.
LEMMA MinMaxOfTwo ==
    ASSUME NEW a \in Int, NEW b \in Int
    PROVE  /\ Min({a, b}) = IF a <= b THEN a ELSE b
           /\ Max({a, b}) = IF a >= b THEN a ELSE b
<1>1. \E m \in {a, b} : \A y \in {a, b} : m <= y
  OBVIOUS
<1>2. Min({a, b}) \in {a, b} /\ \A y \in {a, b} : Min({a, b}) <= y
  BY <1>1 DEF Min
<1>3. \E m \in {a, b} : \A y \in {a, b} : m >= y
  OBVIOUS
<1>4. Max({a, b}) \in {a, b} /\ \A y \in {a, b} : Max({a, b}) >= y
  BY <1>3 DEF Max
<1> QED
  BY <1>2, <1>4

\* Matches can be counted.
LEMMA MatchesFinite ==
    ASSUME NEW items \in Seq(LValues), NEW v, NEW rank, NEW d
    PROVE  /\ IsFiniteSet(Matches(items, v, rank, d))
           /\ Cardinality(Matches(items, v, rank, d)) \in Nat
<1>1. Matches(items, v, rank, d) \subseteq 0 .. Len(items) - 1
  BY DEF Matches
<1>2. IsFiniteSet(0 .. Len(items) - 1)
  BY FS_Interval
<1> QED
  BY <1>1, <1>2, FS_Subset, FS_CardinalityType

\* The matches up to a position are those before it and the position itself.
LEMMA MatchesStep ==
    ASSUME NEW items \in Seq(LValues), NEW v, NEW rank \in Int,
           NEW at \in 0 .. Len(items) - 1
    PROVE  LET d == Depth(items, rank, at)
               M == Matches(items, v, rank, d)
               N == Matches(items, v, rank, d + 1)
           IN  /\ at \notin M
               /\ items[at + 1] = v => /\ N = M \cup {at}
                                       /\ Cardinality(N) = Cardinality(M) + 1
               /\ items[at + 1] # v => N = M
<1> DEFINE d == Depth(items, rank, at)
           M == Matches(items, v, rank, d)
           N == Matches(items, v, rank, d + 1)
<1>1. Len(items) \in Nat /\ d \in Int
  BY DEF Depth
<1>2. \A p \in 0 .. Len(items) - 1 : /\ Depth(items, rank, p) \in Int
                                     /\ Depth(items, rank, p) = d <=> p = at
  BY <1>1 DEF Depth
<1> HIDE DEF d
<1>3. \A p \in 0 .. Len(items) - 1 :
        Depth(items, rank, p) < d + 1 <=> Depth(items, rank, p) < d \/ p = at
  BY <1>1, <1>2
<1>4. at \notin M
  BY <1>1, <1>2 DEF Matches
<1>5. items[at + 1] = v => N = M \cup {at}
  BY <1>3 DEF Matches
<1>6. items[at + 1] # v => N = M
  BY <1>3 DEF Matches
<1> HIDE DEF M, N
<1>7. items[at + 1] = v => Cardinality(N) = Cardinality(M) + 1
  <2>1. IsFiniteSet(M)
    BY MatchesFinite DEF M
  <2> QED
    BY <1>4, <1>5, <2>1, FS_AddElement
<1> QED
  BY <1>4, <1>5, <1>6, <1>7 DEF d, M, N

\* LPOS has still to go on as long as it is neither done nor at its limit.
LEMMA SearchIndex ==
    ASSUME NEW items \in Seq(LValues), NEW c \in LposLoops, SearchInv(items, c)
    PROVE  /\ Limit(items, c.maxlen) \in 0 .. Len(items)
           /\ (IF c.rank > 0 THEN c.at <= c.last ELSE c.at >= c.last)
              <=> Depth(items, c.rank, c.at) < Limit(items, c.maxlen)
           /\ Depth(items, c.rank, c.at) < Limit(items, c.maxlen)
              => c.at \in 0 .. Len(items) - 1
<1>1. c.at \in Int /\ c.last \in Int /\ c.maxlen \in Nat /\ Len(items) \in Nat
  BY DEF LposLoops
<1>2. Limit(items, c.maxlen) \in 0 .. Len(items)
  BY <1>1 DEF Limit
<1>3. /\ Depth(items, c.rank, c.at) \in 0 .. Limit(items, c.maxlen)
      /\ c.last = IF c.rank > 0 THEN Limit(items, c.maxlen) - 1
                  ELSE Len(items) - Limit(items, c.maxlen)
  BY DEF SearchInv
<1> QED
  BY <1>1, <1>2, <1>3 DEF Depth

\* LPOS begins with no result and all matches ahead.
LEMMA SearchBegins ==
    ASSUME NEW items \in Seq(LValues), NEW v \in LValues, NEW rank \in Int,
           NEW count \in Nat, NEW maxlen \in Nat
    PROVE  LET limit == IF maxlen > 0 THEN Min({maxlen, Len(items)}) ELSE Len(items)
               c == [kind |-> "lpos", value |-> v, rank |-> rank, count |-> count,
                     maxlen |-> maxlen, results |-> <<>>, done |-> FALSE,
                     skip |-> Abs(rank) - 1,
                     at |-> IF rank > 0 THEN 0 ELSE Len(items) - 1,
                     last |-> IF rank > 0 THEN limit - 1 ELSE Len(items) - limit]
           IN  c \in LposLoops /\ SearchInv(items, c)
<1> DEFINE limit == IF maxlen > 0 THEN Min({maxlen, Len(items)}) ELSE Len(items)
           at == IF rank > 0 THEN 0 ELSE Len(items) - 1
           last == IF rank > 0 THEN limit - 1 ELSE Len(items) - limit
           skip == Abs(rank) - 1
           c == [kind |-> "lpos", value |-> v, rank |-> rank, count |-> count,
                 maxlen |-> maxlen, results |-> <<>>, done |-> FALSE,
                 skip |-> skip, at |-> at, last |-> last]
<1>1. Len(items) \in Nat
  OBVIOUS
<1>2. limit = Limit(items, maxlen) /\ limit \in 0 .. Len(items)
  BY <1>1, MinMaxOfTwo DEF Limit
<1> HIDE DEF limit
<1>3. at \in Int /\ last \in Int /\ skip \in Int /\ Abs(rank) \in Nat
  BY <1>1, <1>2 DEF Abs
<1>4. Depth(items, rank, at) = 0
  BY <1>1 DEF Depth
<1>5. Matches(items, v, rank, 0) = {}
  BY <1>1 DEF Matches, Depth
<1>6. Cardinality({}) = 0
  BY FS_EmptySet
<1>7. Counted(0, rank, count, skip, 0, FALSE)
  BY DEF Counted, FirstWanted, Abs
<1>8. last = IF rank > 0 THEN Limit(items, maxlen) - 1 ELSE Len(items) - Limit(items, maxlen)
  BY <1>2
<1> HIDE DEF at, last, skip
<1>9. <<>> \in Seq(Nat) /\ Len(<<>>) = 0 /\ Found(items, v, rank, 0, <<>>)
  BY <1>1, <1>5, EmptySeq DEF Found
<1>10. /\ c.kind = "lpos" /\ c.value = v /\ c.rank = rank /\ c.count = count
       /\ c.maxlen = maxlen /\ c.results = <<>> /\ c.done = FALSE
       /\ c.skip = skip /\ c.at = at /\ c.last = last
  OBVIOUS
<1>11. c \in LposLoops
  BY <1>3, <1>9 DEF LposLoops
<1> HIDE DEF c
<1>12. 0 \in 0 .. Limit(items, maxlen)
  BY <1>1, <1>2
<1>14. SearchInv(items, c)
  BY <1>4, <1>5, <1>6, <1>7, <1>8, <1>9, <1>10, <1>12 DEF SearchInv
<1> QED
  BY <1>11, <1>14 DEF c, skip, at, last, limit

\* A match that is not skipped is the next result; the others lie before it.
LEMMA FoundGrows ==
    ASSUME NEW items \in Seq(LValues), NEW v, NEW rank \in Int,
           NEW at \in 0 .. Len(items) - 1, items[at + 1] = v, NEW results,
           Found(items, v, rank, Depth(items, rank, at), results),
           FirstWanted(rank)
           <= Cardinality(Matches(items, v, rank, Depth(items, rank, at))) + 1
    PROVE  Found(items, v, rank, Depth(items, rank, at) + 1, Append(results, at))
<1> DEFINE d == Depth(items, rank, at)
           M == Matches(items, v, rank, d)
           N == Matches(items, v, rank, d + 1)
           n == Len(results)
           longer == Append(results, at)
<1>1. /\ results \in Seq(0 .. Len(items) - 1)
      /\ \A i, j \in 1 .. n :
            i < j => Depth(items, rank, results[i]) < Depth(items, rank, results[j])
      /\ \A p \in 0 .. Len(items) - 1 :
            (\E i \in 1 .. n : results[i] = p)
            <=> /\ p \in M
                /\ FirstWanted(rank)
                   <= Cardinality(Matches(items, v, rank, Depth(items, rank, p) + 1))
  BY DEF Found
<1>2. /\ at \notin M /\ N = M \cup {at}
      /\ Cardinality(N) = Cardinality(M) + 1
  BY MatchesStep
<1>3. n \in Nat /\ Len(items) \in Nat /\ at \in Int
  BY <1>1
<1>4. /\ longer \in Seq(0 .. Len(items) - 1) /\ Len(longer) = n + 1
      /\ \A i \in 1 .. n : longer[i] = results[i]
      /\ longer[n + 1] = at
  BY <1>1
<1>5. \A i \in 1 .. n : Depth(items, rank, results[i]) < d
  <2> TAKE i \in 1 .. n
  <2>1. results[i] \in 0 .. Len(items) - 1
    BY <1>1
  <2>2. results[i] \in M
    BY <1>1, <2>1
  <2> QED
    BY <2>2 DEF Matches
<1> HIDE DEF d, n, longer, M, N
<1>6. \A i, j \in 1 .. n + 1 :
        i < j => Depth(items, rank, longer[i]) < Depth(items, rank, longer[j])
  <2> SUFFICES ASSUME NEW i \in 1 .. n + 1, NEW j \in 1 .. n + 1, i < j
               PROVE  Depth(items, rank, longer[i]) < Depth(items, rank, longer[j])
    OBVIOUS
  <2>1. i \in 1 .. n /\ longer[i] = results[i]
    BY <1>3, <1>4
  <2>2. CASE j \in 1 .. n
    BY <1>1, <1>4, <2>1, <2>2 DEF n
  <2>3. CASE j = n + 1
    BY <1>4, <1>5, <2>1, <2>3 DEF d
  <2> QED
    BY <1>3, <2>2, <2>3
<1>7. \A p \in 0 .. Len(items) - 1 :
        (\E i \in 1 .. n + 1 : longer[i] = p)
        <=> /\ p \in N
            /\ FirstWanted(rank)
               <= Cardinality(Matches(items, v, rank, Depth(items, rank, p) + 1))
  <2> TAKE p \in 0 .. Len(items) - 1
  <2>1. (\E i \in 1 .. n + 1 : longer[i] = p)
        <=> p = at \/ \E i \in 1 .. n : results[i] = p
    BY <1>3, <1>4
  <2>2. CASE p = at
    BY <1>2, <2>1, <2>2 DEF M, N, d
  <2>3. CASE p # at
    BY <1>1, <1>2, <2>1, <2>3 DEF M, n
  <2> QED
    BY <2>2, <2>3
<1> QED
  BY <1>4, <1>6, <1>7 DEF Found, d, longer, N

\* What is no match, and a match that is skipped, changes no result.
LEMMA FoundStays ==
    ASSUME NEW items \in Seq(LValues), NEW v, NEW rank \in Int,
           NEW at \in 0 .. Len(items) - 1, NEW results,
           Found(items, v, rank, Depth(items, rank, at), results),
           items[at + 1] = v =>
              ~(FirstWanted(rank)
                <= Cardinality(Matches(items, v, rank, Depth(items, rank, at))) + 1)
    PROVE  Found(items, v, rank, Depth(items, rank, at) + 1, results)
<1> DEFINE d == Depth(items, rank, at)
           M == Matches(items, v, rank, d)
           N == Matches(items, v, rank, d + 1)
<1>1. CASE items[at + 1] # v
  <2>1. N = M
    BY <1>1, MatchesStep
  <2> QED
    BY <2>1 DEF Found
<1>2. CASE items[at + 1] = v
  <2>1. /\ at \notin M /\ N = M \cup {at}
        /\ Cardinality(N) = Cardinality(M) + 1
    BY <1>2, MatchesStep
  <2>2. ~(FirstWanted(rank)
          <= Cardinality(Matches(items, v, rank, Depth(items, rank, at) + 1)))
    BY <1>2, <2>1
  <2>3. \A p \in 0 .. Len(items) - 1 :
          /\ p \in N
          /\ FirstWanted(rank)
             <= Cardinality(Matches(items, v, rank, Depth(items, rank, p) + 1))
          <=>
          /\ p \in M
          /\ FirstWanted(rank)
             <= Cardinality(Matches(items, v, rank, Depth(items, rank, p) + 1))
    BY <2>1, <2>2
  <2> HIDE DEF M, N
  <2>4. Found(items, v, rank, d + 1, results)
    BY <2>3 DEF Found, M, N
  <2> QED
    BY <2>4
<1> QED
  BY <1>1, <1>2

\* One round of the loop of LPOS.
LEMMA SearchRound ==
    ASSUME NEW items \in Seq(LValues), NEW c \in LposLoops, SearchInv(items, c),
           ~c.done, IF c.rank > 0 THEN c.at <= c.last ELSE c.at >= c.last
    PROVE  LET hit == items[c.at + 1] = c.value /\ c.skip <= 0
               found == IF hit THEN Append(c.results, c.at) ELSE c.results
               next == [c EXCEPT
                         !.skip = IF items[c.at + 1] = c.value /\ @ > 0
                                  THEN @ - 1 ELSE @,
                         !.results = found,
                         !.done = hit /\ c.count # 0 /\ Len(found) >= c.count,
                         !.at = IF c.rank > 0 THEN @ + 1 ELSE @ - 1]
           IN  next \in LposLoops /\ SearchInv(items, next)
<1> DEFINE match == items[c.at + 1] = c.value
           hit == match /\ c.skip <= 0
           found == IF hit THEN Append(c.results, c.at) ELSE c.results
           skip == IF match /\ c.skip > 0 THEN c.skip - 1 ELSE c.skip
           done == hit /\ c.count # 0 /\ Len(found) >= c.count
           at == IF c.rank > 0 THEN c.at + 1 ELSE c.at - 1
           next == [c EXCEPT !.skip = skip, !.results = found, !.done = done, !.at = at]
           d == Depth(items, c.rank, c.at)
           limit == Limit(items, c.maxlen)
           seen == Cardinality(Matches(items, c.value, c.rank, d))
           after == Cardinality(Matches(items, c.value, c.rank, d + 1))
<1>1. /\ c.value \in LValues /\ c.rank \in Int /\ c.count \in Nat /\ c.maxlen \in Nat
      /\ c.results \in Seq(Nat) /\ c.skip \in Int /\ c.at \in Int /\ c.last \in Int
      /\ Len(items) \in Nat /\ Len(c.results) \in Nat
  BY DEF LposLoops
<1>2. /\ d \in 0 .. limit
      /\ c.last = IF c.rank > 0 THEN limit - 1 ELSE Len(items) - limit
      /\ Found(items, c.value, c.rank, d, c.results)
      /\ Counted(seen, c.rank, c.count, c.skip, Len(c.results), c.done)
  BY DEF SearchInv
<1>3. d < limit /\ c.at \in 0 .. Len(items) - 1 /\ limit \in 0 .. Len(items)
  BY SearchIndex
<1>4. Depth(items, c.rank, at) = d + 1 /\ at \in Int
  <2>1. CASE c.rank > 0
    BY <1>1, <2>1 DEF Depth
  <2>2. CASE ~(c.rank > 0)
    <3>1. at = c.at - 1 /\ d = Len(items) - 1 - c.at
      BY <2>2 DEF Depth
    <3>2. Depth(items, c.rank, at) = Len(items) - 1 - at
      BY <2>2 DEF Depth
    <3> HIDE DEF at, d
    <3> QED
      BY <1>1, <3>1, <3>2
  <2> QED
    BY <2>1, <2>2
<1>5. d + 1 \in 0 .. limit
  BY <1>2, <1>3
<1>6. /\ seen \in Nat
      /\ match => after = seen + 1
      /\ ~match => after = seen
  <2>1. seen \in Nat
    BY MatchesFinite
  <2>2. match => after = seen + 1
    BY <1>1, <1>3, MatchesStep
  <2>3. ~match => Matches(items, c.value, c.rank, d + 1) = Matches(items, c.value, c.rank, d)
    BY <1>1, <1>3, MatchesStep
  <2>4. ~match => after = seen
    BY <2>3
  <2> QED
    BY <2>1, <2>2, <2>4
<1>7. FirstWanted(c.rank) \in Nat \ {0} /\ (c.rank = 0 => FirstWanted(c.rank) = 1)
  BY <1>1 DEF FirstWanted, Abs
<1> HIDE DEF seen, after
<1>8. match => (c.skip <= 0 <=> FirstWanted(c.rank) <= seen + 1)
  BY <1>1, <1>2, <1>6, <1>7 DEF Counted
<1> HIDE DEF d, match, limit
<1>9. Found(items, c.value, c.rank, d + 1, found)
  <2>1. CASE hit
    BY <1>1, <1>2, <1>3, <1>8, <2>1, FoundGrows DEF d, match, seen
  <2>2. CASE ~hit
    BY <1>1, <1>2, <1>3, <1>8, <2>2, FoundStays DEF d, match, seen
  <2> QED
    BY <2>1, <2>2
<1>10. /\ Len(found) = IF hit THEN Len(c.results) + 1 ELSE Len(c.results)
       /\ found \in Seq(Nat)
  BY <1>1, <1>3
<1>11. Counted(after, c.rank, c.count, skip, Len(found), done)
  <2> HIDE DEF found
  <2>1. ~(c.count # 0 /\ Len(c.results) >= c.count)
    BY <1>2 DEF Counted
  <2>2. c.count # 0 => Len(found) <= c.count
    BY <1>1, <1>10, <2>1
  <2>3. done <=> c.count # 0 /\ Len(found) >= c.count
    BY <1>10, <2>1
  <2>4. skip = IF c.rank = 0 THEN -1
               ELSE IF after < FirstWanted(c.rank) THEN FirstWanted(c.rank) - 1 - after ELSE 0
    BY <1>1, <1>2, <1>6, <1>7 DEF Counted
  <2>5. Len(found) = IF after < FirstWanted(c.rank) THEN 0
                     ELSE after - (FirstWanted(c.rank) - 1)
    BY <1>1, <1>2, <1>6, <1>7, <1>8, <1>10 DEF Counted
  <2> QED
    BY <2>2, <2>3, <2>4, <2>5 DEF Counted
<1>12. skip \in Int /\ done \in BOOLEAN
  BY <1>1
<1> HIDE DEF skip, found, done, at, hit
<1>13. /\ next.kind = c.kind /\ next.value = c.value /\ next.rank = c.rank
       /\ next.count = c.count /\ next.maxlen = c.maxlen /\ next.last = c.last
       /\ next.skip = skip /\ next.results = found /\ next.done = done /\ next.at = at
       /\ next \in LposLoops
  BY <1>4, <1>10, <1>12 DEF LposLoops
<1> HIDE DEF next
<1>14. SearchInv(items, next)
  BY <1>2, <1>4, <1>5, <1>9, <1>11, <1>13 DEF SearchInv, limit, after
<1> QED
  BY <1>13, <1>14 DEF next, skip, found, done, at, hit, match

\* When LPOS stops, the results are what it was asked for.
LEMMA SearchEnds ==
    ASSUME NEW items \in Seq(LValues), NEW c \in LposLoops, SearchInv(items, c),
           c.done \/ ~(IF c.rank > 0 THEN c.at <= c.last ELSE c.at >= c.last)
    PROVE  LET hits == {p \in 0 .. Len(items) - 1 :
                          /\ items[p + 1] = c.value
                          /\ c.maxlen > 0 => Depth(items, c.rank, p) < c.maxlen}
               nth(p) == Cardinality({q \in hits : Depth(items, c.rank, q)
                                                   <= Depth(items, c.rank, p)})
               first == Max({1, Abs(c.rank)})
           IN  Range(c.results) = {p \in hits :
                                     /\ nth(p) >= first
                                     /\ c.count # 0 => nth(p) < first + c.count}
<1> DEFINE hits == {p \in 0 .. Len(items) - 1 :
                      /\ items[p + 1] = c.value
                      /\ c.maxlen > 0 => Depth(items, c.rank, p) < c.maxlen}
           depth(p) == Depth(items, c.rank, p)
           nth(p) == Cardinality({q \in hits : depth(q) <= depth(p)})
           first == FirstWanted(c.rank)
           M(k) == Matches(items, c.value, c.rank, k)
           d == depth(c.at)
           limit == Limit(items, c.maxlen)
           seen == Cardinality(M(d))
           wanted == {p \in hits : /\ nth(p) >= first
                                   /\ c.count # 0 => nth(p) < first + c.count}
<1>1. /\ c.rank \in Int /\ c.count \in Nat /\ c.maxlen \in Nat
      /\ Len(items) \in Nat /\ Len(c.results) \in Nat
  BY DEF LposLoops
<1>2. /\ d \in 0 .. limit
      /\ Found(items, c.value, c.rank, d, c.results)
      /\ Counted(seen, c.rank, c.count, c.skip, Len(c.results), c.done)
  BY DEF SearchInv
<1>3. limit \in 0 .. Len(items) /\ (c.done \/ d = limit)
  BY <1>2, SearchIndex
<1>4. first = Max({1, Abs(c.rank)}) /\ first \in Nat \ {0}
  <2>1. Abs(c.rank) \in Nat /\ (c.rank = 0 <=> Abs(c.rank) = 0)
    BY <1>1 DEF Abs
  <2> DEFINE m == Abs(c.rank)
  <2>2. Max({1, m}) = IF 1 >= m THEN 1 ELSE m
    <3>1. m \in Int /\ 1 \in Int
      BY <2>1
    <3> HIDE DEF m
    <3> QED
      BY <3>1, MinMaxOfTwo
  <2> QED
    BY <2>1, <2>2 DEF FirstWanted
<1>5. \A p \in 0 .. Len(items) - 1 :
        /\ depth(p) \in 0 .. Len(items) - 1
        /\ (c.maxlen > 0 => depth(p) < c.maxlen) <=> depth(p) < limit
  BY <1>1 DEF Depth, Limit
<1> HIDE DEF limit, first, depth
<1>6. hits = M(limit)
  BY <1>5 DEF Matches, depth
<1>7. \A p \in hits : /\ p \in 0 .. Len(items) - 1 /\ depth(p) \in Nat
                      /\ depth(p) < limit /\ items[p + 1] = c.value
  BY <1>3, <1>5 DEF depth
<1>8. \A p \in hits : nth(p) = Cardinality(M(depth(p) + 1))
  <2> TAKE p \in hits
  <2>1. {q \in hits : depth(q) <= depth(p)} = M(depth(p) + 1)
    BY <1>3, <1>5, <1>7 DEF Matches, depth
  <2> QED
    BY <2>1
<1>9. M(d) \subseteq hits
  BY <1>2, <1>3, <1>5, <1>6 DEF Matches, depth
<1>10. \A k : IsFiniteSet(M(k)) /\ Cardinality(M(k)) \in Nat
  BY MatchesFinite
<1>11. ASSUME NEW p \in M(d)
       PROVE  Cardinality(M(depth(p) + 1)) <= seen
  <2>1. M(depth(p) + 1) \subseteq M(d)
    BY <1>2, <1>5, <1>11 DEF Matches, depth
  <2> QED
    BY <1>10, <2>1, FS_Subset
<1>12. ASSUME NEW p \in hits \ M(d)
       PROVE  seen + 1 <= Cardinality(M(depth(p) + 1))
  <2>1. M(d) \cup {p} \subseteq M(depth(p) + 1)
    <3>1. /\ p \in 0 .. Len(items) - 1 /\ depth(p) \in Nat
          /\ items[p + 1] = c.value
      BY <1>7
    <3>2. p \in M(depth(p) + 1)
      BY <3>1 DEF Matches, depth
    <3>3. d <= depth(p)
      BY <1>2, <3>1 DEF Matches, depth
    <3>4. \A q \in M(d) : q \in M(depth(p) + 1)
      <4> TAKE q \in M(d)
      <4>1. /\ q \in 0 .. Len(items) - 1 /\ items[q + 1] = c.value /\ depth(q) < d
        BY DEF Matches, depth
      <4>2. depth(q) < depth(p) + 1
        BY <1>2, <1>5, <3>1, <3>3, <4>1
      <4> QED
        BY <4>1, <4>2 DEF Matches, depth
    <3> QED
      BY <3>2, <3>4
  <2>2. Cardinality(M(d) \cup {p}) = seen + 1
    BY <1>10, FS_AddElement
  <2> QED
    BY <1>10, <2>1, <2>2, FS_Subset
<1>13. \A p \in 0 .. Len(items) - 1 :
         p \in Range(c.results) <=> p \in M(d) /\ first <= Cardinality(M(depth(p) + 1))
  <2>1. \A p \in 0 .. Len(items) - 1 :
          (\E i \in 1 .. Len(c.results) : c.results[i] = p)
             <=> p \in M(d) /\ first <= Cardinality(M(depth(p) + 1))
    BY <1>2 DEF Found, first, depth
  <2>2. \A p : p \in Range(c.results) <=> \E i \in 1 .. Len(c.results) : c.results[i] = p
    <3>1. DOMAIN c.results = 1 .. Len(c.results)
      BY <1>2 DEF Found
    <3> QED
      BY <3>1 DEF Range
  <2> HIDE DEF M, first, depth, d
  <2> QED
    BY <2>1, <2>2
<1>14. Range(c.results) \subseteq 0 .. Len(items) - 1
  BY <1>2 DEF Found, Range
<1> HIDE DEF hits, M
<1>15. ASSUME NEW p \in hits
       PROVE  nth(p) >= first /\ (c.count # 0 => nth(p) < first + c.count)
              <=> p \in M(d) /\ first <= Cardinality(M(depth(p) + 1))
  <2> DEFINE k == Cardinality(M(depth(p) + 1))
  <2>1. nth(p) = k /\ k \in Nat /\ seen \in Nat
    BY <1>8, <1>10
  <2>2. p \in M(d) => k <= seen
    BY <1>11
  <2>3. p \notin M(d) => seen + 1 <= k
    BY <1>12
  <2>4. p \in M(d) \/ c.done
    BY <1>3, <1>6
  <2>5. /\ Len(c.results) = IF seen < first THEN 0 ELSE seen - (first - 1)
        /\ c.count # 0 => Len(c.results) <= c.count
        /\ c.done <=> c.count # 0 /\ Len(c.results) >= c.count
    BY <1>2 DEF Counted, first
  <2> HIDE DEF k, seen, nth
  <2>6. CASE p \in M(d)
    BY <1>1, <1>4, <2>1, <2>2, <2>5, <2>6 DEF k
  <2>7. CASE p \notin M(d)
    <3>1. c.count # 0 /\ Len(c.results) >= c.count /\ seen + 1 <= k
      BY <2>3, <2>4, <2>5, <2>7
    <3>2. ~(nth(p) < first + c.count)
      BY <1>1, <1>4, <2>1, <2>5, <3>1
    <3> QED
      BY <2>7, <3>1, <3>2
  <2> QED
    BY <2>6, <2>7
<1>16. hits \subseteq 0 .. Len(items) - 1
  BY <1>7
<1> HIDE DEF nth, seen, d
<1>17. Range(c.results) = wanted
  BY <1>9, <1>13, <1>14, <1>15, <1>16
<1> QED
  BY <1>4, <1>17 DEF hits, nth, depth

\* A record of a loop is told from NoLoop by its kind.
LEMMA LoopKinds ==
    /\ NoLoop.kind = "none"
    /\ \A c \in LremLoops : c.kind = "lrem" /\ c # NoLoop
    /\ \A c \in LposLoops : c.kind = "lpos" /\ c # NoLoop
  BY DEF NoLoop, LremLoops, LposLoops

\* Without a loop, the array alone has to be as it should.
LEMMA FreeInv ==
    ASSUME litems' \in Seq(LValues), lold' \in Seq(LValues), lstored' \in BOOLEAN,
           lbumped' \in BOOLEAN, lsilent' \in BOOLEAN, lcmd' = NoLoop,
           lstored' <=> litems' # <<>>
    PROVE  ListInv'
  BY LoopKinds DEF ListInv, Free, Loop

\* A push leaves elements in the store, or, refused, what was there.
LEMMA PushKeeps ==
    ASSUME ListInv, NEW left \in BOOLEAN, NEW values \in Seq(LValues), values # <<>>,
           Push(left, values)
    PROVE  ListInv'
<1> DEFINE items == IF left THEN Reverse(values) \o litems ELSE litems \o values
<1>1. /\ litems \in Seq(LValues) /\ lold \in Seq(LValues) /\ lstored \in BOOLEAN
      /\ lcmd = NoLoop /\ (lstored <=> litems # <<>>)
  BY LoopKinds DEF ListInv, Push, Free, Loop
<1>2. Len(values) \in Nat \ {0} /\ Len(litems) \in Nat
  BY <1>1, EmptySeq
<1>3. Reverse(values) \in Seq(LValues) /\ Len(Reverse(values)) = Len(values)
  BY <1>2 DEF Reverse
<1>4. items \in Seq(LValues) /\ Len(items) = Len(values) + Len(litems)
  <2>1. CASE left
    <3>1. items = Reverse(values) \o litems
      BY <2>1
    <3>2. /\ Reverse(values) \o litems \in Seq(LValues)
          /\ Len(Reverse(values) \o litems) = Len(Reverse(values)) + Len(litems)
      BY <1>1, <1>3, ConcatProperties
    <3> HIDE DEF items
    <3> QED
      BY <1>3, <3>1, <3>2
  <2>2. CASE ~left
    <3>1. items = litems \o values
      BY <2>2
    <3>2. /\ litems \o values \in Seq(LValues)
          /\ Len(litems \o values) = Len(litems) + Len(values)
      BY <1>1, ConcatProperties
    <3> HIDE DEF items
    <3> QED
      BY <1>2, <3>1, <3>2
  <2> QED
    BY <2>1, <2>2
<1>5. items # <<>>
  BY <1>2, <1>4, EmptySeq
<1>6. /\ lcmd' = NoLoop /\ lold' = lold
      /\ lbumped' \in BOOLEAN /\ lsilent' \in BOOLEAN
      /\ \/ litems' = items /\ lstored' = TRUE
         \/ litems' = (IF lstored THEN items ELSE <<>>) /\ lstored' = lstored
  BY <1>1 DEF Push
<1> HIDE DEF items
<1>7. /\ litems' \in Seq(LValues) /\ lstored' \in BOOLEAN
      /\ lstored' <=> litems' # <<>>
  <2>1. <<>> \in Seq(LValues)
    BY EmptySeq
  <2>2. CASE litems' = items /\ lstored' = TRUE
    BY <1>4, <1>5, <2>2
  <2>3. CASE litems' = (IF lstored THEN items ELSE <<>>) /\ lstored' = lstored
    <3>1. CASE lstored
      BY <1>4, <1>5, <2>3, <3>1
    <3>2. CASE ~lstored
      BY <1>1, <2>1, <2>3, <3>2
    <3> QED
      BY <3>1, <3>2
  <2> QED
    BY <1>6, <2>2, <2>3
<1> QED
  BY <1>1, <1>6, <1>7, FreeInv

\* A pop leaves a part of the array, and deletes it when that is empty.
LEMMA PopKeeps ==
    ASSUME ListInv, NEW left \in BOOLEAN, NEW count \in Nat, Pop(left, count)
    PROVE  ListInv'
<1> DEFINE n == Min({count, Len(litems)})
           items == IF left THEN SubSeq(litems, n + 1, Len(litems))
                    ELSE SubSeq(litems, 1, Len(litems) - n)
<1>1. litems \in Seq(LValues) /\ lold \in Seq(LValues) /\ lcmd = NoLoop
  BY DEF ListInv, Pop, Free
<1>2. n \in Nat /\ n <= Len(litems) /\ Len(litems) \in Nat
  BY <1>1, MinMaxOfTwo
<1> HIDE DEF n
<1>3. items \in Seq(LValues)
  <2>1. SubSeq(litems, n + 1, Len(litems)) \in Seq(LValues)
    BY <1>1, <1>2, SubSeqProperties
  <2>2. SubSeq(litems, 1, Len(litems) - n) \in Seq(LValues)
    BY <1>1, <1>2, SubSeqProperties
  <2> QED
    BY <2>1, <2>2
<1>4. /\ litems' = items /\ lstored' = (items # <<>>)
      /\ lbumped' = TRUE /\ lsilent' = FALSE /\ lcmd' = NoLoop /\ lold' = lold
  BY <1>1 DEF Pop, LeaveStored, n
<1> HIDE DEF items
<1> QED
  BY <1>1, <1>3, <1>4, FreeInv

\* LSET changes no length.
LEMMA LsetKeeps ==
    ASSUME ListInv, NEW i \in Int, NEW v \in LValues, Lset(i, v)
    PROVE  ListInv'
<1> DEFINE index == IF i < 0 THEN Len(litems) + i ELSE i
           items == [litems EXCEPT ![index + 1] = v]
<1>1. litems \in Seq(LValues) /\ lold \in Seq(LValues) /\ lcmd = NoLoop
  BY DEF ListInv, Lset, Free
<1>2. items \in Seq(LValues)
  <2>1. index \in 0 .. Len(litems) - 1
    BY DEF Lset
  <2> HIDE DEF index
  <2>2. index + 1 \in 1 .. Len(litems)
    BY <1>1, <2>1
  <2> QED
    BY <1>1, <2>2, ExceptSeq
<1>3. /\ litems' = items /\ lstored' = (items # <<>>)
      /\ lbumped' = TRUE /\ lsilent' = FALSE /\ lcmd' = NoLoop /\ lold' = lold
  BY <1>1 DEF Lset, LeaveStored
<1> HIDE DEF items
<1> QED
  BY <1>1, <1>2, <1>3, FreeInv

\* LREM begins.
LEMMA LremBeginKeeps ==
    ASSUME ListInv, NEW count \in Int, NEW v \in LValues, LremBegin(count, v)
    PROVE  ListInv'
<1> DEFINE at == IF count > 0 THEN 0 ELSE Len(litems) - 1
           c == [kind |-> "lrem", count |-> count, value |-> v, removed |-> 0, at |-> at]
<1>1. litems \in Seq(LValues) /\ litems # <<>>
  BY LoopKinds DEF ListInv, LremBegin, Free, Loop
<1>2. /\ lcmd' = c /\ lold' = litems /\ lbumped' = FALSE /\ lsilent' = FALSE
      /\ litems' = litems /\ lstored' = TRUE
  BY DEF LremBegin, ListInv
<1>3. at \in Int
  BY <1>1
<1>4. WalkInv(litems, litems, v, count, at, 0)
  BY <1>1, WalkBegins
<1> HIDE DEF at
<1>5. c \in LremLoops /\ c.value = v /\ c.count = count /\ c.at = at /\ c.removed = 0
  BY <1>3 DEF LremLoops
<1> HIDE DEF c
<1>6. WalkInv(litems', lold', lcmd'.value, lcmd'.count, lcmd'.at, lcmd'.removed)
  BY <1>2, <1>4, <1>5
<1>7. lcmd' \in LremLoops /\ lcmd'.kind = "lrem"
  BY <1>2, <1>5, LoopKinds
<1> QED
  BY <1>1, <1>2, <1>6, <1>7 DEF ListInv, Free, Loop

\* One round of the loop of LREM.
LEMMA LremStepKeeps ==
    ASSUME ListInv, LremStep
    PROVE  ListInv'
<1> DEFINE hit == litems[lcmd.at + 1] = lcmd.value
           items == IF hit THEN RemoveAt(litems, lcmd.at + 1) ELSE litems
           removed == IF hit THEN lcmd.removed + 1 ELSE lcmd.removed
           at == IF lcmd.count <= 0 THEN lcmd.at - 1
                 ELSE IF hit THEN lcmd.at ELSE lcmd.at + 1
           c == [lcmd EXCEPT !.removed = removed, !.at = at]
<1>1. /\ lcmd \in LremLoops /\ lold \in Seq(LValues) /\ litems \in Seq(LValues)
      /\ WalkInv(litems, lold, lcmd.value, lcmd.count, lcmd.at, lcmd.removed)
  BY LoopKinds DEF ListInv, LremStep, Loop
<1>2. /\ lcmd.count \in Int /\ lcmd.at \in Int /\ lcmd.removed \in Nat
  BY <1>1 DEF LremLoops
<1>3. /\ lcmd.at \in 0 .. Len(litems) - 1
      /\ lcmd.count # 0 => lcmd.removed < Abs(lcmd.count)
  BY <1>1, <1>2 DEF LremStep, LremGoesOn
<1>4. WalkInv(items, lold, lcmd.value, lcmd.count, at, removed)
  <2>1. CASE hit
    <3>1. at = IF lcmd.count > 0 THEN lcmd.at ELSE lcmd.at - 1
      BY <1>2, <2>1
    <3> QED
      BY <1>1, <1>3, <2>1, <3>1, WalkRemoves
  <2>2. CASE ~hit
    <3>1. at = IF lcmd.count > 0 THEN lcmd.at + 1 ELSE lcmd.at - 1
      BY <1>2, <2>2
    <3> QED
      BY <1>1, <1>3, <2>2, <3>1, WalkPasses
  <2> QED
    BY <2>1, <2>2
<1>5. at \in Int /\ removed \in Nat
  BY <1>2
<1>6. /\ litems' = items /\ lcmd' = c /\ lold' = lold
      /\ lbumped' = lbumped /\ lstored' = lstored /\ lsilent' = lsilent
  BY <1>1 DEF LremStep, LremLoops
<1> HIDE DEF items, removed, at
<1>7. /\ c \in LremLoops /\ c.value = lcmd.value /\ c.count = lcmd.count
      /\ c.at = at /\ c.removed = removed
  BY <1>1, <1>5 DEF LremLoops
<1> HIDE DEF c
<1>8. WalkInv(litems', lold', lcmd'.value, lcmd'.count, lcmd'.at, lcmd'.removed)
  BY <1>4, <1>6, <1>7
<1>9. lcmd' \in LremLoops /\ lcmd'.kind = "lrem" /\ litems' \in Seq(LValues)
  BY <1>6, <1>7, <1>8, LoopKinds DEF WalkInv
<1> QED
  BY <1>1, <1>6, <1>8, <1>9 DEF ListInv, Free, Loop

\* LREM ends: the array is deleted if it has become empty.
LEMMA LremEndKeeps ==
    ASSUME ListInv, LremEnd
    PROVE  ListInv'
<1>1. /\ litems' \in Seq(LValues) /\ lold' = <<>> /\ lcmd' = NoLoop
      /\ lstored' = (litems' # <<>>) /\ lbumped' \in BOOLEAN /\ lsilent' \in BOOLEAN
  BY DEF ListInv, LremEnd
<1> QED
  BY <1>1, EmptySeq, FreeInv

\* LPOS begins.
LEMMA LposBeginKeeps ==
    ASSUME ListInv, NEW v \in LValues, NEW rank \in Int, NEW count \in Nat,
           NEW maxlen \in Nat, LposBegin(v, rank, count, maxlen)
    PROVE  ListInv'
<1>1. litems \in Seq(LValues) /\ lold \in Seq(LValues) /\ litems # <<>>
  BY LoopKinds DEF ListInv, LposBegin, Free, Loop
<1>2. /\ lbumped' = FALSE /\ lsilent' = FALSE /\ lold' = lold
      /\ litems' = litems /\ lstored' = TRUE
  BY DEF LposBegin, ListInv
<1>3. lcmd' \in LposLoops /\ SearchInv(litems, lcmd')
  BY <1>1, SearchBegins DEF LposBegin
<1>4. lcmd'.kind = "lpos" /\ SearchInv(litems', lcmd')
  BY <1>2, <1>3, LoopKinds
<1> QED
  BY <1>1, <1>2, <1>3, <1>4 DEF ListInv, Free, Loop

\* One round of the loop of LPOS.
LEMMA LposStepKeeps ==
    ASSUME ListInv, LposStep
    PROVE  ListInv'
<1>1. /\ litems \in Seq(LValues) /\ lcmd \in LposLoops /\ SearchInv(litems, lcmd)
      /\ lold \in Seq(LValues) /\ lstored \in BOOLEAN /\ lbumped \in BOOLEAN
      /\ lsilent \in BOOLEAN
      /\ lstored <=> litems # <<>>
  BY LoopKinds DEF ListInv, LposStep, Loop
<1>2. UNCHANGED <<lstored, litems, lold, lbumped, lsilent>>
  BY DEF LposStep
<1>3. lcmd' \in LposLoops /\ SearchInv(litems, lcmd')
  BY <1>1, SearchRound DEF LposStep, LposGoesOn
<1>4. lcmd'.kind = "lpos" /\ SearchInv(litems', lcmd')
  BY <1>2, <1>3, LoopKinds
<1> QED
  BY <1>1, <1>2, <1>3, <1>4 DEF ListInv, Free, Loop

\* LPOS ends, with the array as it was.
LEMMA LposEndKeeps ==
    ASSUME ListInv, LposEnd
    PROVE  ListInv'
<1>1. /\ litems \in Seq(LValues) /\ lold \in Seq(LValues)
      /\ lstored \in BOOLEAN /\ lbumped \in BOOLEAN /\ lsilent \in BOOLEAN
      /\ (lstored <=> litems # <<>>)
  BY LoopKinds DEF ListInv, LposEnd, Loop
<1>2. UNCHANGED <<lstored, litems, lold, lbumped, lsilent>> /\ lcmd' = NoLoop
  BY DEF LposEnd
<1> QED
  BY <1>1, <1>2, FreeInv

\* A key that vanishes takes its array along.
LEMMA VanishKeeps ==
    ASSUME ListInv, LDelete \/ LVanish
    PROVE  ListInv'
<1>1. <<>> \in Seq(LValues)
  BY EmptySeq
<1>2. /\ lcmd' = NoLoop /\ lold' \in Seq(LValues)
      /\ litems' = <<>> /\ lstored' = FALSE
      /\ lbumped' \in BOOLEAN /\ lsilent' \in BOOLEAN
  BY DEF ListInv, LDelete, LVanish, Free
<1> QED
  BY <1>1, <1>2, FreeInv

\* A swap brings an array along unless there is none.
LEMMA SwapKeeps ==
    ASSUME ListInv, NEW items \in Seq(LValues), LSwap(items)
    PROVE  ListInv'
<1>1. /\ lcmd' = NoLoop /\ lold' \in Seq(LValues)
      /\ litems' = items /\ lstored' = (items # <<>>)
      /\ lbumped' \in BOOLEAN /\ lsilent' \in BOOLEAN
  BY DEF ListInv, LSwap, Free
<1> QED
  BY <1>1, FreeInv

\* Every step of a list keeps the invariant.
LEMMA ListStepKeeps == ListInv /\ [LNext]_lvars => ListInv'
<1> SUFFICES ASSUME ListInv, [LNext]_lvars
             PROVE  ListInv'
  OBVIOUS
<1>1. LNumbers \subseteq Int /\ 0 .. LMaxLen \subseteq Nat /\ 0 .. LMaxLen + 1 \subseteq Nat
  BY ListParameters DEF LNumbers
<1>2. CASE \E left \in BOOLEAN, v \in LValues : Push(left, <<v>>)
  <2>1. PICK left \in BOOLEAN, v \in LValues : Push(left, <<v>>)
    BY <1>2
  <2>2. <<v>> \in Seq(LValues) /\ <<v>> # <<>>
    OBVIOUS
  <2> QED
    BY <2>1, <2>2, PushKeeps
<1>3. CASE \E left \in BOOLEAN, v, w \in LValues : Push(left, <<v, w>>)
  <2>1. PICK left \in BOOLEAN, v \in LValues, w \in LValues : Push(left, <<v, w>>)
    BY <1>3
  <2>2. <<v, w>> \in Seq(LValues) /\ <<v, w>> # <<>>
    OBVIOUS
  <2> QED
    BY <2>1, <2>2, PushKeeps
<1>4. CASE \E left \in BOOLEAN, n \in 0 .. LMaxLen + 1 : Pop(left, n)
  BY <1>1, <1>4, PopKeeps
<1>5. CASE \E i \in LNumbers, v \in LValues : Lset(i, v)
  BY <1>1, <1>5, LsetKeeps
<1>6. CASE \E n \in LNumbers, v \in LValues : LremBegin(n, v)
  BY <1>1, <1>6, LremBeginKeeps
<1>7. CASE \E v \in LValues, rank \in LNumbers, n, max \in 0 .. LMaxLen :
             LposBegin(v, rank, n, max)
  BY <1>1, <1>7, LposBeginKeeps
<1>8. CASE LDelete \/ LVanish \/ LremStep \/ LremEnd \/ LposStep \/ LposEnd
  BY <1>8, VanishKeeps, LremStepKeeps, LremEndKeeps, LposStepKeeps, LposEndKeeps
<1>9. CASE \E n \in 0 .. LMaxLen : \E items \in [1 .. n -> LValues] : LSwap(items)
  <2>1. PICK n \in 0 .. LMaxLen : \E items \in [1 .. n -> LValues] : LSwap(items)
    BY <1>9
  <2>2. PICK items \in [1 .. n -> LValues] : LSwap(items)
    BY <2>1
  <2>3. items \in Seq(LValues)
    BY <1>1, <2>2
  <2> QED
    BY <2>2, <2>3, SwapKeeps
<1>10. CASE UNCHANGED lvars
  BY <1>10 DEF lvars, ListInv, Free, Loop
<1> QED
  BY <1>2, <1>3, <1>4, <1>5, <1>6, <1>7, <1>8, <1>9, <1>10 DEF LNext

\* Throughout, an array is in the store exactly if it has elements, except in
\* the loop of LREM, and each loop is where its index says (lists.js:10-30).
THEOREM ListsConsistent == LSpec => []ListInv
<1>1. LInit => ListInv
  <2> SUFFICES ASSUME LInit
               PROVE  ListInv
    OBVIOUS
  <2>1. <<>> \in Seq(LValues)
    BY EmptySeq
  <2> QED
    BY <2>1, LoopKinds DEF LInit, ListInv, Free, Loop
<1> QED
  BY <1>1, ListStepKeeps, PTL DEF LSpec

\* LREM removes the occurrences nearest to its end, as many as asked for, and
\* keeps the others in order, for lists of any length (lists.js:155-185).
THEOREM LremIsExact == LSpec => []LremExact
<1>1. ListInv => LremExact
  <2> SUFFICES ASSUME ListInv, Loop("lrem"), ~LremGoesOn
               PROVE  LET hits == {p \in 1 .. Len(lold) : lold[p] = lcmd.value}
                          nearer(p) == IF lcmd.count > 0 THEN {q \in hits : q < p}
                                       ELSE {q \in hits : q > p}
                          gone == {p \in hits : lcmd.count # 0 =>
                                      Cardinality(nearer(p)) < Abs(lcmd.count)}
                      IN  /\ Selects(litems, lold, (1 .. Len(lold)) \ gone)
                          /\ lcmd.removed = Cardinality(gone)
    BY DEF LremExact
  <2> DEFINE W == Walked(lold, lcmd.value, lcmd.count, lcmd.at, lcmd.removed)
  <2>1. WalkInv(litems, lold, lcmd.value, lcmd.count, lcmd.at, lcmd.removed)
    BY DEF ListInv
  <2>2. ~( /\ lcmd.at >= 0 /\ lcmd.at < Len(litems)
           /\ lcmd.count # 0 => lcmd.removed < Abs(lcmd.count))
    BY DEF LremGoesOn
  <2>3. lcmd.removed = Cardinality(W)
    BY <2>1 DEF WalkInv
  <2>4. PICK f \in [DOMAIN litems -> (1 .. Len(lold)) \ W] :
            Picks(f, litems, lold, (1 .. Len(lold)) \ W)
    BY <2>1 DEF WalkInv, Left
  <2>5. Selects(litems, lold, (1 .. Len(lold)) \ W)
    BY <2>4 DEF Selects, Picks
  <2> HIDE DEF W
  <2>6. W = ToRemove(lold, lcmd.value, lcmd.count)
    BY <2>1, <2>2, WalkEnds DEF W
  <2>7. /\ Selects(litems, lold, (1 .. Len(lold)) \ ToRemove(lold, lcmd.value, lcmd.count))
        /\ lcmd.removed = Cardinality(ToRemove(lold, lcmd.value, lcmd.count))
    BY <2>3, <2>5, <2>6
  <2> QED
    BY <2>7 DEF ToRemove
<1> QED
  BY <1>1, ListsConsistent, PTL

\* LRANGE takes one stretch of the array, that of the window.
LEMMA RangeTaken ==
    ASSUME litems \in Seq(LValues), NEW start \in Int, NEW stop \in Int
    PROVE  LET index(i) == IF i < 0 THEN Len(litems) + i ELSE i
           IN  Selects(LRange(start, stop), litems,
                       {p \in 1 .. Len(litems) : /\ p - 1 >= index(start)
                                                 /\ p - 1 <= index(stop)})
<1> DEFINE len == Len(litems)
           index(i) == IF i < 0 THEN len + i ELSE i
           P == {p \in 1 .. len : p - 1 >= index(start) /\ p - 1 <= index(stop)}
           from == IF start < 0 THEN Max({0, len + start}) ELSE start
           to == IF stop < 0 THEN len + stop ELSE stop
           m == Min({to, len - 1})
           none == from > to \/ from >= len
           n == IF none THEN 0 ELSE m - from + 1
           r == LRange(start, stop)
<1>1. len \in Nat /\ to \in Int /\ to = index(stop)
  OBVIOUS
<1>2. from \in Nat /\ \A p \in Nat : p >= from <=> p >= index(start)
  <2>1. CASE start < 0
    <3> DEFINE i == len + start
    <3>1. i \in Int /\ index(start) = i /\ from = Max({0, i})
      BY <1>1, <2>1
    <3>2. i \in Int /\ 0 \in Int
      BY <3>1
    <3> HIDE DEF i, from, index
    <3>3. Max({0, i}) = IF 0 >= i THEN 0 ELSE i
      BY <3>2, MinMaxOfTwo
    <3>4. from = IF 0 >= i THEN 0 ELSE i
      BY <3>1, <3>3
    <3>5. from \in Nat /\ \A p \in Nat : p >= from <=> p >= i
      BY <3>2, <3>4
    <3> QED
      BY <3>1, <3>5
  <2>2. CASE ~(start < 0)
    BY <1>1, <2>2
  <2> QED
    BY <2>1, <2>2
<1> HIDE DEF from, to
<1>3. m = IF to <= len - 1 THEN to ELSE len - 1
  BY <1>1, MinMaxOfTwo
<1>4. r = IF none THEN <<>> ELSE SubSeq(litems, from + 1, m + 1)
  BY DEF LRange, from, to
<1> HIDE DEF m, r, index
<1>5. n \in Nat /\ m \in Int /\ (n = 0 \/ from + n <= len)
  <2>1. CASE none
    BY <1>1, <1>3, <2>1
  <2>2. CASE ~none
    BY <1>1, <1>2, <1>3, <2>2
  <2> QED
    BY <2>1, <2>2
<1>6. r \in Seq(LValues) /\ Len(r) = n /\ \A i \in 1 .. n : r[i] = litems[from + i]
  <2>1. CASE none
    BY <1>4, <2>1, EmptySeq
  <2>2. CASE ~none
    <3>1. n = m - from + 1 /\ from + 1 \in Int /\ m + 1 \in Int /\ m + 1 <= len
      BY <1>1, <1>2, <1>3, <2>2
    <3>2. \A i \in from + 1 .. m + 1 : litems[i] \in LValues
      BY <1>2, <3>1
    <3> DEFINE a == from + 1
               b == m + 1
               s == SubSeq(litems, a, b)
    <3>3. a \in Int /\ b \in Int /\ a <= b /\ b - a + 1 = n
      BY <1>1, <1>2, <1>3, <2>2, <3>1
    <3>4. \A i \in 1 .. n : a + i - 1 = from + i
      BY <1>2, <1>5
    <3> HIDE DEF a, b, n
    <3>5. /\ s \in Seq(LValues)
          /\ Len(s) = IF a <= b THEN b - a + 1 ELSE 0
          /\ \A i \in 1 .. b - a + 1 : s[i] = litems[a + i - 1]
      BY <3>2, <3>3, SubSeqProperties DEF a, b
    <3>6. r = s
      BY <1>4, <2>2 DEF a, b
    <3> HIDE DEF s
    <3> QED
      BY <3>3, <3>4, <3>5, <3>6
  <2> QED
    BY <2>1, <2>2
<1>7. P = from + 1 .. from + n
  <2>1. \A p \in 1 .. len : p - 1 >= index(start) <=> p - 1 >= from
    BY <1>1, <1>2
  <2>2. \A p \in 1 .. len : p - 1 >= from /\ p - 1 <= to <=> p >= from + 1 /\ p <= from + n
    BY <1>1, <1>2, <1>3
  <2> QED
    BY <1>1, <1>2, <1>5, <2>1, <2>2
<1>9. DOMAIN r = 1 .. n
  BY <1>6
<1> DEFINE f == [i \in 1 .. n |-> from + i]
<1> HIDE DEF P, n, none
<1>10. f \in [1 .. n -> P] /\ \A i \in 1 .. n : f[i] = from + i
  BY <1>2, <1>5, <1>7
<1> HIDE DEF f
<1>11. \A p \in P : p - from \in 1 .. n /\ f[p - from] = p
  BY <1>2, <1>5, <1>7, <1>10
<1>12. \A i, j \in 1 .. n : i < j => f[i] < f[j]
  BY <1>2, <1>5, <1>10
<1>13. \A i \in 1 .. n : r[i] = litems[f[i]]
  BY <1>6, <1>10
<1>14. Selects(r, litems, P)
  BY <1>9, <1>10, <1>11, <1>12, <1>13 DEF Selects
<1> QED
  BY <1>14 DEF r, P, index

\* LPOS and LRANGE reply what their definition says, for lists of any length
\* and any rank, limit and index (lists.js:96-111, 213-246).
THEOREM ListRepliesAreExact == LSpec => []ListRepliesExact
<1>1. ListInv => PositionsExact
  <2> SUFFICES ASSUME ListInv, Loop("lpos"), ~LposGoesOn
               PROVE  LET size == Len(litems)
                          depth(p) == IF lcmd.rank > 0 THEN p ELSE size - 1 - p
                          hits == {p \in 0 .. size - 1 :
                                      /\ litems[p + 1] = lcmd.value
                                      /\ lcmd.maxlen > 0 => depth(p) < lcmd.maxlen}
                          nth(p) == Cardinality({q \in hits : depth(q) <= depth(p)})
                          first == Max({1, Abs(lcmd.rank)})
                          wanted == {p \in hits :
                                      /\ nth(p) >= first
                                      /\ lcmd.count # 0 => nth(p) < first + lcmd.count}
                      IN  /\ Range(lcmd.results) = wanted
                          /\ \A i, j \in DOMAIN lcmd.results :
                                i < j => depth(lcmd.results[i]) < depth(lcmd.results[j])
    BY DEF PositionsExact
  <2>1. litems \in Seq(LValues) /\ lcmd \in LposLoops /\ SearchInv(litems, lcmd)
    BY LoopKinds DEF ListInv, Loop
  <2>2. lcmd.done \/ ~(IF lcmd.rank > 0 THEN lcmd.at <= lcmd.last ELSE lcmd.at >= lcmd.last)
    BY DEF LposGoesOn
  <2>3. \A i, j \in DOMAIN lcmd.results : i < j =>
          Depth(litems, lcmd.rank, lcmd.results[i]) < Depth(litems, lcmd.rank, lcmd.results[j])
    <3>1. Found(litems, lcmd.value, lcmd.rank, Depth(litems, lcmd.rank, lcmd.at),
                lcmd.results)
      BY <2>1 DEF SearchInv
    <3>2. lcmd.results \in Seq(Nat)
      BY <2>1 DEF LposLoops
    <3>3. DOMAIN lcmd.results = 1 .. Len(lcmd.results)
      BY <3>2
    <3> QED
      BY <3>1, <3>3 DEF Found
  <2>4. LET hits == {p \in 0 .. Len(litems) - 1 :
                      /\ litems[p + 1] = lcmd.value
                      /\ lcmd.maxlen > 0 => Depth(litems, lcmd.rank, p) < lcmd.maxlen}
            nth(p) == Cardinality({q \in hits : Depth(litems, lcmd.rank, q)
                                                <= Depth(litems, lcmd.rank, p)})
            first == Max({1, Abs(lcmd.rank)})
        IN  Range(lcmd.results) = {p \in hits :
                                     /\ nth(p) >= first
                                     /\ lcmd.count # 0 => nth(p) < first + lcmd.count}
    BY <2>1, <2>2, SearchEnds
  <2> QED
    BY <2>3, <2>4 DEF Depth
<1>2. ListInv => ElementsExact
  <2>1. LNumbers \subseteq Int
    BY ListParameters DEF LNumbers
  <2> QED
    BY <2>1, RangeTaken DEF ListInv, ElementsExact
<1> QED
  BY <1>1, <1>2, ListsConsistent, PTL DEF ListRepliesExact

\* A change of a list bumps the version of its key, unless it is a push that
\* store.set has refused, a deadline noticed by a read, FLUSHDB, FLUSHALL or
\* SWAPDB (lists.js:10-30, 45-81, 140-142, 187-188; store.js:29-38, 112-143).
THEOREM ListChangesAreBumped == LSpec => ListChangesBumped
<1> DEFINE Refused == /\ LMayRefuse
                      /\ \E left \in BOOLEAN, v \in LValues :
                           \/ Push(left, <<v>>)
                           \/ \E w \in LValues : Push(left, <<v, w>>)
           A == Free' /\ litems' # (IF Free THEN litems ELSE lold) /\ ~Loop("lpos")
                => lbumped' \/ lsilent' \/ Refused
<1>1. ListInv /\ [LNext]_lvars => [A]_lvars
  <2> SUFFICES ASSUME ListInv, LNext, Free', ~Loop("lpos"),
                      litems' # (IF Free THEN litems ELSE lold)
               PROVE  lbumped' \/ lsilent' \/ Refused
    OBVIOUS
  <2>1. CASE \E left \in BOOLEAN, v \in LValues : Push(left, <<v>>)
    BY <2>1 DEF Push
  <2>2. CASE \E left \in BOOLEAN, v, w \in LValues : Push(left, <<v, w>>)
    BY <2>2 DEF Push
  <2>3. CASE \E left \in BOOLEAN, n \in 0 .. LMaxLen + 1 : Pop(left, n)
    BY <2>3 DEF Pop, LeaveStored
  <2>4. CASE \E i \in LNumbers, v \in LValues : Lset(i, v)
    BY <2>4 DEF Lset, LeaveStored
  <2>5. CASE \E n \in LNumbers, v \in LValues : LremBegin(n, v)
    BY <2>5 DEF LremBegin, Free, NoLoop
  <2>6. CASE \E v \in LValues, rank \in LNumbers, n, max \in 0 .. LMaxLen :
               LposBegin(v, rank, n, max)
    BY <2>6 DEF LposBegin, Free, NoLoop
  <2>7. CASE LDelete \/ LVanish
    BY <2>7 DEF LDelete, LVanish
  <2>8. CASE LremStep
    BY <2>8, LremStepKeeps, LoopKinds DEF LremStep, ListInv, Loop, Free
  <2>9. CASE LremEnd
    <3>1. /\ lcmd \in LremLoops /\ ~Free /\ litems' = litems
          /\ WalkInv(litems, lold, lcmd.value, lcmd.count, lcmd.at, lcmd.removed)
      BY <2>9, LoopKinds DEF LremEnd, ListInv, Loop, Free
    <3>2. lcmd.removed \in Nat /\ (lcmd.removed = 0 => litems = lold)
      BY <3>1 DEF WalkInv
    <3>3. lcmd.removed > 0
      BY <3>1, <3>2
    <3> QED
      BY <2>9, <3>3 DEF LremEnd
  <2>10. CASE LposStep \/ LposEnd
    BY <2>10 DEF LposStep, LposEnd
  <2>11. CASE \E n \in 0 .. LMaxLen : \E items \in [1 .. n -> LValues] : LSwap(items)
    BY <2>11 DEF LSwap
  <2> QED
    BY <2>1, <2>2, <2>3, <2>4, <2>5, <2>6, <2>7, <2>8, <2>9, <2>10, <2>11 DEF LNext
<1> QED
  BY <1>1, ListsConsistent, PTL DEF LSpec, ListChangesBumped

-----------------------------------------------------------------------------
(* Globbing.  A filling gives, for each item of the pattern, the number of *)
(* characters before its end.  The loop is right because the last star can *)
(* make up for all before it: moving its begin back never hurts.           *)

GItems == Items \cup {Star}

\* f fills the items after the first i with the characters after the first j.
Fills(f, p, s, i, j) ==
    /\ f \in [0 .. Len(p) -> 0 .. Len(s)]
    /\ f[i] = j /\ f[Len(p)] = Len(s)
    /\ \A t \in i + 1 .. Len(p) : Fits(p[t], s, f[t - 1], f[t])

Match(p, s, i, j) == \E f : Fills(f, p, s, i, j)

LEMMA AcceptedIsMatch ==
    ASSUME NEW p, NEW s
    PROVE  Accepted(p, s) <=> Match(p, s, 0, 0)
  BY DEF Accepted, Match, Fills

LEMMA MatchInside ==
    ASSUME NEW p, NEW s, Len(p) \in Nat, NEW i \in 0 .. Len(p), NEW j, Match(p, s, i, j)
    PROVE  j \in 0 .. Len(s)
  BY DEF Match, Fills

\* Items that take one character each, in front of a match.
LEMMA MatchBack ==
    ASSUME NEW p, NEW s, Len(p) \in Nat, Len(s) \in Nat,
           NEW i \in 0 .. Len(p), NEW q \in i .. Len(p), NEW j \in Nat,
           Match(p, s, q, j + (q - i)),
           \A t \in i + 1 .. q : Fits(p[t], s, j + (t - i) - 1, j + (t - i))
    PROVE  Match(p, s, i, j)
<1>1. PICK f : Fills(f, p, s, q, j + (q - i))
  BY DEF Match
<1> DEFINE g == [t \in 0 .. Len(p) |-> IF i <= t /\ t <= q THEN j + (t - i) ELSE f[t]]
<1>2. i \in Nat /\ q \in Nat /\ i <= q /\ q <= Len(p)
  OBVIOUS
<1>3. f[q] = j + (q - i) /\ j + (q - i) \in 0 .. Len(s)
  BY <1>1, <1>2 DEF Fills
<1>4. g \in [0 .. Len(p) -> 0 .. Len(s)]
  <2>1. ASSUME NEW t \in 0 .. Len(p), i <= t, t <= q PROVE j + (t - i) \in 0 .. Len(s)
    BY <1>2, <1>3, <2>1
  <2>2. ASSUME NEW t \in 0 .. Len(p) PROVE f[t] \in 0 .. Len(s)
    BY <1>1 DEF Fills
  <2> QED
    BY <2>1, <2>2
<1>5. g[i] = j
  BY <1>2
<1>6. g[Len(p)] = Len(s)
  <2>1. CASE q = Len(p)
    BY <1>1, <1>2, <1>3, <2>1 DEF Fills
  <2>2. CASE q < Len(p)
    BY <1>1, <1>2, <2>2 DEF Fills
  <2> QED
    BY <1>2, <2>1, <2>2
<1>7. ASSUME NEW t \in i + 1 .. Len(p) PROVE Fits(p[t], s, g[t - 1], g[t])
  <2>1. t \in 0 .. Len(p) /\ t - 1 \in 0 .. Len(p) /\ i <= t /\ i <= t - 1
    BY <1>2
  <2>2. CASE t <= q
    <3>1. g[t] = j + (t - i) /\ g[t - 1] = j + (t - i) - 1
      BY <1>2, <2>1, <2>2
    <3>2. t \in i + 1 .. q
      BY <1>2, <2>2
    <3> HIDE DEF g
    <3> QED
      BY <3>1, <3>2
  <2>3. CASE t > q
    <3>1. g[t] = f[t]
      BY <1>2, <2>1, <2>3
    <3>2. g[t - 1] = f[t - 1]
      <4>1. CASE t - 1 = q
        BY <1>2, <1>3, <2>1, <4>1
      <4>2. CASE t - 1 > q
        BY <1>2, <2>1, <4>2
      <4> QED
        BY <1>2, <2>3, <4>1, <4>2
    <3>3. t \in q + 1 .. Len(p)
      BY <1>2, <2>3
    <3> HIDE DEF g
    <3> QED
      BY <1>1, <3>1, <3>2, <3>3 DEF Fills
  <2> QED
    BY <1>2, <2>2, <2>3
<1> HIDE DEF g
<1>8. Fills(g, p, s, i, j)
  BY <1>4, <1>5, <1>6, <1>7 DEF Fills
<1> QED
  BY <1>8 DEF Match

\* Where a match stands after items that are no stars.
LEMMA MatchAhead ==
    ASSUME NEW p, NEW s, Len(p) \in Nat, Len(s) \in Nat,
           NEW i \in 0 .. Len(p), NEW q \in i .. Len(p), NEW j \in Nat,
           Match(p, s, i, j), \A t \in i + 1 .. q : p[t] # Star
    PROVE  Match(p, s, q, j + (q - i))
<1>1. PICK f : Fills(f, p, s, i, j)
  BY DEF Match
<1>2. i \in Nat /\ q \in Nat /\ i <= q /\ q <= Len(p) /\ q - i \in Nat
  OBVIOUS
<1> DEFINE P == {d \in Nat : i + d <= q => f[i + d] = j + d}
<1>3. 0 \in P
  BY <1>1, <1>2 DEF Fills
<1>4. ASSUME NEW d \in 0 .. (q - i) - 1, d \in P PROVE d + 1 \in P
  <2>1. i + d <= q /\ f[i + d] = j + d /\ d \in Nat
    BY <1>2, <1>4
  <2> DEFINE t == i + d + 1
  <2>2. t \in i + 1 .. q /\ t \in i + 1 .. Len(p) /\ t - 1 = i + d /\ i + (d + 1) = t
    BY <1>2, <2>1
  <2> HIDE DEF t
  <2>3. Fits(p[t], s, j + d, f[t]) /\ p[t] # Star
    BY <1>1, <2>1, <2>2 DEF Fills
  <2>4. f[t] = j + d + 1
    BY <2>3 DEF Fits
  <2> QED
    BY <2>1, <2>2, <2>4
<1>5. \A d \in 0 .. q - i : d \in P
  <2> HIDE DEF P
  <2> QED
    BY <1>2, <1>3, <1>4, UpTo
<1>6. f[q] = j + (q - i)
  <2>1. q - i \in P /\ i + (q - i) = q
    <3> HIDE DEF P
    <3> QED
      BY <1>2, <1>5
  <2> QED
    BY <1>2, <2>1
<1>7. \A t \in q + 1 .. Len(p) : t \in i + 1 .. Len(p)
  BY <1>2
<1>8. Fills(f, p, s, q, j + (q - i))
  BY <1>1, <1>6, <1>7 DEF Fills
<1> QED
  BY <1>8 DEF Match

\* A star may begin earlier,
LEMMA StarBegins ==
    ASSUME NEW p, NEW s, Len(p) \in Nat, Len(s) \in Nat,
           NEW i \in 0 .. Len(p) - 1, NEW j \in Nat, NEW k \in Nat,
           p[i + 1] = Star, j <= k, Match(p, s, i + 1, k)
    PROVE  Match(p, s, i, j)
<1>1. PICK f : Fills(f, p, s, i + 1, k)
  BY DEF Match
<1> DEFINE g == [f EXCEPT ![i] = j]
<1>2. i \in Nat /\ i + 1 \in 0 .. Len(p) /\ i \in 0 .. Len(p) /\ i # Len(p) /\ i # i + 1
  OBVIOUS
<1>3. k \in 0 .. Len(s) /\ j \in 0 .. Len(s)
  BY <1>1, <1>2 DEF Fills
<1>4. /\ g \in [0 .. Len(p) -> 0 .. Len(s)]
      /\ g[i] = j /\ \A t \in 0 .. Len(p) : t # i => g[t] = f[t]
  BY <1>1, <1>2, <1>3 DEF Fills
<1> HIDE DEF g
<1>5. g[Len(p)] = Len(s)
  BY <1>1, <1>2, <1>4 DEF Fills
<1>6. ASSUME NEW t \in i + 1 .. Len(p) PROVE Fits(p[t], s, g[t - 1], g[t])
  <2>1. CASE t = i + 1
    <3>1. g[t - 1] = j /\ g[t] = k
      BY <1>1, <1>2, <1>4, <2>1 DEF Fills
    <3> QED
      BY <2>1, <3>1 DEF Fits
  <2>2. CASE t # i + 1
    <3>1. /\ t \in (i + 1) + 1 .. Len(p) /\ t \in 0 .. Len(p) /\ t # i
          /\ t - 1 \in 0 .. Len(p) /\ t - 1 # i
      BY <1>2, <2>2
    <3>2. g[t - 1] = f[t - 1] /\ g[t] = f[t]
      BY <1>4, <3>1
    <3> QED
      BY <1>1, <3>1, <3>2 DEF Fills
  <2> QED
    BY <2>1, <2>2
<1>7. Fills(g, p, s, i, j)
  BY <1>4, <1>5, <1>6 DEF Fills
<1> QED
  BY <1>7 DEF Match

\* and ends where it began or later.
LEMMA StarEnds ==
    ASSUME NEW p, NEW s, Len(p) \in Nat, Len(s) \in Nat,
           NEW i \in 0 .. Len(p) - 1, NEW j \in Nat, p[i + 1] = Star, Match(p, s, i, j)
    PROVE  \E k \in Nat : j <= k /\ Match(p, s, i + 1, k)
<1>1. PICK f : Fills(f, p, s, i, j)
  BY DEF Match
<1>2. i + 1 \in i + 1 .. Len(p) /\ (i + 1) - 1 = i /\ i + 1 \in 0 .. Len(p)
  OBVIOUS
<1>3. Fits(p[i + 1], s, j, f[i + 1])
  BY <1>1, <1>2 DEF Fills
<1>4. f[i + 1] \in Nat /\ j <= f[i + 1]
  BY <1>1, <1>2, <1>3 DEF Fills, Fits
<1>5. \A t \in (i + 1) + 1 .. Len(p) : t \in i + 1 .. Len(p)
  OBVIOUS
<1>6. Fills(f, p, s, i + 1, f[i + 1])
  BY <1>1, <1>5 DEF Fills
<1> QED
  BY <1>4, <1>6 DEF Match

\* A bracket that is never closed matches nothing.
LEMMA NoUnclosed ==
    ASSUME NEW p, NEW s, NEW i, NEW j, Match(p, s, i, j)
    PROVE  \A t \in i + 1 .. Len(p) : p[t] # Unclosed
  BY GlobParameters DEF Match, Fills, Fits

\* At the end of the string only stars match.
LEMMA MatchAtEnd ==
    ASSUME NEW p, NEW s, Len(p) \in Nat, Len(s) \in Nat, NEW i \in 0 .. Len(p)
    PROVE  Match(p, s, i, Len(s)) <=> \A t \in i + 1 .. Len(p) : p[t] = Star
<1> DEFINE N == Len(s)
<1>1. ASSUME \A t \in i + 1 .. Len(p) : p[t] = Star PROVE Match(p, s, i, N)
  <2> DEFINE g == [t \in 0 .. Len(p) |-> N]
  <2>1. \A t \in i + 1 .. Len(p) : t \in 0 .. Len(p) /\ t - 1 \in 0 .. Len(p)
    OBVIOUS
  <2>2. Fills(g, p, s, i, N)
    BY <1>1, <2>1 DEF Fills, Fits
  <2> QED
    BY <2>2 DEF Match
<1>2. ASSUME Match(p, s, i, N) PROVE \A t \in i + 1 .. Len(p) : p[t] = Star
  <2>1. PICK f : Fills(f, p, s, i, N)
    BY <1>2 DEF Match
  <2>2. i \in Nat /\ Len(p) - i \in Nat
    OBVIOUS
  <2>3. ASSUME NEW t \in i + 1 .. Len(p), f[t - 1] = N PROVE p[t] = Star /\ f[t] = N
    <3>1. f[t] \in 0 .. N /\ Fits(p[t], s, N, f[t])
      BY <2>1, <2>2, <2>3 DEF Fills
    <3> QED
      BY <3>1 DEF Fits
  <2> DEFINE P == {d \in Nat : i + d <= Len(p) => f[i + d] = N}
  <2>4. 0 \in P
    BY <2>1, <2>2 DEF Fills
  <2>5. ASSUME NEW d \in 0 .. (Len(p) - i) - 1, d \in P PROVE d + 1 \in P
    <3> DEFINE t == i + d + 1
    <3>1. t \in i + 1 .. Len(p) /\ t - 1 = i + d /\ i + (d + 1) = t /\ i + d <= Len(p) /\ d \in Nat
      BY <2>2
    <3> HIDE DEF t
    <3>2. f[t] = N
      BY <2>3, <2>5, <3>1
    <3> QED
      BY <3>1, <3>2
  <2>6. \A d \in 0 .. Len(p) - i : d \in P
    <3> HIDE DEF P
    <3> QED
      BY <2>2, <2>4, <2>5, UpTo
  <2>7. ASSUME NEW t \in i + 1 .. Len(p) PROVE p[t] = Star
    <3> DEFINE d == t - 1 - i
    <3>1. d \in 0 .. Len(p) - i /\ i + d = t - 1 /\ i + d <= Len(p)
      BY <2>2
    <3> HIDE DEF d
    <3>2. d \in P
      BY <2>6, <3>1
    <3>3. f[t - 1] = N
      BY <3>1, <3>2
    <3> QED
      BY <2>3, <3>3
  <2> QED
    BY <2>7
<1> QED
  BY <1>1, <1>2

\* An item that is no star takes the next character, or there is no match.
LEMMA MatchNext ==
    ASSUME NEW p, NEW s, Len(p) \in Nat, Len(s) \in Nat,
           NEW i \in 0 .. Len(p), NEW j \in 0 .. Len(s) - 1, Match(p, s, i, j),
           i < Len(p) => p[i + 1] # Star
    PROVE  i < Len(p) /\ Fits(p[i + 1], s, j, j + 1)
<1>1. PICK f : Fills(f, p, s, i, j)
  BY DEF Match
<1>2. i < Len(p)
  BY <1>1 DEF Fills
<1>3. i + 1 \in i + 1 .. Len(p) /\ (i + 1) - 1 = i
  BY <1>2
<1>4. Fits(p[i + 1], s, j, f[i + 1])
  BY <1>1, <1>3 DEF Fills
<1> QED
  BY <1>2, <1>4 DEF Fits

\* The last star taken, and where its characters end; before the first star
\* the begin of both.
Base == gstarPi + 1
SBase == IF gstarPi < 0 THEN 0 ELSE gstarSi

\* Where the rest of the pattern may still begin to match.
Starts == IF gstarPi < 0 THEN {0} ELSE {k \in Nat : gstarSi <= k}

GTyped ==
    /\ gpattern \in Seq(GItems) /\ gstring \in Seq(Chars)
    /\ gresult \in {"idle", "none", "yes", "no"}
    /\ gresult = "idle" => gpi = 0 /\ gsi = 0 /\ gstarPi = -1 /\ gstarSi = -1

\* Since the last star every item has taken one character, and nothing is
\* lost by the stars before it.
Round ==
    /\ gstarPi \in Int /\ -1 <= gstarPi /\ SBase \in Nat
    /\ gpi \in Base .. Len(gpattern) /\ gsi \in SBase .. Len(gstring)
    /\ gpi - Base = gsi - SBase
    /\ \A t \in Base + 1 .. gpi :
          /\ gpattern[t] # Star
          /\ Fits(gpattern[t], gstring, SBase + (t - Base) - 1, SBase + (t - Base))
    /\ Accepted(gpattern, gstring) <=> \E k \in Starts : Match(gpattern, gstring, Base, k)

\* The inductive invariant.
GlobInv == GTyped /\ (gresult = "none" => Round) /\ GlobExact

\* What a round knows of the items and the characters that are left.
LEMMA RoundFacts ==
    ASSUME GTyped, Round
    PROVE  /\ Len(gpattern) \in Nat /\ Len(gstring) \in Nat
           /\ Base \in 0 .. Len(gpattern) /\ gpi \in 0 .. Len(gpattern)
           /\ gsi \in 0 .. Len(gstring) /\ SBase + (gpi - Base) = gsi
           /\ Match(gpattern, gstring, gpi, gsi) => Accepted(gpattern, gstring)
           /\ \A k \in Starts :
                 /\ k \in Nat /\ SBase <= k
                 /\ Match(gpattern, gstring, Base, k)
                      => Match(gpattern, gstring, gpi, k + (gpi - Base))
<1>1. Len(gpattern) \in Nat /\ Len(gstring) \in Nat
  BY LenProperties DEF GTyped
<1>2. /\ Base \in 0 .. Len(gpattern) /\ gpi \in Base .. Len(gpattern)
      /\ gpi \in 0 .. Len(gpattern) /\ gsi \in 0 .. Len(gstring)
      /\ SBase \in Nat /\ SBase + (gpi - Base) = gsi
  <2>1. Base \in Nat
    BY DEF Round, Base
  <2> QED
    BY <1>1, <2>1 DEF Round
<1>3. \A k \in Starts : k \in Nat /\ SBase <= k
  BY DEF Starts, SBase, Round
<1>4. SBase \in Starts
  BY DEF Starts, SBase, Round
<1>5. /\ \A t \in Base + 1 .. gpi :
          /\ gpattern[t] # Star
          /\ Fits(gpattern[t], gstring, SBase + (t - Base) - 1, SBase + (t - Base))
      /\ Accepted(gpattern, gstring) <=> \E k \in Starts : Match(gpattern, gstring, Base, k)
  BY DEF Round
<1> HIDE DEF Base, SBase, Starts
<1>6. ASSUME Match(gpattern, gstring, gpi, gsi) PROVE Accepted(gpattern, gstring)
  <2>1. Match(gpattern, gstring, gpi, SBase + (gpi - Base))
    BY <1>2, <1>6
  <2>2. Match(gpattern, gstring, Base, SBase)
    BY <1>1, <1>2, <1>5, <2>1, MatchBack
  <2> QED
    BY <1>4, <1>5, <2>2
<1>7. ASSUME NEW k \in Starts, Match(gpattern, gstring, Base, k)
      PROVE  Match(gpattern, gstring, gpi, k + (gpi - Base))
  BY <1>1, <1>2, <1>3, <1>5, <1>7, MatchAhead
<1> QED
  BY <1>1, <1>2, <1>3, <1>6, <1>7

LEMMA GlobInvInit == GInit => GlobInv
<1> SUFFICES ASSUME GInit PROVE GlobInv
  OBVIOUS
<1>1. <<>> \in Seq(GItems) /\ <<>> \in Seq(Chars)
  BY EmptySeq
<1> QED
  BY <1>1 DEF GInit, GlobInv, GTyped, GlobExact

LEMMA GBeginKeeps ==
    ASSUME GlobInv, NEW p \in GPatterns, NEW s \in GStrings, GBegin(p, s)
    PROVE  GlobInv'
<1>1. p \in Seq(GItems) /\ s \in Seq(Chars)
  BY DEF GPatterns, GStrings, GItems, SeqOf
<1>2. /\ gpattern' = p /\ gstring' = s /\ gresult' = "none"
      /\ gpi' = 0 /\ gsi' = 0 /\ gstarPi' = -1 /\ gstarSi' = -1
  BY DEF GBegin, GlobInv, GTyped
<1>3. GTyped' /\ GlobExact'
  BY <1>1, <1>2 DEF GTyped, GlobExact
<1>4. Base' = 0 /\ SBase' = 0 /\ Starts' = {0}
  BY <1>2 DEF Base, SBase, Starts
<1>5. Len(p) \in Nat /\ Len(s) \in Nat
  BY <1>1, LenProperties
<1>6. Accepted(p, s) <=> Match(p, s, 0, 0)
  BY AcceptedIsMatch
<1>7. Round'
  BY <1>2, <1>4, <1>5, <1>6 DEF Round
<1> QED
  BY <1>3, <1>7 DEF GlobInv

\* The last star is the one just met: what the stars before it could do, it
\* can do as well.
LEMMA TakeStarKeeps ==
    ASSUME GlobInv, TakeStar
    PROVE  GlobInv'
<1>1. GTyped /\ Round /\ gresult = "none"
  BY DEF GlobInv, TakeStar, Matching
<1>2. /\ gpattern' = gpattern /\ gstring' = gstring /\ gresult' = gresult
      /\ gstarPi' = gpi /\ gstarSi' = gsi /\ gpi' = gpi + 1 /\ gsi' = gsi
      /\ gpi < Len(gpattern) /\ gpattern[gpi + 1] = Star
  BY DEF TakeStar, InPattern, Item
<1> DEFINE m(i, k) == Match(gpattern, gstring, i, k)
<1>3. /\ Len(gpattern) \in Nat /\ Len(gstring) \in Nat
      /\ Base \in 0 .. Len(gpattern) /\ gpi \in 0 .. Len(gpattern)
      /\ gsi \in 0 .. Len(gstring) /\ SBase + (gpi - Base) = gsi
      /\ m(gpi, gsi) => Accepted(gpattern, gstring)
      /\ \A k \in Starts : k \in Nat /\ SBase <= k /\ (m(Base, k) => m(gpi, k + (gpi - Base)))
  BY <1>1, RoundFacts
<1>4. /\ Base' = gpi + 1 /\ SBase' = gsi /\ Starts' = {k \in Nat : gsi <= k}
      /\ gpi \in 0 .. Len(gpattern) - 1 /\ gpi + 1 \in 0 .. Len(gpattern)
  BY <1>2, <1>3 DEF Base, SBase, Starts
<1>5. SBase \in Nat /\ (Accepted(gpattern, gstring) <=> \E k \in Starts : m(Base, k))
  BY <1>1 DEF Round
<1> HIDE DEF Base, SBase, Starts, m
<1>6. ASSUME Accepted(gpattern, gstring) PROVE \E k \in Starts' : m(gpi + 1, k)
  <2>1. PICK k \in Starts : m(Base, k)
    BY <1>5, <1>6
  <2> DEFINE j == k + (gpi - Base)
  <2>2. j \in Nat /\ gsi <= j /\ m(gpi, j)
    BY <1>3, <1>5, <2>1
  <2> HIDE DEF j
  <2>3. \E l \in Nat : j <= l /\ m(gpi + 1, l)
    BY <1>2, <1>3, <1>4, <2>2, StarEnds DEF m
  <2>4. PICK l \in Nat : j <= l /\ m(gpi + 1, l)
    BY <2>3
  <2>5. l \in Starts'
    BY <1>3, <1>4, <2>2, <2>4
  <2> QED
    BY <2>4, <2>5
<1>7. ASSUME NEW k \in Starts', m(gpi + 1, k) PROVE Accepted(gpattern, gstring)
  <2>1. k \in Nat /\ gsi <= k /\ gsi \in Nat
    BY <1>3, <1>4
  <2>2. m(gpi, gsi)
    BY <1>2, <1>3, <1>4, <1>7, <2>1, StarBegins DEF m
  <2> QED
    BY <1>3, <2>2
<1>8. Accepted(gpattern, gstring) <=> \E k \in Starts' : Match(gpattern, gstring, gpi + 1, k)
  BY <1>6, <1>7 DEF m
<1>9. gstarPi' \in Int /\ -1 <= gstarPi' /\ SBase' \in Nat
      /\ gpi' \in Base' .. Len(gpattern') /\ gsi' \in SBase' .. Len(gstring')
      /\ gpi' - Base' = gsi' - SBase' /\ ~(\E t : t \in Base' + 1 .. gpi')
  BY <1>2, <1>3, <1>4
<1>10. Round'
  BY <1>2, <1>4, <1>8, <1>9 DEF Round
<1>11. GTyped' /\ GlobExact'
  BY <1>1, <1>2 DEF GTyped, GlobExact
<1> QED
  BY <1>10, <1>11 DEF GlobInv

LEMMA TakeCharKeeps ==
    ASSUME GlobInv, TakeChar
    PROVE  GlobInv'
<1>1. GTyped /\ Round /\ gresult = "none"
  BY DEF GlobInv, TakeChar, Matching
<1>2. /\ gpattern' = gpattern /\ gstring' = gstring /\ gresult' = gresult
      /\ gstarPi' = gstarPi /\ gstarSi' = gstarSi /\ gpi' = gpi + 1 /\ gsi' = gsi + 1
      /\ gpi < Len(gpattern) /\ gsi < Len(gstring)
      /\ gpattern[gpi + 1] \notin {Star, Unclosed} /\ gstring[gsi + 1] \in gpattern[gpi + 1]
  BY DEF TakeChar, Advance, Accepts, InPattern, InString, Item
<1>3. /\ Len(gpattern) \in Nat /\ Len(gstring) \in Nat
      /\ Base \in 0 .. Len(gpattern) /\ gpi \in 0 .. Len(gpattern)
      /\ gsi \in 0 .. Len(gstring) /\ SBase + (gpi - Base) = gsi
  BY <1>1, RoundFacts
<1>4. Base' = Base /\ SBase' = SBase /\ Starts' = Starts
  BY <1>2 DEF Base, SBase, Starts
<1>5. /\ SBase \in Nat /\ gpi \in Base .. Len(gpattern) /\ gsi \in SBase .. Len(gstring)
      /\ \A t \in Base + 1 .. gpi :
          /\ gpattern[t] # Star
          /\ Fits(gpattern[t], gstring, SBase + (t - Base) - 1, SBase + (t - Base))
  BY <1>1 DEF Round
<1> HIDE DEF Base, SBase, Starts
<1>6. ASSUME NEW t \in Base + 1 .. gpi + 1
      PROVE  /\ gpattern[t] # Star
             /\ Fits(gpattern[t], gstring, SBase + (t - Base) - 1, SBase + (t - Base))
  <2>1. CASE t = gpi + 1
    <3>1. SBase + (t - Base) = gsi + 1 /\ SBase + (t - Base) - 1 = gsi
      BY <1>3, <1>5, <2>1
    <3>2. Fits(gpattern[t], gstring, gsi, gsi + 1) /\ gpattern[t] # Star
      BY <1>2, <2>1 DEF Fits
    <3> QED
      BY <3>1, <3>2
  <2>2. CASE t # gpi + 1
    <3>1. t \in Base + 1 .. gpi
      BY <1>3, <2>2
    <3> QED
      BY <1>5, <3>1
  <2> QED
    BY <2>1, <2>2
<1>7. gpi' \in Base .. Len(gpattern) /\ gsi' \in SBase .. Len(gstring)
      /\ gpi' - Base = gsi' - SBase
  BY <1>2, <1>3, <1>5
<1>8. Round'
  BY <1>1, <1>2, <1>4, <1>6, <1>7 DEF Round
<1>9. GTyped' /\ GlobExact'
  BY <1>1, <1>2 DEF GTyped, GlobExact
<1> QED
  BY <1>8, <1>9 DEF GlobInv

\* Stuck: nothing matches from here.
LEMMA StuckFails ==
    ASSUME GTyped, Round, Stuck
    PROVE  /\ gsi < Len(gstring)
           /\ \A k \in Starts : Match(gpattern, gstring, Base, k) => k # SBase
<1>1. /\ Len(gpattern) \in Nat /\ Len(gstring) \in Nat
      /\ gpi \in 0 .. Len(gpattern)
      /\ gsi \in 0 .. Len(gstring) /\ SBase + (gpi - Base) = gsi
      /\ \A k \in Starts : Match(gpattern, gstring, Base, k)
                             => Match(gpattern, gstring, gpi, k + (gpi - Base))
  BY RoundFacts
<1>2. /\ gsi < Len(gstring)
      /\ gpi < Len(gpattern) => gpattern[gpi + 1] \notin {Star, Unclosed}
      /\ ~(gpi < Len(gpattern) /\ gpattern[gpi + 1] \notin {Star, Unclosed}
             /\ gstring[gsi + 1] \in gpattern[gpi + 1])
  BY DEF Stuck, Accepts, InString, InPattern, Item
<1>3. ~Match(gpattern, gstring, gpi, gsi)
  <2> SUFFICES ASSUME Match(gpattern, gstring, gpi, gsi) PROVE FALSE
    OBVIOUS
  <2>1. gsi \in 0 .. Len(gstring) - 1
    BY <1>1, <1>2
  <2>2. gpi < Len(gpattern) /\ Fits(gpattern[gpi + 1], gstring, gsi, gsi + 1)
    BY <1>1, <1>2, <2>1, MatchNext
  <2> QED
    BY <1>2, <2>2 DEF Fits
<1> QED
  BY <1>1, <1>2, <1>3

LEMMA GoBackKeeps ==
    ASSUME GlobInv, GoBack
    PROVE  GlobInv'
<1>1. GTyped /\ Round /\ gresult = "none" /\ Stuck
  BY DEF GlobInv, GoBack, Stuck, Matching
<1>2. /\ gpattern' = gpattern /\ gstring' = gstring /\ gresult' = gresult
      /\ gstarPi' = gstarPi /\ gstarPi >= 0 /\ gstarSi' = gstarSi + 1
      /\ gpi' = gstarPi + 1 /\ gsi' = gstarSi + 1
  BY DEF GoBack
<1>3. /\ Len(gpattern) \in Nat /\ Len(gstring) \in Nat /\ Base \in 0 .. Len(gpattern)
      /\ \A k \in Starts : k \in Nat /\ SBase <= k
  BY <1>1, RoundFacts
<1>4. /\ gstarPi \in Int /\ SBase \in Nat /\ gsi \in SBase .. Len(gstring)
      /\ Accepted(gpattern, gstring) <=> \E k \in Starts : Match(gpattern, gstring, Base, k)
  BY <1>1 DEF Round
<1>5. /\ SBase = gstarSi /\ Starts = {k \in Nat : gstarSi <= k}
      /\ Base' = Base /\ SBase' = gstarSi + 1 /\ Starts' = {k \in Nat : gstarSi + 1 <= k}
      /\ gpi' = Base
  BY <1>2, <1>4 DEF Base, SBase, Starts
<1>6. gsi < Len(gstring)
      /\ \A k \in Starts : Match(gpattern, gstring, Base, k) => k # SBase
  BY <1>1, StuckFails
<1> HIDE DEF Base, SBase, Starts
<1>7. \A k \in Nat : k \in Starts' <=> k \in Starts /\ k # SBase
  BY <1>4, <1>5
<1>8. Accepted(gpattern, gstring) <=> \E k \in Starts' : Match(gpattern, gstring, Base, k)
  BY <1>3, <1>4, <1>5, <1>6, <1>7
<1>9. /\ SBase' \in Nat /\ gpi' \in Base' .. Len(gpattern')
      /\ gsi' \in SBase' .. Len(gstring') /\ gpi' - Base' = gsi' - SBase'
      /\ ~(\E t : t \in Base' + 1 .. gpi')
  BY <1>2, <1>3, <1>4, <1>5, <1>6
<1>10. Round'
  BY <1>1, <1>2, <1>5, <1>8, <1>9 DEF Round
<1>11. GTyped' /\ GlobExact'
  BY <1>1, <1>2 DEF GTyped, GlobExact
<1> QED
  BY <1>10, <1>11 DEF GlobInv

\* The verdicts.
LEMMA DecisionKeeps ==
    ASSUME GlobInv, NEW r \in {"yes", "no"}, Decide(r),
           r = "yes" <=> Accepted(gpattern, gstring)
    PROVE  GlobInv'
<1>1. gpattern' = gpattern /\ gstring' = gstring /\ gresult' = r
  BY DEF Decide
<1> QED
  BY <1>1 DEF GlobInv, GTyped, GlobExact

LEMMA MeetUnclosedKeeps ==
    ASSUME GlobInv, MeetUnclosed
    PROVE  GlobInv'
<1>1. GTyped /\ Round /\ gpi < Len(gpattern) /\ gpattern[gpi + 1] = Unclosed /\ Decide("no")
  BY DEF GlobInv, MeetUnclosed, Matching, InPattern, Item
<1>2. Len(gpattern) \in Nat /\ gpi \in 0 .. Len(gpattern)
  BY <1>1, RoundFacts
<1>3. gpi + 1 \in 0 + 1 .. Len(gpattern)
  BY <1>1, <1>2
<1>4. ~Accepted(gpattern, gstring)
  BY <1>1, <1>3, NoUnclosed, AcceptedIsMatch
<1> QED
  BY <1>1, <1>4, DecisionKeeps

LEMMA GiveUpKeeps ==
    ASSUME GlobInv, GiveUp
    PROVE  GlobInv'
<1>1. GTyped /\ Round /\ Stuck /\ gstarPi < 0 /\ Decide("no")
  BY DEF GlobInv, GiveUp, Stuck, Matching
<1>2. \A k \in Starts : k = SBase
  BY <1>1 DEF Starts, SBase
<1>3. \A k \in Starts : ~Match(gpattern, gstring, Base, k)
  BY <1>1, <1>2, StuckFails
<1>4. ~Accepted(gpattern, gstring)
  BY <1>1, <1>3 DEF Round
<1> QED
  BY <1>1, <1>4, DecisionKeeps

LEMMA GEndKeeps ==
    ASSUME GlobInv, GEnd
    PROVE  GlobInv'
<1> DEFINE rest == \A i \in gpi + 1 .. Len(gpattern) : gpattern[i] = Star
<1>1. GTyped /\ Round /\ ~(gsi < Len(gstring)) /\ Decide(IF rest THEN "yes" ELSE "no")
  BY DEF GlobInv, GEnd, Matching, InString
<1>2. /\ Len(gpattern) \in Nat /\ Len(gstring) \in Nat
      /\ Base \in 0 .. Len(gpattern) /\ gpi \in 0 .. Len(gpattern)
      /\ gsi \in 0 .. Len(gstring) /\ SBase + (gpi - Base) = gsi
      /\ Match(gpattern, gstring, gpi, gsi) => Accepted(gpattern, gstring)
      /\ \A k \in Starts :
            /\ k \in Nat /\ SBase <= k
            /\ Match(gpattern, gstring, Base, k)
                 => Match(gpattern, gstring, gpi, k + (gpi - Base))
  BY <1>1, RoundFacts
<1>3. gsi = Len(gstring)
  BY <1>1, <1>2
<1>4. /\ Match(gpattern, gstring, gpi, gsi) <=> rest
      /\ SBase \in Nat
      /\ Accepted(gpattern, gstring) <=> \E k \in Starts : Match(gpattern, gstring, Base, k)
  BY <1>1, <1>2, <1>3, MatchAtEnd DEF Round
<1> HIDE DEF Base, SBase, Starts, rest
<1>5. ASSUME NEW k \in Starts, Match(gpattern, gstring, Base, k) PROVE rest
  <2>1. Match(gpattern, gstring, gpi, k + (gpi - Base))
    BY <1>2, <1>5
  <2>2. k + (gpi - Base) \in 0 .. Len(gstring)
    BY <1>2, <2>1, MatchInside
  <2>3. k + (gpi - Base) = gsi
    BY <1>2, <1>3, <1>4, <2>2
  <2> QED
    BY <1>4, <2>1, <2>3
<1>6. rest <=> Accepted(gpattern, gstring)
  BY <1>2, <1>4, <1>5
<1>7. CASE rest
  BY <1>1, <1>6, <1>7, DecisionKeeps
<1>8. CASE ~rest
  BY <1>1, <1>6, <1>8, DecisionKeeps
<1> QED
  BY <1>7, <1>8

LEMMA GReturnKeeps ==
    ASSUME GlobInv, GReturn
    PROVE  GlobInv'
<1>1. <<>> \in Seq(GItems) /\ <<>> \in Seq(Chars)
  BY EmptySeq
<1> QED
  BY <1>1 DEF GReturn, GlobInv, GTyped, GlobExact

LEMMA GNextKeeps == GlobInv /\ [GNext]_gvars => GlobInv'
<1> SUFFICES ASSUME GlobInv, [GNext]_gvars PROVE GlobInv'
  OBVIOUS
<1>1. CASE UNCHANGED gvars
  BY <1>1 DEF gvars, GlobInv, GTyped, Round, GlobExact, Base, SBase, Starts
<1>2. CASE GNext
  BY <1>2, GBeginKeeps, GReturnKeeps, TakeStarKeeps, MeetUnclosedKeeps, TakeCharKeeps,
     GoBackKeeps, GiveUpKeeps, GEndKeeps DEF GNext
<1> QED
  BY <1>1, <1>2

\* For patterns and strings of any characters: globMatch accepts exactly the
\* strings that some way of filling the stars makes, although it goes back to
\* the last star only (glob.js:3-84).
THEOREM GlobIsExact == GSpec => []GlobExact
<1>1. GlobInv => GlobExact
  BY DEF GlobInv
<1> QED
  BY <1>1, GlobInvInit, GNextKeeps, PTL DEF GSpec
=============================================================================
