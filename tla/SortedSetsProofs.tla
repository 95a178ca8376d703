-------------------------- MODULE SortedSetsProofs -------------------------
(***************************************************************************)
(* Proofs about module SortedSets, for any names, scores, options and      *)
(* numbers of arguments.  The Map and the array stay in step because each  *)
(* of them changes at the same name; the array stays sorted because the    *)
(* bisection keeps everything before lo ahead of the new entry and nothing *)
(* from hi on, which asks of Precedes that it be a strict weak order: it   *)
(* is one as long as no score is NotANumber.                               *)
(***************************************************************************)
EXTENDS SortedSets, FiniteSetTheorems, FunctionTheorems, SequenceTheorems, WellFoundedInduction, TLAPS

\* Sequences with an element taken out or put in.
LEMMA RemovedAt ==
    ASSUME NEW S, NEW s \in Seq(S), NEW p \in 1 .. Len(s)
    PROVE  LET r == RemoveAt(s, p)
           IN  /\ r \in Seq(S)
               /\ Len(r) = Len(s) - 1
               /\ \A i \in 1 .. Len(r) : r[i] = IF i < p THEN s[i] ELSE s[i + 1]
<1> DEFINE a == SubSeq(s, 1, p - 1)
           b == SubSeq(s, p + 1, Len(s))
<1>1. Len(s) \in Nat /\ p \in Nat
  BY LenProperties
<1>2. a \in Seq(S) /\ Len(a) = p - 1 /\ \A i \in 1 .. p - 1 : a[i] = s[i]
  <2>1. CASE p = 1
    BY <2>1, <1>1, SubSeqEmpty, SubSeqProperties
  <2>2. CASE p > 1
    BY <2>2, <1>1, SubSeqProperties
  <2>3. QED BY <2>1, <2>2, <1>1
<1>3. /\ b \in Seq(S) /\ Len(b) = Len(s) - p
      /\ \A i \in 1 .. Len(s) - p : b[i] = s[p + i]
  <2>1. CASE p = Len(s)
    BY <2>1, <1>1, SubSeqEmpty, SubSeqProperties
  <2>2. CASE p < Len(s)
    BY <2>2, <1>1, SubSeqProperties
  <2>3. QED BY <2>1, <2>2, <1>1
<1>4. RemoveAt(s, p) = a \o b
  BY DEF RemoveAt
<1> HIDE DEF a, b
<1> DEFINE r == a \o b
<1>5. /\ r \in Seq(S) /\ Len(r) = Len(s) - 1
      /\ \A i \in 1 .. Len(s) - 1 : r[i] = IF i <= p - 1 THEN a[i] ELSE b[i - (p - 1)]
  <2>1. /\ a \o b \in Seq(S)
        /\ Len(a \o b) = Len(a) + Len(b)
        /\ \A i \in 1 .. Len(a) + Len(b) :
              (a \o b)[i] = IF i <= Len(a) THEN a[i] ELSE b[i - Len(a)]
    BY <1>2, <1>3, ConcatProperties
  <2>2. Len(a) + Len(b) = Len(s) - 1
    BY <1>1, <1>2, <1>3
  <2>3. QED BY <2>1, <2>2, <1>2 DEF r
<1> HIDE DEF r
<1>6. ASSUME NEW i \in 1 .. Len(s) - 1
      PROVE  r[i] = IF i < p THEN s[i] ELSE s[i + 1]
  <2>1. CASE i < p
    BY <2>1, <1>1, <1>2, <1>5
  <2>2. CASE i >= p
    BY <2>2, <1>1, <1>3, <1>5
  <2>3. QED BY <2>1, <2>2, <1>1
<1>7. RemoveAt(s, p) = r
  BY <1>4 DEF r
<1>8. QED BY <1>5, <1>6, <1>7

LEMMA InsertedAt ==
    ASSUME NEW S, NEW s \in Seq(S), NEW e \in S, NEW p \in 1 .. Len(s) + 1
    PROVE  LET r == InsertAt(s, p, e)
           IN  /\ r \in Seq(S)
               /\ Len(r) = Len(s) + 1
               /\ \A i \in 1 .. Len(r) :
                     r[i] = IF i < p THEN s[i] ELSE IF i = p THEN e ELSE s[i - 1]
<1> DEFINE a == SubSeq(s, 1, p - 1)
           b == SubSeq(s, p, Len(s))
<1>1. Len(s) \in Nat /\ p \in Nat
  BY LenProperties
<1>2. a \in Seq(S) /\ Len(a) = p - 1 /\ \A i \in 1 .. p - 1 : a[i] = s[i]
  <2>1. CASE p = 1
    BY <2>1, <1>1, SubSeqEmpty, SubSeqProperties
  <2>2. CASE p > 1
    BY <2>2, <1>1, SubSeqProperties
  <2>3. QED BY <2>1, <2>2, <1>1
<1>3. /\ b \in Seq(S) /\ Len(b) = Len(s) + 1 - p
      /\ \A i \in 1 .. Len(s) + 1 - p : b[i] = s[p + i - 1]
  <2>1. CASE p = Len(s) + 1
    BY <2>1, <1>1, SubSeqEmpty, SubSeqProperties
  <2>2. CASE p <= Len(s)
    BY <2>2, <1>1, SubSeqProperties
  <2>3. QED BY <2>1, <2>2, <1>1
<1> HIDE DEF a
<1>4. /\ <<e>> \in Seq(S) /\ Len(<<e>>) = 1 /\ <<e>>[1] = e
  OBVIOUS
<1>5. /\ a \o <<e>> \in Seq(S) /\ Len(a \o <<e>>) = p
      /\ \A i \in 1 .. p : (a \o <<e>>)[i] = IF i <= p - 1 THEN a[i] ELSE <<e>>[i - (p - 1)]
  BY <1>1, <1>2, <1>4, ConcatProperties
<1> DEFINE c == a \o <<e>>
           r == c \o b
<1>6. InsertAt(s, p, e) = r
  BY DEF InsertAt, a
<1> HIDE DEF b, c, r
<1>7. c \in Seq(S) /\ Len(c) = p
  BY <1>5 DEF c
<1>8. \A i \in 1 .. p : c[i] = IF i < p THEN s[i] ELSE e
  <2>1. ASSUME NEW i \in 1 .. p - 1 PROVE c[i] = s[i]
    BY <1>1, <1>2, <1>5 DEF c
  <2>2. c[p] = e
    BY <1>1, <1>4, <1>5 DEF c
  <2>3. QED BY <2>1, <2>2, <1>1
<1>9. /\ r \in Seq(S) /\ Len(r) = Len(s) + 1
      /\ \A i \in 1 .. Len(s) + 1 : r[i] = IF i <= p THEN c[i] ELSE b[i - p]
  <2>1. /\ c \o b \in Seq(S)
        /\ Len(c \o b) = Len(c) + Len(b)
        /\ \A i \in 1 .. Len(c) + Len(b) :
              (c \o b)[i] = IF i <= Len(c) THEN c[i] ELSE b[i - Len(c)]
    BY <1>3, <1>7, ConcatProperties
  <2>2. Len(c) + Len(b) = Len(s) + 1
    BY <1>1, <1>3, <1>7
  <2>3. QED BY <2>1, <2>2, <1>7 DEF r
<1>10. ASSUME NEW i \in 1 .. Len(s) + 1
       PROVE  r[i] = IF i < p THEN s[i] ELSE IF i = p THEN e ELSE s[i - 1]
  <2>1. CASE i < p
    BY <2>1, <1>1, <1>8, <1>9
  <2>2. CASE i = p
    BY <2>2, <1>1, <1>8, <1>9
  <2>3. CASE i > p
    <3>1. r[i] = b[i - p]
      BY <2>3, <1>1, <1>9
    <3>2. i - p \in 1 .. Len(s) + 1 - p /\ p + (i - p) - 1 = i - 1
      BY <2>3, <1>1
    <3>3. b[i - p] = s[p + (i - p) - 1]
      BY <3>2, <1>3
    <3>4. QED BY <3>1, <3>2, <3>3, <2>3
  <2>4. QED BY <2>1, <2>2, <2>3, <1>1
<1>11. QED BY <1>6, <1>9, <1>10

-----------------------------------------------------------------------------
LEMMA ScoreFacts ==
    /\ Numbers \subseteq Int /\ Scores \subseteq Int
    /\ Scores = Numbers \cup {NotANumber}
    /\ NotANumber \notin Numbers /\ NoScore \notin Scores /\ NoScore \in Int
    /\ ZGiven \subseteq Numbers
    /\ -Infinity \in Numbers /\ Infinity \in Numbers /\ -Infinity # Infinity
BY SortedSetParameters DEF Numbers, Scores, NotANumber, NoScore

LEMMA FloatSumIsScore ==
    ASSUME NEW a \in Scores, NEW b \in Scores
    PROVE  FloatSum(a, b) \in Scores
BY SortedSetParameters DEF FloatSum, Numbers, Scores, NotANumber

LEMMA NoEntryIsNone == NoEntry \notin Entries
<1>1. -1 \notin ZNames
  BY SortedSetParameters
<1>2. NoEntry.member = -1 /\ \A e \in Entries : e.member \in ZNames
  BY DEF NoEntry, Entries
<1>3. QED BY <1>1, <1>2

\* Without NotANumber, Precedes is a strict weak order.
LEMMA PrecedesOrders ==
    ASSUME NEW d \in Entries, NEW e \in Entries, NEW f \in Entries,
           NotANumber \notin {d.score, e.score, f.score}
    PROVE  /\ ~(Precedes(d, e) /\ Precedes(e, d))
           /\ Precedes(d, f) => Precedes(d, e) \/ Precedes(e, f)
<1>1. \A g \in Entries : g.score \in Scores /\ g.member \in ZNames
  BY DEF Entries
<1>2. Scores \subseteq Int /\ ZNames \subseteq Int
  BY ScoreFacts, SortedSetParameters
<1>3. \A g \in Entries : g.score \in Int /\ g.member \in Int
  BY <1>1, <1>2
<1>4. QED BY <1>3 DEF Precedes

-----------------------------------------------------------------------------
\* A search belongs to a command, and between lo and hi lies its place.
SearchOK ==
    zentry # NoEntry =>
        /\ zcmd.kind \in {"zadd", "zincrby"}
        /\ zlo <= zhi /\ zhi <= Len(zsorted)

\* What the bisection has found out so far.
SearchExact ==
    ~znan /\ zentry # NoEntry =>
        /\ \A i \in 1 .. zlo : Precedes(zsorted[i], zentry)
        /\ \A i \in zhi + 1 .. Len(zsorted) : ~Precedes(zsorted[i], zentry)

\* znan remembers every NotANumber.
NaNIsKnown == ~znan => \A m \in ZNames : zmembers[m] # NotANumber

\* ZADD writes numbers only.
NaNIsOld ==
    zcmd.kind = "zadd" =>
        \A m \in ZNames : zmembers[m] = NotANumber => zold[m] = NotANumber

ZInv == /\ ZTypeOK /\ IndexExact /\ SearchOK
        /\ SortedUnlessNaN /\ SearchExact /\ NaNIsKnown
        /\ OptionsHonoured /\ NaNIsOld

LEMMA ZInvInit == ZInit => ZInv
<1> SUFFICES ASSUME ZInit PROVE ZInv
  OBVIOUS
<1> USE DEF ZInit
<1>1. NoMembers \in [ZNames -> Scores \cup {NoScore}]
  BY DEF NoMembers
<1>2. <<>> \in Seq(Entries) /\ Len(<<>>) = 0
  BY EmptySeq
<1>3. ZTypeOK
  <2>1. 0 \in 0 .. ZMaxArgs /\ 0 \in Nat
    BY SortedSetParameters
  <2>2. zcmd \in [kind : {"none", "zadd", "zincrby", "zrem"},
                  flags : ZFlags \cup {{}}, left : 0 .. ZMaxArgs]
    BY <2>1 DEF Idle
  <2>3. QED BY <1>1, <1>2, <2>1, <2>2 DEF ZTypeOK
<1>4. IndexExact
  BY <1>2 DEF IndexExact, Has, NoMembers
<1>5. SearchOK /\ SearchExact
  BY DEF SearchOK, SearchExact
<1>6. SortedUnlessNaN
  BY <1>2 DEF SortedUnlessNaN
<1>7. NaNIsKnown
  BY ScoreFacts DEF NaNIsKnown, NoMembers
<1>8. OptionsHonoured /\ NaNIsOld
  BY DEF OptionsHonoured, NaNIsOld, Idle
<1>9. QED BY <1>3, <1>4, <1>5, <1>6, <1>7, <1>8 DEF ZInv

\* The scores in the array are those of the Map, so without NotANumber there
\* none is here either.
LEMMA EntriesAreNumbers ==
    ASSUME ZInv, ~znan
    PROVE  /\ \A i \in 1 .. Len(zsorted) :
                 zsorted[i] \in Entries /\ zsorted[i].score # NotANumber
           /\ zentry # NoEntry => zentry \in Entries /\ zentry.score # NotANumber
<1>1. zsorted \in Seq(Entries) /\ zentry \in Entries \cup {NoEntry}
  BY DEF ZInv, ZTypeOK
<1>2. \A i \in 1 .. Len(zsorted) : zsorted[i] \in Entries
  BY <1>1, ElementOfSeq
<1>3. \A e \in Entries : e.member \in ZNames
  BY DEF Entries
<1>4. ASSUME NEW i \in 1 .. Len(zsorted) PROVE zsorted[i].score # NotANumber
  BY <1>2, <1>3 DEF ZInv, IndexExact, NaNIsKnown
<1>5. zentry # NoEntry => zentry \in Entries /\ zentry.score # NotANumber
  <2>1. SUFFICES ASSUME zentry # NoEntry PROVE zentry.score # NotANumber
    BY <1>1
  <2>2. zentry.member \in ZNames
    BY <2>1, <1>1, <1>3
  <2>3. zentry.score = zmembers[zentry.member]
    BY <2>1 DEF ZInv, IndexExact, EntryOf
  <2>4. QED BY <2>2, <2>3 DEF ZInv, NaNIsKnown
<1>6. QED BY <1>2, <1>4, <1>5

-----------------------------------------------------------------------------
\* Taking the entry of a member out of the array leaves the others, in order.
LEMMA WithoutOthers ==
    ASSUME ZInv, zentry = NoEntry, NEW m \in ZNames, Has(m)
    PROVE  LET r == Without(m)
           IN  /\ r \in Seq(Entries)
               /\ \A i \in 1 .. Len(r) : r[i].member # m
               /\ \A i \in 1 .. Len(r) : \E k \in 1 .. Len(zsorted) : r[i] = zsorted[k]
               /\ \A i, j \in 1 .. Len(r) : i < j =>
                     \E k, l \in 1 .. Len(zsorted) :
                        k < l /\ r[i] = zsorted[k] /\ r[j] = zsorted[l]
               /\ \A k \in 1 .. Len(zsorted) :
                     zsorted[k].member # m => \E i \in 1 .. Len(r) : r[i] = zsorted[k]
<1> DEFINE r == Without(m)
           q == Place(m)
<1>1. zsorted \in Seq(Entries) /\ Len(zsorted) \in Nat
  BY LenProperties DEF ZInv, ZTypeOK
<1>2. q \in 1 .. Len(zsorted) /\ zsorted[q].member = m
  <2>1. NoEntry.member # m
    BY SortedSetParameters DEF NoEntry
  <2>2. \E k \in 1 .. Len(zsorted) : zsorted[k].member = m
    BY <2>1 DEF ZInv, IndexExact, Holds
  <2>3. QED BY <2>2 DEF Place
<1>3. r = RemoveAt(zsorted, q)
  BY DEF Without
<1> HIDE DEF q
<1>4. /\ r \in Seq(Entries) /\ Len(r) = Len(zsorted) - 1
      /\ \A i \in 1 .. Len(r) : r[i] = IF i < q THEN zsorted[i] ELSE zsorted[i + 1]
  BY <1>1, <1>2, <1>3, RemovedAt
<1> HIDE DEF r
<1> DEFINE from(i) == IF i < q THEN i ELSE i + 1
<1>5. ASSUME NEW i \in 1 .. Len(r)
      PROVE  from(i) \in 1 .. Len(zsorted) /\ from(i) # q /\ r[i] = zsorted[from(i)]
  BY <1>1, <1>2, <1>4
<1>6. \A i, j \in 1 .. Len(r) : i < j => from(i) < from(j)
  BY <1>1, <1>2, <1>4
<1>7. ASSUME NEW k \in 1 .. Len(zsorted), zsorted[k].member # m
      PROVE  \E i \in 1 .. Len(r) : r[i] = zsorted[k]
  <2>1. CASE k < q
    BY <2>1, <1>1, <1>2, <1>4
  <2>2. CASE k > q
    <3>1. k - 1 \in 1 .. Len(r) /\ ~(k - 1 < q) /\ (k - 1) + 1 = k
      BY <2>2, <1>1, <1>2, <1>4
    <3>2. r[k - 1] = zsorted[k]
      BY <3>1, <1>4
    <3>3. QED BY <3>1, <3>2
  <2>3. QED BY <2>1, <2>2, <1>2, <1>7, <1>1
<1> HIDE DEF from
<1>8. \A i \in 1 .. Len(r) : r[i].member # m
  <2>1. \A k \in 1 .. Len(zsorted) : zsorted[k].member = m => k = q
    BY <1>2 DEF ZInv, IndexExact
  <2>2. QED BY <2>1, <1>5
<1>9. \A i, j \in 1 .. Len(r) : i < j =>
         \E k, l \in 1 .. Len(zsorted) :
            k < l /\ r[i] = zsorted[k] /\ r[j] = zsorted[l]
  BY <1>5, <1>6
<1>10. QED BY <1>4, <1>5, <1>7, <1>8, <1>9 DEF r

\* What the array without m keeps: its entries are those of the Map but for
\* m, each once and in order.
LEMMA WithoutKeeps ==
    ASSUME ZInv, zentry = NoEntry, NEW m \in ZNames, Has(m)
    PROVE  LET r == Without(m)
           IN  /\ r \in Seq(Entries)
               /\ \A i \in 1 .. Len(r) :
                     /\ r[i].member # m /\ Has(r[i].member)
                     /\ zmembers[r[i].member] = r[i].score
               /\ \A i, j \in 1 .. Len(r) : r[i].member = r[j].member => i = j
               /\ \A n \in ZNames : Has(n) /\ n # m =>
                     \E i \in 1 .. Len(r) : r[i].member = n
               /\ ~znan => \A i, j \in 1 .. Len(r) : i < j => ~Precedes(r[j], r[i])
<1> DEFINE r == Without(m)
<1> HIDE DEF r
<1>1. /\ r \in Seq(Entries)
      /\ \A i \in 1 .. Len(r) : r[i].member # m
      /\ \A i \in 1 .. Len(r) : \E k \in 1 .. Len(zsorted) : r[i] = zsorted[k]
      /\ \A i, j \in 1 .. Len(r) : i < j =>
            \E k, l \in 1 .. Len(zsorted) :
               k < l /\ r[i] = zsorted[k] /\ r[j] = zsorted[l]
      /\ \A k \in 1 .. Len(zsorted) :
            zsorted[k].member # m => \E i \in 1 .. Len(r) : r[i] = zsorted[k]
  BY WithoutOthers DEF r
<1>2. Len(r) \in Nat /\ Len(zsorted) \in Nat
  BY <1>1, LenProperties DEF ZInv, ZTypeOK
<1>3. \A i \in 1 .. Len(r) : Has(r[i].member) /\ zmembers[r[i].member] = r[i].score
  BY <1>1 DEF ZInv, IndexExact
<1>4. ASSUME NEW i \in 1 .. Len(r), NEW j \in 1 .. Len(r), i < j
      PROVE  r[i].member # r[j].member /\ (~znan => ~Precedes(r[j], r[i]))
  <2>1. PICK k \in 1 .. Len(zsorted), l \in 1 .. Len(zsorted) :
           k < l /\ r[i] = zsorted[k] /\ r[j] = zsorted[l]
    BY <1>1, <1>4
  <2>2. k # l
    BY <2>1, <1>2
  <2>3. zsorted[k].member # zsorted[l].member
    BY <2>2 DEF ZInv, IndexExact
  <2>4. ~znan => ~Precedes(zsorted[l], zsorted[k])
    BY <2>1 DEF ZInv, SortedUnlessNaN
  <2>5. QED BY <2>1, <2>3, <2>4
<1>5. \A i, j \in 1 .. Len(r) : r[i].member = r[j].member => i = j
  BY <1>2, <1>4
<1>6. ASSUME NEW n \in ZNames, Has(n), n # m
      PROVE  \E i \in 1 .. Len(r) : r[i].member = n
  <2>1. NoEntry.member # n
    BY SortedSetParameters DEF NoEntry
  <2>2. PICK k \in 1 .. Len(zsorted) : zsorted[k].member = n
    BY <2>1, <1>6 DEF ZInv, IndexExact, Holds
  <2>3. \E i \in 1 .. Len(r) : r[i] = zsorted[k]
    BY <1>1, <1>6, <2>2
  <2>4. QED BY <2>2, <2>3
<1>7. ~znan => \A i, j \in 1 .. Len(r) : i < j => ~Precedes(r[j], r[i])
  BY <1>4
<1>8. QED BY <1>1, <1>3, <1>5, <1>6, <1>7 DEF r

\* A new score in the Map, the old entry out of the array, a search begun.
LEMMA AssignKeeps ==
    ASSUME ZInv, zentry = NoEntry, NEW m \in ZNames, NEW s \in Scores, Assign(m, s),
           ~znan' => ~znan /\ s # NotANumber,
           zcmd'.kind \in {"zadd", "zincrby"}
    PROVE  /\ zmembers' \in [ZNames -> Scores \cup {NoScore}]
           /\ zsorted' \in Seq(Entries) /\ zentry' \in Entries
           /\ zlo' \in Nat /\ zhi' \in Nat
           /\ IndexExact' /\ SearchOK' /\ SearchExact'
           /\ SortedUnlessNaN' /\ NaNIsKnown'
<1>1. /\ zmembers' = [zmembers EXCEPT ![m] = s]
      /\ zsorted' = IF Has(m) THEN Without(m) ELSE zsorted
      /\ zentry' = [member |-> m, score |-> s]
      /\ zlo' = 0 /\ zhi' = Len(zsorted')
  BY DEF Assign
<1>2. zmembers \in [ZNames -> Scores \cup {NoScore}] /\ zsorted \in Seq(Entries)
  BY DEF ZInv, ZTypeOK
<1>3. /\ zsorted' \in Seq(Entries)
      /\ \A i \in 1 .. Len(zsorted') :
            /\ zsorted'[i].member # m /\ Has(zsorted'[i].member)
            /\ zmembers[zsorted'[i].member] = zsorted'[i].score
      /\ \A i, j \in 1 .. Len(zsorted') :
            zsorted'[i].member = zsorted'[j].member => i = j
      /\ \A n \in ZNames : Has(n) /\ n # m =>
            \E i \in 1 .. Len(zsorted') : zsorted'[i].member = n
      /\ ~znan => \A i, j \in 1 .. Len(zsorted') :
            i < j => ~Precedes(zsorted'[j], zsorted'[i])
  <2>1. CASE Has(m)
    BY <2>1, <1>1, WithoutKeeps
  <2>2. CASE ~Has(m)
    <3>1. zsorted' = zsorted
      BY <2>2, <1>1
    <3>2. \A n \in ZNames : NoEntry.member # n
      BY SortedSetParameters DEF NoEntry
    <3>3. QED BY <2>2, <3>1, <3>2, <1>2 DEF ZInv, IndexExact, SortedUnlessNaN, Holds
  <2>3. QED BY <2>1, <2>2
<1>4. Len(zsorted') \in Nat
  BY <1>3, LenProperties
<1>5. \A i \in 1 .. Len(zsorted') : zsorted'[i].member \in ZNames
  <2>1. \A i \in 1 .. Len(zsorted') : zsorted'[i] \in Entries
    BY <1>3, ElementOfSeq
  <2>2. \A e \in Entries : e.member \in ZNames
    BY DEF Entries
  <2>3. QED BY <2>1, <2>2
<1>6. zentry' \in Entries /\ zentry'.member = m /\ zentry'.score = s
  BY <1>1 DEF Entries
<1>7. /\ zmembers' \in [ZNames -> Scores \cup {NoScore}]
      /\ zmembers'[m] = s /\ s # NoScore
      /\ \A n \in ZNames : n # m => zmembers'[n] = zmembers[n]
  BY <1>1, <1>2, ScoreFacts
<1>8. IndexExact'
  <2>1. \A i \in 1 .. Len(zsorted') :
           /\ zmembers'[zsorted'[i].member] # NoScore
           /\ zmembers'[zsorted'[i].member] = zsorted'[i].score
    BY <1>3, <1>5, <1>7 DEF Has
  <2>2. \A n \in ZNames : Has(n)' => (Holds(n)' <=> zentry'.member # n)
    <3>1. \A n \in ZNames : Has(n)' /\ n # m => Has(n)
      BY <1>7 DEF Has
    <3>2. QED BY <3>1, <1>3, <1>6 DEF Holds
  <2>3. /\ zmembers'[zentry'.member] # NoScore
        /\ zentry' = [member |-> zentry'.member, score |-> zmembers'[zentry'.member]]
    BY <1>1, <1>6, <1>7
  <2>4. (\A i \in 1 .. Len(zsorted) :
            Has(zsorted[i].member) /\ zmembers[zsorted[i].member] = zsorted[i].score)'
    BY <2>1 DEF Has
  <2>5. (zentry # NoEntry => Has(zentry.member) /\ zentry = EntryOf(zentry.member))'
    BY <2>3 DEF Has, EntryOf
  <2>6. QED BY <2>2, <2>4, <2>5, <1>3 DEF IndexExact
<1>9. SearchOK' /\ SearchExact'
  BY <1>1, <1>4 DEF SearchOK, SearchExact
<1>10. SortedUnlessNaN'
  BY <1>3 DEF SortedUnlessNaN
<1>11. NaNIsKnown'
  BY <1>7 DEF NaNIsKnown, ZInv
<1>12. QED BY <1>1, <1>3, <1>4, <1>6, <1>7, <1>8, <1>9, <1>10, <1>11

\* The object is not touched, and no search goes on.
LEMMA SameObjectKeeps ==
    ASSUME ZInv, zentry = NoEntry,
           UNCHANGED <<zmembers, zsorted, zentry, zlo, zhi, znan>>
    PROVE  /\ IndexExact' /\ SearchOK' /\ SearchExact'
           /\ SortedUnlessNaN' /\ NaNIsKnown'
<1>1. IndexExact'
  BY DEF ZInv, IndexExact, Has, Holds, EntryOf
<1>2. SearchOK' /\ SearchExact' /\ SortedUnlessNaN' /\ NaNIsKnown'
  BY DEF ZInv, SearchOK, SearchExact, SortedUnlessNaN, NaNIsKnown
<1>3. QED BY <1>1, <1>2

\* The object is gone.
LEMMA NoObjectKeeps ==
    ASSUME zmembers' = NoMembers, zsorted' = <<>>, zentry' = NoEntry, znan' = FALSE
    PROVE  /\ IndexExact' /\ SearchOK' /\ SearchExact'
           /\ SortedUnlessNaN' /\ NaNIsKnown'
<1>1. Len(zsorted') = 0
  BY EmptySeq
<1>2. \A n \in ZNames : zmembers'[n] = NoScore
  BY DEF NoMembers
<1>3. IndexExact'
  BY <1>1, <1>2 DEF IndexExact, Has
<1>4. SearchOK' /\ SearchExact' /\ SortedUnlessNaN'
  BY <1>1 DEF SearchOK, SearchExact, SortedUnlessNaN
<1>5. NaNIsKnown'
  BY <1>2, ScoreFacts DEF NaNIsKnown
<1>6. QED BY <1>3, <1>4, <1>5

LEMMA NoObjectTyped ==
    /\ NoMembers \in [ZNames -> Scores \cup {NoScore}]
    /\ <<>> \in Seq(Entries)
    /\ Idle \in [kind : {"none", "zadd", "zincrby", "zrem"},
                 flags : ZFlags \cup {{}}, left : 0 .. ZMaxArgs]
<1>1. 0 \in 0 .. ZMaxArgs
  BY SortedSetParameters
<1>2. QED BY <1>1, EmptySeq DEF NoMembers, Idle

-----------------------------------------------------------------------------
Commands == [kind : {"none", "zadd", "zincrby", "zrem"},
             flags : ZFlags \cup {{}}, left : 0 .. ZMaxArgs]

\* An idle server has no search under way.
LEMMA IdleHasNoEntry == ZInv /\ zcmd = Idle => zentry = NoEntry
BY DEF ZInv, SearchOK, Idle

\* The beginning of a command: the object and the search stay as they are.
LEMMA BeginKeeps ==
    ASSUME ZInv, NEW kind \in {"zadd", "zrem"}, NEW F \in ZFlags \cup {{}},
           NEW n \in 1 .. ZMaxArgs, Begin(kind, F, n),
           UNCHANGED <<zstored, zmembers, zsorted, zentry, zlo, zhi, znan>>
    PROVE  ZInv'
<1>1. /\ zcmd' = [kind |-> kind, flags |-> F, left |-> n] /\ zold' = zmembers
      /\ zentry = NoEntry
  BY IdleHasNoEntry DEF Begin
<1>2. n \in 0 .. ZMaxArgs
  BY SortedSetParameters
<1>3. zcmd' \in Commands
  BY <1>1, <1>2 DEF Commands
<1>4. ZTypeOK'
  BY <1>1, <1>3 DEF ZInv, ZTypeOK, Commands
<1>5. IndexExact' /\ SearchOK' /\ SearchExact' /\ SortedUnlessNaN' /\ NaNIsKnown'
  BY <1>1, SameObjectKeeps
<1>6. \A m \in ZNames : zmembers[m] \in Int
  BY ScoreFacts DEF ZInv, ZTypeOK
<1>7. OptionsHonoured'
  BY <1>1, <1>6 DEF OptionsHonoured, Has
<1>8. NaNIsOld'
  BY <1>1 DEF NaNIsOld
<1>9. QED BY <1>4, <1>5, <1>7, <1>8 DEF ZInv

\* A pair that ZADD writes obeys its options, given that those before it did.
LEMMA AppliedPairHonours ==
    ASSUME ZInv, NEW m \in ZNames, NEW s \in Numbers,
           zcmd.kind = "zadd", Applies(m, s),
           zmembers' = [zmembers EXCEPT ![m] = s],
           zcmd'.flags = zcmd.flags, zold' = zold
    PROVE  OptionsHonoured' /\ NaNIsOld'
<1>1. /\ zmembers \in [ZNames -> Scores \cup {NoScore}]
      /\ zold \in [ZNames -> Scores \cup {NoScore}]
  BY DEF ZInv, ZTypeOK
<1>2. /\ zmembers'[m] = s /\ s # NoScore /\ s # NotANumber /\ s \in Int
      /\ \A n \in ZNames : n # m => zmembers'[n] = zmembers[n]
  BY <1>1, ScoreFacts
<1>3. \A n \in ZNames : zmembers[n] \in Int /\ zold[n] \in Int
  BY <1>1, ScoreFacts
<1>4. CASE zold[m] = NoScore
  <2>1. "XX" \notin zcmd.flags
    BY <1>4 DEF ZInv, OptionsHonoured, Applies
  <2>2. OptionsHonoured'
    BY <1>2, <1>4, <2>1 DEF ZInv, OptionsHonoured, Has
  <2>3. QED BY <2>2, <1>2 DEF ZInv, NaNIsOld
<1>5. CASE zold[m] # NoScore
  <2>1. Has(m) /\ "NX" \notin zcmd.flags
    BY <1>5 DEF ZInv, OptionsHonoured, Applies
  <2>2. ASSUME zold[m] # NotANumber, "GT" \in zcmd.flags PROVE s >= zold[m]
    <3>1. zmembers[m] >= zold[m] /\ zmembers[m] # NotANumber
      BY <1>5, <2>2 DEF ZInv, OptionsHonoured, NaNIsOld
    <3>2. ~AtMost(s, zmembers[m])
      BY <2>1, <2>2 DEF Applies
    <3>3. ~(s <= zmembers[m])
      BY <3>1, <3>2, <1>2 DEF AtMost
    <3>4. QED BY <3>1, <3>3, <1>2, <1>3
  <2>3. ASSUME zold[m] # NotANumber, "LT" \in zcmd.flags PROVE s <= zold[m]
    <3>1. zmembers[m] <= zold[m] /\ zmembers[m] # NotANumber
      BY <1>5, <2>3 DEF ZInv, OptionsHonoured, NaNIsOld
    <3>2. ~AtMost(zmembers[m], s)
      BY <2>1, <2>3 DEF Applies
    <3>3. ~(zmembers[m] <= s)
      BY <3>1, <3>2, <1>2 DEF AtMost
    <3>4. QED BY <3>1, <3>3, <1>2, <1>3
  <2>4. OptionsHonoured'
    BY <1>2, <1>5, <2>1, <2>2, <2>3 DEF ZInv, OptionsHonoured, Has
  <2>5. QED BY <2>4, <1>2 DEF ZInv, NaNIsOld
<1>6. QED BY <1>4, <1>5

LEMMA ZaddPairKeeps ==
    ASSUME ZInv, NEW m \in ZNames, NEW s \in ZGiven, ZaddPair(m, s)
    PROVE  ZInv'
<1>1. /\ zcmd.kind = "zadd" /\ zentry = NoEntry /\ zcmd.left > 0
      /\ zcmd' = [zcmd EXCEPT !.left = @ - 1]
      /\ UNCHANGED <<zstored, zold, znan>>
  BY DEF ZaddPair, Running
<1>2. zcmd \in Commands
  BY DEF ZInv, ZTypeOK, Commands
<1>3. /\ zcmd' \in Commands /\ zcmd'.kind = "zadd" /\ zcmd'.flags = zcmd.flags
  <2>1. zcmd.left - 1 \in 0 .. ZMaxArgs
    BY <1>1, <1>2, SortedSetParameters DEF Commands
  <2>2. QED BY <2>1, <1>1, <1>2 DEF Commands
<1>4. s \in Numbers /\ s \in Scores /\ s # NotANumber
  BY ScoreFacts
<1>5. CASE Applies(m, s) /\ Assign(m, s)
  <2>1. /\ zmembers' \in [ZNames -> Scores \cup {NoScore}]
        /\ zsorted' \in Seq(Entries) /\ zentry' \in Entries
        /\ zlo' \in Nat /\ zhi' \in Nat
        /\ IndexExact' /\ SearchOK' /\ SearchExact'
        /\ SortedUnlessNaN' /\ NaNIsKnown'
    BY <1>1, <1>3, <1>4, <1>5, AssignKeeps
  <2>2. OptionsHonoured' /\ NaNIsOld'
    <3>1. zmembers' = [zmembers EXCEPT ![m] = s]
      BY <1>5 DEF Assign
    <3>2. QED BY <3>1, <1>1, <1>3, <1>4, <1>5, AppliedPairHonours
  <2>3. ZTypeOK'
    BY <1>1, <1>3, <2>1 DEF ZInv, ZTypeOK, Commands
  <2>4. QED BY <2>1, <2>2, <2>3 DEF ZInv
<1>6. CASE UNCHANGED <<zmembers, zsorted, zentry, zlo, zhi>>
  <2>1. IndexExact' /\ SearchOK' /\ SearchExact' /\ SortedUnlessNaN' /\ NaNIsKnown'
    BY <1>1, <1>6, SameObjectKeeps
  <2>2. OptionsHonoured' /\ NaNIsOld'
    BY <1>1, <1>3, <1>6 DEF ZInv, OptionsHonoured, NaNIsOld, Has
  <2>3. ZTypeOK'
    BY <1>1, <1>3, <1>6 DEF ZInv, ZTypeOK, Commands
  <2>4. QED BY <2>1, <2>2, <2>3 DEF ZInv
<1>7. QED BY <1>5, <1>6 DEF ZaddPair

\* The end of a command, with the object as it is or gone.
LEMMA EndKeeps ==
    ASSUME ZInv, zentry = NoEntry, zcmd' = Idle, zold' = NoMembers,
           zstored' \in BOOLEAN, UNCHANGED <<zentry, zlo, zhi>>,
           \/ UNCHANGED <<zmembers, zsorted, znan>>
           \/ zmembers' = NoMembers /\ zsorted' = <<>> /\ znan' = FALSE
    PROVE  ZInv'
<1>1. IndexExact' /\ SearchOK' /\ SearchExact' /\ SortedUnlessNaN' /\ NaNIsKnown'
  <2>1. CASE UNCHANGED <<zmembers, zsorted, znan>>
    BY <2>1, SameObjectKeeps
  <2>2. CASE zmembers' = NoMembers /\ zsorted' = <<>> /\ znan' = FALSE
    BY <2>2, NoObjectKeeps
  <2>3. QED BY <2>1, <2>2
<1>2. ZTypeOK'
  BY NoObjectTyped DEF ZInv, ZTypeOK
<1>3. OptionsHonoured' /\ NaNIsOld'
  BY DEF OptionsHonoured, NaNIsOld, Idle
<1>4. QED BY <1>1, <1>2, <1>3 DEF ZInv

LEMMA ZincrbyKeeps ==
    ASSUME ZInv, NEW m \in ZNames, NEW inc \in ZGiven, Zincrby(m, inc)
    PROVE  ZInv'
<1> DEFINE s == IF Has(m) THEN FloatSum(zmembers[m], inc) ELSE inc
<1>1. s \in Scores
  <2>1. zmembers[m] \in Scores \cup {NoScore}
    BY DEF ZInv, ZTypeOK
  <2>2. inc \in Scores
    BY ScoreFacts
  <2>3. QED BY <2>1, <2>2, FloatSumIsScore DEF Has
<1>2. /\ zentry = NoEntry /\ Assign(m, s) /\ znan' = (znan \/ s = NotANumber)
      /\ zcmd' = [kind |-> "zincrby", flags |-> {}, left |-> 0]
      /\ zold' = zmembers /\ zstored' = zstored
  BY IdleHasNoEntry DEF Zincrby, Begin
<1> HIDE DEF s
<1>3. ~znan' => ~znan /\ s # NotANumber
  BY <1>2
<1>4. /\ zmembers' \in [ZNames -> Scores \cup {NoScore}]
      /\ zsorted' \in Seq(Entries) /\ zentry' \in Entries
      /\ zlo' \in Nat /\ zhi' \in Nat
      /\ IndexExact' /\ SearchOK' /\ SearchExact'
      /\ SortedUnlessNaN' /\ NaNIsKnown'
  BY <1>1, <1>2, <1>3, AssignKeeps
<1>5. zcmd' \in Commands
  <2>1. 0 \in 0 .. ZMaxArgs
    BY SortedSetParameters
  <2>2. QED BY <2>1, <1>2 DEF Commands
<1>6. znan' \in BOOLEAN
  BY <1>2 DEF ZInv, ZTypeOK
<1>7. ZTypeOK'
  BY <1>2, <1>4, <1>5, <1>6 DEF ZInv, ZTypeOK, Commands
<1>8. OptionsHonoured' /\ NaNIsOld'
  BY <1>2 DEF OptionsHonoured, NaNIsOld
<1>9. QED BY <1>4, <1>7, <1>8 DEF ZInv

-----------------------------------------------------------------------------
LEMMA MiddleLies ==
    ASSUME NEW lo \in Nat, NEW hi \in Nat, lo < hi
    PROVE  LET mid == (lo + hi) \div 2 IN mid \in Nat /\ lo <= mid /\ mid < hi
OBVIOUS

\* A round of the bisection: the middle entry tells about all before it, or
\* about all after it, since the array is sorted.
LEMMA SearchStepKeeps ==
    ASSUME ZInv, SearchStep
    PROVE  ZInv'
<1> DEFINE mid == (zlo + zhi) \div 2
           n == Len(zsorted)
<1>1. /\ zlo \in Nat /\ zhi \in Nat /\ n \in Nat
      /\ zentry # NoEntry /\ zlo < zhi /\ zhi <= n
      /\ zcmd.kind \in {"zadd", "zincrby"}
  BY LenProperties DEF ZInv, ZTypeOK, SearchOK, SearchStep
<1>2. /\ UNCHANGED <<zstored, zmembers, zsorted, zcmd, zentry, zold, znan>>
      /\ IF Precedes(zsorted[mid + 1], zentry)
         THEN zlo' = mid + 1 /\ zhi' = zhi
         ELSE zlo' = zlo /\ zhi' = mid
  BY DEF SearchStep
<1>3. mid \in Nat /\ zlo <= mid /\ mid < zhi
  BY <1>1, MiddleLies
<1> HIDE DEF mid, n
<1>4. zlo' \in Nat /\ zhi' \in Nat /\ zlo' <= zhi' /\ zhi' <= n
  BY <1>1, <1>2, <1>3
<1>5. /\ ZTypeOK' /\ IndexExact' /\ SortedUnlessNaN' /\ NaNIsKnown'
      /\ OptionsHonoured' /\ NaNIsOld'
  BY <1>2, <1>4 DEF ZInv, ZTypeOK, IndexExact, SortedUnlessNaN, NaNIsKnown,
                    OptionsHonoured, NaNIsOld, Has, Holds, EntryOf
<1>6. SearchOK'
  BY <1>1, <1>2, <1>4 DEF SearchOK, n
<1>7. ASSUME ~znan
      PROVE  /\ \A i \in 1 .. zlo' : Precedes(zsorted[i], zentry)
             /\ \A i \in zhi' + 1 .. n : ~Precedes(zsorted[i], zentry)
  <2>1. /\ \A i \in 1 .. zlo : Precedes(zsorted[i], zentry)
        /\ \A i \in zhi + 1 .. n : ~Precedes(zsorted[i], zentry)
    BY <1>1, <1>7 DEF ZInv, SearchExact, n
  <2>2. \A i, j \in 1 .. n : i < j => ~Precedes(zsorted[j], zsorted[i])
    BY <1>7 DEF ZInv, SortedUnlessNaN, n
  <2>3. /\ zentry \in Entries /\ zentry.score # NotANumber
        /\ \A i \in 1 .. n : zsorted[i] \in Entries /\ zsorted[i].score # NotANumber
    BY <1>1, <1>7, EntriesAreNumbers DEF n
  <2>4. mid + 1 \in 1 .. n
    BY <1>1, <1>3
  <2>5. CASE Precedes(zsorted[mid + 1], zentry)
    <3>1. zlo' = mid + 1 /\ zhi' = zhi
      BY <2>5, <1>2
    <3>2. ASSUME NEW i \in 1 .. mid PROVE Precedes(zsorted[i], zentry)
      <4>1. i \in 1 .. n /\ i < mid + 1
        BY <1>1, <1>3
      <4>2. ~Precedes(zsorted[mid + 1], zsorted[i])
        BY <4>1, <2>2, <2>4
      <4>3. QED BY <4>1, <4>2, <2>3, <2>4, <2>5, PrecedesOrders
    <3>3. \A i \in 1 .. mid + 1 : i = mid + 1 \/ i \in 1 .. mid
      BY <1>3
    <3>4. QED BY <3>1, <3>2, <3>3, <2>1, <2>5
  <2>6. CASE ~Precedes(zsorted[mid + 1], zentry)
    <3>1. zlo' = zlo /\ zhi' = mid
      BY <2>6, <1>2
    <3>2. ASSUME NEW i \in mid + 2 .. n PROVE ~Precedes(zsorted[i], zentry)
      <4>1. i \in 1 .. n /\ mid + 1 < i
        BY <1>1, <1>3
      <4>2. ~Precedes(zsorted[i], zsorted[mid + 1])
        BY <4>1, <2>2, <2>4
      <4>3. QED BY <4>1, <4>2, <2>3, <2>4, <2>6, PrecedesOrders
    <3>3. \A i \in mid + 1 .. n : i = mid + 1 \/ i \in mid + 2 .. n
      BY <1>1, <1>3
    <3>4. QED BY <3>1, <3>2, <3>3, <2>1, <2>6
  <2>7. QED BY <2>5, <2>6
<1>8. SearchExact'
  BY <1>2, <1>7 DEF SearchExact, n
<1>9. QED BY <1>5, <1>6, <1>8 DEF ZInv

\* The entry goes where the search has ended.
LEMMA SpliceKeeps ==
    ASSUME ZInv, Splice
    PROVE  ZInv'
<1> DEFINE n == Len(zsorted)
           p == zlo + 1
           from(i) == IF i < p THEN i ELSE i - 1
<1>1. /\ zentry # NoEntry /\ zlo = zhi
      /\ zsorted' = InsertAt(zsorted, p, zentry)
      /\ zentry' = NoEntry /\ zlo' = 0 /\ zhi' = 0
      /\ UNCHANGED <<zstored, zmembers, zcmd, zold, znan>>
  BY DEF Splice
<1>2. /\ zsorted \in Seq(Entries) /\ zentry \in Entries /\ n \in Nat
      /\ zlo \in Nat /\ zlo <= n
  BY <1>1, LenProperties DEF ZInv, ZTypeOK, SearchOK
<1>3. p \in 1 .. n + 1
  BY <1>2
<1>4. /\ zsorted' \in Seq(Entries) /\ Len(zsorted') = n + 1
      /\ \A i \in 1 .. Len(zsorted') :
            zsorted'[i] = IF i < p THEN zsorted[i] ELSE IF i = p THEN zentry ELSE zsorted[i - 1]
  BY <1>1, <1>2, <1>3, InsertedAt
<1> HIDE DEF n, p
<1>5. /\ zsorted'[p] = zentry
      /\ \A i \in 1 .. n + 1 : i # p => from(i) \in 1 .. n /\ zsorted'[i] = zsorted[from(i)]
      /\ \A i, j \in 1 .. n + 1 : i # p /\ j # p /\ i < j => from(i) < from(j)
  BY <1>2, <1>3, <1>4
<1>6. \A i \in 1 .. n : \E j \in 1 .. n + 1 : j # p /\ from(j) = i
  <2>1. SUFFICES ASSUME NEW i \in 1 .. n
                 PROVE  \E j \in 1 .. n + 1 : j # p /\ from(j) = i
    OBVIOUS
  <2>2. CASE i < p
    BY <2>2, <1>2, <1>3
  <2>3. CASE i >= p
    <3>1. i + 1 \in 1 .. n + 1 /\ i + 1 # p /\ ~(i + 1 < p) /\ (i + 1) - 1 = i
      BY <2>3, <1>2, <1>3
    <3>2. QED BY <3>1
  <2>4. QED BY <2>2, <2>3, <1>2, <1>3
<1>7. /\ zentry.member \in ZNames /\ zmembers[zentry.member] # NoScore
      /\ zmembers[zentry.member] = zentry.score
      /\ \A i \in 1 .. n : zsorted[i].member # zentry.member
  <2>1. zentry.member \in ZNames
    BY <1>2 DEF Entries
  <2>2. zmembers[zentry.member] # NoScore /\ zmembers[zentry.member] = zentry.score
    BY <1>1 DEF ZInv, IndexExact, Has, EntryOf
  <2>3. ~Holds(zentry.member)
    BY <2>1, <2>2 DEF ZInv, IndexExact, Has
  <2>4. QED BY <2>1, <2>2, <2>3 DEF Holds, n
<1> HIDE DEF from
<1>8. \A i \in 1 .. n + 1 : /\ zmembers[zsorted'[i].member] # NoScore
                            /\ zmembers[zsorted'[i].member] = zsorted'[i].score
  BY <1>5, <1>7 DEF ZInv, IndexExact, Has, n
<1>9. ASSUME NEW i \in 1 .. n + 1, NEW j \in 1 .. n + 1, i < j
      PROVE  zsorted'[i].member # zsorted'[j].member
  <2>1. CASE i = p
    BY <2>1, <1>2, <1>3, <1>5, <1>7, <1>9
  <2>2. CASE j = p
    BY <2>2, <1>2, <1>3, <1>5, <1>7, <1>9
  <2>3. CASE i # p /\ j # p
    <3>1. from(i) \in 1 .. n /\ from(j) \in 1 .. n /\ from(i) # from(j)
      BY <2>3, <1>2, <1>5, <1>9
    <3>2. zsorted[from(i)].member # zsorted[from(j)].member
      BY <3>1 DEF ZInv, IndexExact, n
    <3>3. QED BY <3>2, <2>3, <1>5
  <2>4. QED BY <2>1, <2>2, <2>3
<1>10. \A m \in ZNames : zmembers[m] # NoScore =>
          \E i \in 1 .. n + 1 : zsorted'[i].member = m
  <2>1. SUFFICES ASSUME NEW m \in ZNames, zmembers[m] # NoScore
                 PROVE  \E i \in 1 .. n + 1 : zsorted'[i].member = m
    OBVIOUS
  <2>2. CASE m = zentry.member
    BY <2>2, <1>3, <1>5
  <2>3. CASE m # zentry.member
    <3>1. \E i \in 1 .. n : zsorted[i].member = m
      BY <2>1, <2>3 DEF ZInv, IndexExact, Has, Holds, n
    <3>2. QED BY <3>1, <1>5, <1>6
  <2>4. QED BY <2>2, <2>3
<1>11. \A m \in ZNames : NoEntry.member # m
  BY SortedSetParameters DEF NoEntry
<1>12. IndexExact'
  <2>1. (\A i \in 1 .. Len(zsorted) :
            Has(zsorted[i].member) /\ zmembers[zsorted[i].member] = zsorted[i].score)'
    BY <1>1, <1>4, <1>8 DEF Has
  <2>2. \A i, j \in 1 .. Len(zsorted') : zsorted'[i].member = zsorted'[j].member => i = j
    BY <1>2, <1>4, <1>9
  <2>3. (\A m \in ZNames : Has(m) => (Holds(m) <=> zentry.member # m))'
    BY <1>1, <1>4, <1>10, <1>11 DEF Has, Holds
  <2>4. QED BY <2>1, <2>2, <2>3, <1>1 DEF IndexExact
<1>13. SortedUnlessNaN'
  <2>1. SUFFICES ASSUME ~znan, NEW i \in 1 .. n + 1, NEW j \in 1 .. n + 1, i < j
                 PROVE  ~Precedes(zsorted'[j], zsorted'[i])
    BY <1>1, <1>4 DEF SortedUnlessNaN
  <2>2. /\ zentry \in Entries /\ zentry.score # NotANumber
        /\ \A k \in 1 .. n : zsorted[k] \in Entries /\ zsorted[k].score # NotANumber
    BY <1>1, <2>1, EntriesAreNumbers DEF n
  <2>3. /\ \A k \in 1 .. zlo : Precedes(zsorted[k], zentry)
        /\ \A k \in zlo + 1 .. n : ~Precedes(zsorted[k], zentry)
    BY <1>1, <2>1 DEF ZInv, SearchExact, n
  <2>4. CASE i = p
    <3>1. from(j) \in zlo + 1 .. n /\ zsorted'[j] = zsorted[from(j)]
      BY <2>1, <2>4, <1>2, <1>3, <1>5 DEF from, p
    <3>2. QED BY <3>1, <2>3, <2>4, <1>5
  <2>5. CASE j = p
    <3>1. from(i) \in 1 .. zlo /\ from(i) \in 1 .. n /\ zsorted'[i] = zsorted[from(i)]
      BY <2>1, <2>5, <1>2, <1>3, <1>5 DEF from, p
    <3>2. Precedes(zsorted[from(i)], zentry)
      BY <3>1, <2>3
    <3>3. ~Precedes(zentry, zsorted[from(i)])
      BY <3>1, <3>2, <2>2, PrecedesOrders
    <3>4. QED BY <3>1, <3>3, <2>5, <1>5
  <2>6. CASE i # p /\ j # p
    <3>1. from(i) \in 1 .. n /\ from(j) \in 1 .. n /\ from(i) < from(j)
      BY <2>1, <2>6, <1>5
    <3>2. ~Precedes(zsorted[from(j)], zsorted[from(i)])
      BY <3>1, <2>1 DEF ZInv, SortedUnlessNaN, n
    <3>3. QED BY <3>2, <2>6, <1>5
  <2>7. QED BY <2>4, <2>5, <2>6
<1>14. ZTypeOK'
  BY <1>1, <1>4 DEF ZInv, ZTypeOK
<1>15. SearchOK' /\ SearchExact' /\ NaNIsKnown' /\ OptionsHonoured' /\ NaNIsOld'
  BY <1>1 DEF ZInv, SearchOK, SearchExact, NaNIsKnown, OptionsHonoured, NaNIsOld, Has
<1>16. QED BY <1>12, <1>13, <1>14, <1>15 DEF ZInv

-----------------------------------------------------------------------------
LEMMA ZremNameKeeps ==
    ASSUME ZInv, NEW m \in ZNames, ZremName(m)
    PROVE  ZInv'
<1>1. /\ zcmd.kind = "zrem" /\ zentry = NoEntry /\ zcmd.left > 0
      /\ zcmd' = [zcmd EXCEPT !.left = @ - 1]
      /\ UNCHANGED <<zstored, zentry, zlo, zhi, zold, znan>>
  BY DEF ZremName, Running
<1>2. zcmd \in Commands
  BY DEF ZInv, ZTypeOK, Commands
<1>3. zcmd' \in Commands /\ zcmd'.kind = "zrem"
  <2>1. zcmd.left - 1 \in 0 .. ZMaxArgs
    BY <1>1, <1>2, SortedSetParameters DEF Commands
  <2>2. QED BY <2>1, <1>1, <1>2 DEF Commands
<1>4. OptionsHonoured' /\ NaNIsOld'
  BY <1>3 DEF OptionsHonoured, NaNIsOld
<1>5. CASE Has(m)
  <2>1. zmembers' = [zmembers EXCEPT ![m] = NoScore] /\ zsorted' = Without(m)
    BY <1>5 DEF ZremName
  <2>2. zmembers \in [ZNames -> Scores \cup {NoScore}]
    BY DEF ZInv, ZTypeOK
  <2>3. /\ zmembers' \in [ZNames -> Scores \cup {NoScore}]
        /\ zmembers'[m] = NoScore
        /\ \A n \in ZNames : n # m => zmembers'[n] = zmembers[n]
    BY <2>1, <2>2
  <2>4. /\ zsorted' \in Seq(Entries)
        /\ \A i \in 1 .. Len(zsorted') :
              /\ zsorted'[i].member # m /\ Has(zsorted'[i].member)
              /\ zmembers[zsorted'[i].member] = zsorted'[i].score
        /\ \A i, j \in 1 .. Len(zsorted') :
              zsorted'[i].member = zsorted'[j].member => i = j
        /\ \A n \in ZNames : Has(n) /\ n # m =>
              \E i \in 1 .. Len(zsorted') : zsorted'[i].member = n
        /\ ~znan => \A i, j \in 1 .. Len(zsorted') :
              i < j => ~Precedes(zsorted'[j], zsorted'[i])
    BY <2>1, <1>1, <1>5, WithoutKeeps
  <2>5. \A i \in 1 .. Len(zsorted') : zsorted'[i].member \in ZNames
    <3>1. \A i \in 1 .. Len(zsorted') : zsorted'[i] \in Entries
      BY <2>4, ElementOfSeq
    <3>2. \A e \in Entries : e.member \in ZNames
      BY DEF Entries
    <3>3. QED BY <3>1, <3>2
  <2>6. IndexExact'
    <3>1. (\A i \in 1 .. Len(zsorted) :
              Has(zsorted[i].member) /\ zmembers[zsorted[i].member] = zsorted[i].score)'
      BY <2>3, <2>4, <2>5 DEF Has
    <3>2. (\A n \in ZNames : Has(n) => (Holds(n) <=> zentry.member # n))'
      <4>1. \A n \in ZNames : NoEntry.member # n
        BY SortedSetParameters DEF NoEntry
      <4>2. QED BY <4>1, <1>1, <2>3, <2>4 DEF Has, Holds
    <3>3. QED BY <3>1, <3>2, <2>4, <1>1 DEF IndexExact
  <2>7. SearchOK' /\ SearchExact'
    BY <1>1 DEF SearchOK, SearchExact
  <2>8. SortedUnlessNaN'
    BY <1>1, <2>4 DEF SortedUnlessNaN
  <2>9. NaNIsKnown'
    BY <1>1, <2>3, ScoreFacts DEF ZInv, NaNIsKnown
  <2>10. ZTypeOK'
    BY <1>1, <1>3, <2>3, <2>4 DEF ZInv, ZTypeOK, Commands
  <2>11. QED BY <1>4, <2>6, <2>7, <2>8, <2>9, <2>10 DEF ZInv
<1>6. CASE ~Has(m)
  <2>1. UNCHANGED <<zmembers, zsorted>>
    BY <1>6 DEF ZremName
  <2>2. IndexExact' /\ SearchOK' /\ SearchExact' /\ SortedUnlessNaN' /\ NaNIsKnown'
    BY <1>1, <2>1, SameObjectKeeps
  <2>3. ZTypeOK'
    BY <1>1, <1>3, <2>1 DEF ZInv, ZTypeOK, Commands
  <2>4. QED BY <1>4, <2>2, <2>3 DEF ZInv
<1>7. QED BY <1>5, <1>6

\* ZREM forgets znan only with the last member.
LEMMA ZremEndKeeps ==
    ASSUME ZInv, ZremEnd
    PROVE  ZInv'
<1>1. /\ zentry = NoEntry /\ zcmd' = Idle
      /\ zstored' = (zmembers # NoMembers) /\ znan' = (znan /\ zstored')
      /\ zold' = NoMembers /\ UNCHANGED <<zmembers, zsorted, zentry, zlo, zhi>>
  BY DEF ZremEnd, Running
<1>2. CASE zmembers # NoMembers
  <2>1. zstored' \in BOOLEAN /\ znan' = znan
    BY <1>1, <1>2 DEF ZInv, ZTypeOK
  <2>2. QED BY <1>1, <2>1, EndKeeps
<1>3. CASE zmembers = NoMembers
  <2>1. \A m \in ZNames : ~Has(m)
    BY <1>3 DEF Has, NoMembers
  <2>2. zsorted = <<>>
    <3>1. zsorted \in Seq(Entries) /\ \A e \in Entries : e.member \in ZNames
      BY DEF ZInv, ZTypeOK, Entries
    <3>2. ASSUME zsorted # <<>> PROVE FALSE
      <4>1. 1 \in 1 .. Len(zsorted)
        BY <3>1, <3>2, EmptySeq
      <4>2. zsorted[1].member \in ZNames
        BY <3>1, <4>1, ElementOfSeq
      <4>3. QED BY <2>1, <4>1, <4>2 DEF ZInv, IndexExact
    <3>3. QED BY <3>2
  <2>3. zstored' = FALSE /\ znan' = FALSE
    BY <1>1, <1>3
  <2>4. QED BY <1>1, <1>3, <2>2, <2>3, EndKeeps
<1>4. QED BY <1>2, <1>3

LEMMA ZNextKeeps == ZInv /\ [ZNext]_zvars => ZInv'
<1> SUFFICES ASSUME ZInv, [ZNext]_zvars PROVE ZInv'
  OBVIOUS
<1>1. CASE \E F \in ZFlags, n \in 1 .. ZMaxArgs : ZaddBegin(F, n)
  BY <1>1, BeginKeeps DEF ZaddBegin
<1>2. CASE \E n \in 1 .. ZMaxArgs : ZremBegin(n)
  BY <1>2, BeginKeeps DEF ZremBegin
<1>3. CASE \E m \in ZNames, inc \in ZGiven : Zincrby(m, inc)
  BY <1>3, ZincrbyKeeps
<1>4. CASE ZVanish
  BY <1>4, EndKeeps, IdleHasNoEntry DEF ZVanish
<1>5. CASE \E m \in ZNames, s \in ZGiven : ZaddPair(m, s)
  BY <1>5, ZaddPairKeeps
<1>6. CASE ZaddBadScore
  <2>1. zentry = NoEntry /\ zcmd' = Idle /\ zold' = NoMembers
    BY <1>6 DEF ZaddBadScore, Running
  <2>2. zstored' \in BOOLEAN
    BY <1>6 DEF ZaddBadScore, ZInv, ZTypeOK
  <2>3. QED BY <1>6, <2>1, <2>2, EndKeeps DEF ZaddBadScore
<1>7. CASE SearchStep
  BY <1>7, SearchStepKeeps
<1>8. CASE Splice
  BY <1>8, SpliceKeeps
<1>9. CASE ZStore
  <2>1. zentry = NoEntry /\ zcmd' = Idle /\ zold' = NoMembers
    BY <1>9 DEF ZStore, Running
  <2>2. zstored' \in BOOLEAN
    BY <1>9 DEF ZStore, ZInv, ZTypeOK
  <2>3. QED BY <1>9, <2>1, <2>2, EndKeeps DEF ZStore
<1>10. CASE \E m \in ZNames : ZremName(m)
  BY <1>10, ZremNameKeeps
<1>11. CASE ZremEnd
  BY <1>11, ZremEndKeeps
<1>12. CASE UNCHANGED zvars
  BY <1>12 DEF zvars, ZInv, ZTypeOK, IndexExact, SearchOK, SortedUnlessNaN,
               SearchExact, NaNIsKnown, OptionsHonoured, NaNIsOld, Has, Holds, EntryOf
<1>13. QED
  BY <1>1, <1>2, <1>3, <1>4, <1>5, <1>6, <1>7, <1>8, <1>9, <1>10, <1>11, <1>12
     DEF ZNext, ZProceed

LEMMA ZInvHolds == ZSpec => []ZInv
<1>1. QED BY ZInvInit, ZNextKeeps, PTL DEF ZSpec

-----------------------------------------------------------------------------
\* The Map and the array of a sorted set hold the same members with the same
\* scores after every step of every command, also of one that fails or whose
\* write is refused (sorted_sets.js:17-39, 86-110, 121-130, 309-319).
THEOREM IndexStaysExact == ZSpec => []IndexExact
<1>1. ZInv => IndexExact
  BY DEF ZInv
<1>2. QED BY <1>1, ZInvHolds, PTL

\* The array stays sorted as long as no score is NotANumber, whatever scores
\* are moved where (sorted_sets.js:17-31).
THEOREM ArrayStaysSorted == ZSpec => []SortedUnlessNaN
<1>1. ZInv => SortedUnlessNaN
  BY DEF ZInv
<1>2. QED BY <1>1, ZInvHolds, PTL

\* The options of a ZADD hold for the command as a whole
\* (sorted_sets.js:52-100).
THEOREM OptionsAreHonoured == ZSpec => []OptionsHonoured
<1>1. ZInv => OptionsHonoured
  BY DEF ZInv
<1>2. QED BY <1>1, ZInvHolds, PTL

-----------------------------------------------------------------------------
(* Replies that read the array.  Between commands the place of a member is *)
(* a bijection from the members to the indexes of the array, so members    *)
(* are counted by counting places.                                         *)

LEMMA PlaceOf ==
    ASSUME ZInv, zcmd = Idle, NEW i \in 1 .. Len(zsorted)
    PROVE  /\ zsorted[i] \in Entries
           /\ zsorted[i].member \in Members
           /\ Place(zsorted[i].member) = i
           /\ zsorted[i] = EntryOf(zsorted[i].member)
<1>1. zsorted[i] \in Entries
  BY ElementOfSeq DEF ZInv, ZTypeOK
<1>2. /\ zsorted[i].member \in ZNames
      /\ zsorted[i] = [member |-> zsorted[i].member, score |-> zsorted[i].score]
  BY <1>1 DEF Entries
<1>3. Has(zsorted[i].member) /\ zmembers[zsorted[i].member] = zsorted[i].score
  BY DEF ZInv, IndexExact
<1>4. \A j \in 1 .. Len(zsorted) : zsorted[j].member = zsorted[i].member => j = i
  BY DEF ZInv, IndexExact
<1>5. Place(zsorted[i].member) = i
  BY <1>4 DEF Place
<1> QED
  BY <1>1, <1>2, <1>3, <1>5 DEF Members, EntryOf

LEMMA PlaceIs ==
    ASSUME ZInv, zcmd = Idle, NEW m \in Members
    PROVE  /\ Place(m) \in 1 .. Len(zsorted)
           /\ zsorted[Place(m)] = EntryOf(m)
           /\ zsorted[Place(m)].member = m /\ zsorted[Place(m)].score = zmembers[m]
<1>1. m \in ZNames /\ Has(m)
  BY DEF Members
<1>2. zentry.member # m
  BY <1>1, IdleHasNoEntry, SortedSetParameters DEF NoEntry
<1>3. PICK i \in 1 .. Len(zsorted) : zsorted[i].member = m
  BY <1>1, <1>2 DEF ZInv, IndexExact, Holds
<1>4. Place(m) \in 1 .. Len(zsorted) /\ zsorted[Place(m)] = EntryOf(m)
  BY <1>3, PlaceOf
<1> QED
  BY <1>4 DEF EntryOf

LEMMA CountPlaces ==
    ASSUME ZInv, zcmd = Idle, NEW M, M \subseteq Members
    PROVE  /\ IsFiniteSet(M)
           /\ IsFiniteSet({Place(m) : m \in M})
           /\ Cardinality({Place(m) : m \in M}) = Cardinality(M)
<1> DEFINE P == {Place(m) : m \in M}
           f == [m \in M |-> Place(m)]
<1>1. IsFiniteSet(M)
  <2>1. M \subseteq ZNames
    BY DEF Members
  <2> QED
    BY <2>1, SortedSetParameters, FS_Subset
<1>2. \A m, n \in M : Place(m) = Place(n) => m = n
  <2> SUFFICES ASSUME NEW m \in M, NEW n \in M, Place(m) = Place(n) PROVE m = n
    OBVIOUS
  <2>1. EntryOf(m) = EntryOf(n)
    BY PlaceIs
  <2> QED
    BY <2>1 DEF EntryOf
<1>3. /\ f \in [M -> P]
      /\ \A m, n \in M : f[m] = f[n] => m = n
      /\ \A p \in P : \E m \in M : f[m] = p
  BY <1>2
<1> HIDE DEF f, P
<1>4. f \in Bijection(M, P)
  BY <1>3, Fun_IsBij
<1>5. ExistsBijection(M, P)
  BY <1>4 DEF ExistsBijection
<1> QED
  BY <1>1, <1>5, FS_Bijection DEF P

LEMMA SizeIsLength ==
    ASSUME ZInv, zcmd = Idle
    PROVE  Len(zsorted) \in Nat /\ Cardinality(Members) = Len(zsorted)
<1>1. Len(zsorted) \in Nat
  BY LenProperties DEF ZInv, ZTypeOK
<1>2. {Place(m) : m \in Members} = 1 .. Len(zsorted)
  BY PlaceIs, PlaceOf
<1>3. Cardinality(1 .. Len(zsorted)) = Len(zsorted)
  BY <1>1, FS_Interval
<1> QED
  BY <1>1, <1>2, <1>3, CountPlaces

\* Ranks.
LEMMA RanksTheorem ==
    ASSUME ZInv, zcmd = Idle, ~znan
    PROVE  RanksExact
<1> SUFFICES ASSUME NEW m \in Members
             PROVE  LET before == {n \in Members : Precedes(EntryOf(n), EntryOf(m))}
                        after == {n \in Members : Precedes(EntryOf(m), EntryOf(n))}
                    IN  Rank(m) \in Cardinality(before)
                                      .. Cardinality(Members) - 1 - Cardinality(after)
  BY DEF RanksExact
<1> DEFINE before == {n \in Members : Precedes(EntryOf(n), EntryOf(m))}
           after == {n \in Members : Precedes(EntryOf(m), EntryOf(n))}
           N == Len(zsorted)
           low == 1 .. Place(m) - 1
           high == Place(m) + 1 .. N
<1>1. N \in Nat /\ Cardinality(Members) = N /\ Place(m) \in 1 .. N
  BY SizeIsLength, PlaceIs
<1>2. ASSUME NEW d \in Members, NEW e \in Members, Precedes(EntryOf(d), EntryOf(e))
      PROVE  Place(d) < Place(e)
  <2>1. Place(d) \in 1 .. N /\ Place(e) \in 1 .. N
    BY PlaceIs
  <2>2. EntryOf(d) = zsorted[Place(d)] /\ EntryOf(e) = zsorted[Place(e)]
    BY PlaceIs
  <2>3. ~(Place(e) < Place(d))
    BY <1>2, <2>1, <2>2 DEF ZInv, SortedUnlessNaN
  <2>4. Place(d) # Place(e)
    <3>1. EntryOf(d) \in Entries /\ EntryOf(d).score # NotANumber
      BY <2>1, <2>2, EntriesAreNumbers
    <3>2. ~Precedes(EntryOf(d), EntryOf(d))
      BY <3>1, PrecedesOrders
    <3> QED
      BY <1>2, <2>2, <3>2
  <2> QED
    BY <1>1, <2>1, <2>3, <2>4
<1>3. {Place(n) : n \in before} \subseteq low
  BY <1>1, <1>2, PlaceIs
<1>4. {Place(n) : n \in after} \subseteq high
  BY <1>1, <1>2, PlaceIs
<1> HIDE DEF N, low, high, before, after
<1>5. before \subseteq Members /\ after \subseteq Members
  BY DEF before, after
<1>6. /\ IsFiniteSet(low) /\ Cardinality(low) = Place(m) - 1
      /\ IsFiniteSet(high) /\ Cardinality(high) = N - Place(m)
  <2>1. Place(m) - 1 \in Int /\ Place(m) + 1 \in Int /\ N \in Int /\ 1 \in Int
    BY <1>1
  <2>2. IsFiniteSet(low) /\ Cardinality(low) = IF 1 > Place(m) - 1 THEN 0 ELSE Place(m) - 1 - 1 + 1
    BY <2>1, FS_Interval DEF low
  <2>3. IsFiniteSet(high) /\ Cardinality(high) = IF Place(m) + 1 > N THEN 0 ELSE N - (Place(m) + 1) + 1
    BY <2>1, FS_Interval DEF high
  <2> QED
    BY <1>1, <2>2, <2>3
<1> DEFINE B == {Place(n) : n \in before}
           A == {Place(n) : n \in after}
<1>7. Cardinality(before) <= Place(m) - 1
  <2>1. Cardinality(B) = Cardinality(before)
    BY <1>5, CountPlaces
  <2> HIDE DEF B
  <2>2. Cardinality(B) <= Cardinality(low)
    BY <1>3, <1>6, FS_Subset DEF B
  <2> QED
    BY <1>6, <2>1, <2>2
<1>8. Cardinality(after) <= N - Place(m)
  <2>1. Cardinality(A) = Cardinality(after)
    BY <1>5, CountPlaces
  <2> HIDE DEF A
  <2>2. Cardinality(A) <= Cardinality(high)
    BY <1>4, <1>6, FS_Subset DEF A
  <2> QED
    BY <1>6, <2>1, <2>2
<1>9. Cardinality(before) \in Nat /\ Cardinality(after) \in Nat
  BY <1>5, CountPlaces, FS_CardinalityType
<1>10. Rank(m) \in Cardinality(before) .. Cardinality(Members) - 1 - Cardinality(after)
  BY <1>1, <1>7, <1>8, <1>9 DEF Rank
<1> QED
  BY <1>10 DEF before, after

\* A command that walks over the array meets the members in the order of
\* their ranks.
LEMMA WalkPlaces ==
    ASSUME ZInv, zcmd = Idle, NEW rev \in BOOLEAN
    PROVE  /\ Walk(rev) \in Seq(Entries) /\ Len(Walk(rev)) = Len(zsorted)
           /\ \A k \in 1 .. Len(zsorted) : /\ Walk(rev)[k].member \in Members
                                           /\ RankFrom(Walk(rev)[k].member, rev) = k - 1
           /\ \A m \in Members : /\ RankFrom(m, rev) + 1 \in 1 .. Len(zsorted)
                                 /\ Walk(rev)[RankFrom(m, rev) + 1].member = m
<1> DEFINE N == Len(zsorted)
<1>1. N \in Nat /\ zsorted \in Seq(Entries)
  BY SizeIsLength DEF ZInv, ZTypeOK
<1>2. CASE ~rev
  <2>1. Walk(rev) = zsorted /\ \A m : RankFrom(m, rev) = Place(m) - 1
    BY <1>2 DEF Walk, RankFrom, Rank
  <2>2. \A m \in Members : Place(m) \in 1 .. N /\ zsorted[Place(m)].member = m
    BY PlaceIs
  <2> QED
    BY <1>1, <2>1, <2>2, PlaceOf
<1>3. CASE rev
  <2>1. Walk(rev) = Reverse(zsorted) /\ \A m : RankFrom(m, rev) = N - 1 - (Place(m) - 1)
    BY <1>3 DEF Walk, RankFrom, RevRank, Rank
  <2>2. \A k \in 1 .. N : N - k + 1 \in 1 .. N /\ zsorted[N - k + 1] \in Entries
    BY <1>1, PlaceOf
  <2>3. Reverse(zsorted) = [k \in 1 .. N |-> zsorted[N - k + 1]]
    BY DEF Reverse
  <2>4. Reverse(zsorted) \in Seq(Entries) /\ Len(Reverse(zsorted)) = N
    BY <1>1, <2>2, <2>3
  <2>5. ASSUME NEW k \in 1 .. N
        PROVE  /\ Reverse(zsorted)[k].member \in Members
               /\ N - 1 - (Place(Reverse(zsorted)[k].member) - 1) = k - 1
    BY <1>1, <2>2, <2>3, PlaceOf
  <2>6. ASSUME NEW m \in Members
        PROVE  /\ N - 1 - (Place(m) - 1) + 1 \in 1 .. N
               /\ Reverse(zsorted)[N - 1 - (Place(m) - 1) + 1].member = m
    <3>1. Place(m) \in 1 .. N /\ zsorted[Place(m)].member = m
      BY PlaceIs
    <3>2. N - 1 - (Place(m) - 1) + 1 = N - Place(m) + 1 /\ N - (N - Place(m) + 1) + 1 = Place(m)
      BY <1>1, <3>1
    <3>3. N - Place(m) + 1 \in 1 .. N
      BY <1>1, <3>1
    <3> QED
      BY <2>3, <3>1, <3>2, <3>3
  <2> QED
    BY <2>1, <2>4, <2>5, <2>6
<1> QED
  BY <1>2, <1>3

\* The larger and the smaller of two numbers.
LEMMA MaxOfTwo ==
    ASSUME NEW a \in Int, NEW b \in Int
    PROVE  /\ Max({a, b}) = IF a >= b THEN a ELSE b
           /\ Min({a, b}) = IF a <= b THEN a ELSE b
<1>1. Max({a, b}) = IF a >= b THEN a ELSE b
  <2> DEFINE x == IF a >= b THEN a ELSE b
  <2>1. x \in {a, b} /\ \A y \in {a, b} : x >= y
    OBVIOUS
  <2>2. \A z \in {a, b} : (\A y \in {a, b} : z >= y) => z = x
    OBVIOUS
  <2> QED
    BY <2>1, <2>2 DEF Max
<1>2. Min({a, b}) = IF a <= b THEN a ELSE b
  <2> DEFINE x == IF a <= b THEN a ELSE b
  <2>1. x \in {a, b} /\ \A y \in {a, b} : x <= y
    OBVIOUS
  <2>2. \A z \in {a, b} : (\A y \in {a, b} : z <= y) => z = x
    OBVIOUS
  <2> QED
    BY <2>1, <2>2 DEF Min
<1> QED
  BY <1>1, <1>2

\* A part of an array, empty ones included.
LEMMA PartOf ==
    ASSUME NEW S, NEW s \in Seq(S), NEW a \in Nat \ {0}, NEW b \in Int, b <= Len(s)
    PROVE  LET r == SubSeq(s, a, b)
               n == IF a <= b THEN b - a + 1 ELSE 0
           IN  r \in Seq(S) /\ Len(r) = n /\ \A i \in 1 .. n : r[i] = s[a + i - 1]
<1> DEFINE r == SubSeq(s, a, b)
<1>1. Len(s) \in Nat
  BY LenProperties
<1>2. CASE a <= b
  BY <1>1, <1>2, SubSeqProperties
<1>3. CASE a > b
  <2>1. r = << >>
    BY <1>3, SubSeqEmpty
  <2> QED
    BY <1>3, <2>1
<1> QED
  BY <1>1, <1>2, <1>3

\* Windows of ranks, for all indexes.
LEMMA WindowsTheorem ==
    ASSUME ZInv, zcmd = Idle, NEW start \in Int, NEW stop \in Int, NEW rev \in BOOLEAN
    PROVE  WindowExact(start, stop, rev)
<1> DEFINE N == Len(zsorted)
           w == Walk(rev)
           rank(m) == RankFrom(m, rev)
           from == IF start < 0 THEN Max({0, N + start}) ELSE start
           to == IF stop < 0 THEN N + stop ELSE stop
           last == Min({to, N - 1})
           reply == ZRange(start, stop, rev)
           window == {m \in Members : from <= rank(m) /\ rank(m) <= to}
<1>1. N \in Nat /\ Cardinality(Members) = N
  BY SizeIsLength
<1>2. from \in Nat /\ to \in Int /\ last \in Int
      /\ last = (IF to <= N - 1 THEN to ELSE N - 1)
      /\ from = (IF start < 0 THEN IF 0 >= N + start THEN 0 ELSE N + start ELSE start)
  <2>1. N + start \in Int /\ to \in Int /\ N - 1 \in Int /\ 0 \in Int
    BY <1>1
  <2>2. Max({0, N + start}) = IF 0 >= N + start THEN 0 ELSE N + start
    BY <2>1, MaxOfTwo
  <2>3. last = IF to <= N - 1 THEN to ELSE N - 1
    <3> HIDE DEF to, N
    <3> QED
      BY <2>1, MaxOfTwo
  <2> QED
    BY <1>1, <2>1, <2>2, <2>3
<1>3. /\ w \in Seq(Entries) /\ Len(w) = N
      /\ \A k \in 1 .. N : w[k].member \in Members /\ rank(w[k].member) = k - 1
      /\ \A m \in Members : rank(m) + 1 \in 1 .. N /\ w[rank(m) + 1].member = m
  BY WalkPlaces
<1>4. \A m \in Members : rank(m) \in 0 .. N - 1
  <2>1. \A m \in Members : rank(m) \in Int
    BY <1>1, PlaceIs DEF RankFrom, RevRank, Rank
  <2> QED
    BY <1>1, <1>3, <2>1
<1>5. window = {m \in Members :
                  /\ (IF start < 0 THEN Cardinality(Members) + start ELSE start) <= rank(m)
                  /\ rank(m) <= (IF stop < 0 THEN Cardinality(Members) + stop ELSE stop)}
  <2>1. ASSUME NEW m \in Members
        PROVE  from <= rank(m) <=>
                 (IF start < 0 THEN Cardinality(Members) + start ELSE start) <= rank(m)
    <3> HIDE DEF from, rank
    <3> QED
      BY <1>1, <1>2, <1>4
  <2>2. to = IF stop < 0 THEN Cardinality(Members) + stop ELSE stop
    BY <1>1
  <2> HIDE DEF from, to, rank
  <2> QED
    BY <2>1, <2>2
<1>6. reply = IF from > to \/ from >= N THEN << >> ELSE SubSeq(w, from + 1, last + 1)
  BY DEF ZRange
<1> HIDE DEF from, to, last, w, reply, N, rank
<1>7. CASE from > to \/ from >= N
  <2>1. reply = << >> /\ Len(reply) = 0
    BY <1>6, <1>7
  <2>2. window = {}
    BY <1>1, <1>2, <1>4, <1>7
  <2>3. {reply[i].member : i \in 1 .. Len(reply)} = window
    BY <2>1, <2>2
  <2>4. \A i \in 2 .. Len(reply) : rank(reply[i].member) = rank(reply[i - 1].member) + 1
    BY <2>1
  <2> QED
    BY <1>5, <2>3, <2>4 DEF WindowExact, reply, rank
<1>8. CASE ~(from > to \/ from >= N)
  <2>1. /\ from <= last /\ last <= N - 1 /\ last <= to
        /\ \A k \in 0 .. N - 1 : k <= last <=> k <= to
    BY <1>1, <1>2, <1>8
  <2>2. /\ Len(reply) = last - from + 1
        /\ \A i \in 1 .. last - from + 1 : reply[i] = w[from + i]
    <3>1. from + 1 \in Nat \ {0} /\ last + 1 \in Int /\ last + 1 <= Len(w)
      BY <1>1, <1>2, <1>3, <2>1
    <3>2. reply = SubSeq(w, from + 1, last + 1)
      BY <1>6, <1>8
    <3> DEFINE a == from + 1
               b == last + 1
    <3>3. a <= b /\ b - a + 1 = last - from + 1 /\ \A i \in Int : a + i - 1 = from + i
      BY <1>2, <2>1
    <3>4. a \in Nat \ {0} /\ b \in Int /\ b <= Len(w) /\ reply = SubSeq(w, a, b)
      BY <3>1, <3>2
    <3> HIDE DEF a, b
    <3>5. /\ Len(SubSeq(w, a, b)) = b - a + 1
          /\ \A i \in 1 .. b - a + 1 : SubSeq(w, a, b)[i] = w[a + i - 1]
      BY <1>3, <3>3, <3>4, PartOf
    <3>6. ASSUME NEW i \in 1 .. last - from + 1 PROVE reply[i] = w[from + i]
      <4>1. i \in Int /\ i \in 1 .. b - a + 1
        BY <1>2, <3>3
      <4>2. a + i - 1 = from + i
        BY <3>3, <4>1
      <4> QED
        BY <3>4, <3>5, <4>1, <4>2
    <3> QED
      BY <3>3, <3>4, <3>5, <3>6
  <2>3. ASSUME NEW i \in 1 .. Len(reply)
        PROVE  /\ from + i \in 1 .. N /\ reply[i] = w[from + i]
               /\ rank(reply[i].member) = from + i - 1
               /\ reply[i].member \in Members
    <3>1. from + i \in 1 .. N /\ i \in 1 .. last - from + 1
      BY <1>1, <1>2, <2>1, <2>2
    <3>2. reply[i] = w[from + i]
      BY <2>2, <3>1
    <3> DEFINE k == from + i
    <3>3. k \in 1 .. N /\ reply[i] = w[k]
      BY <3>1, <3>2
    <3> HIDE DEF k
    <3>4. rank(reply[i].member) = k - 1 /\ reply[i].member \in Members
      BY <1>3, <3>3
    <3>5. k - 1 = from + i - 1
      BY <1>2, <2>2 DEF k
    <3> QED
      BY <3>2, <3>3, <3>4, <3>5 DEF k
  <2>4. {reply[i].member : i \in 1 .. Len(reply)} \subseteq window
    <3> SUFFICES ASSUME NEW i \in 1 .. Len(reply) PROVE reply[i].member \in window
      OBVIOUS
    <3>1. from <= from + i - 1 /\ from + i - 1 <= to
      BY <1>2, <2>1, <2>2
    <3> QED
      BY <2>3, <3>1
  <2>5. ASSUME NEW m \in window PROVE \E i \in 1 .. Len(reply) : reply[i].member = m
    <3>1. m \in Members /\ rank(m) \in 0 .. N - 1 /\ from <= rank(m) /\ rank(m) <= last
      BY <1>4, <2>1
    <3>2. rank(m) - from + 1 \in 1 .. Len(reply) /\ from + (rank(m) - from + 1) = rank(m) + 1
      BY <1>1, <1>2, <2>2, <3>1
    <3>3. reply[rank(m) - from + 1].member = m
      BY <1>3, <2>3, <3>1, <3>2
    <3> QED
      BY <3>2, <3>3
  <2>6. {reply[i].member : i \in 1 .. Len(reply)} = window
    BY <2>4, <2>5
  <2>7. \A i \in 2 .. Len(reply) : rank(reply[i].member) = rank(reply[i - 1].member) + 1
    <3> SUFFICES ASSUME NEW i \in 2 .. Len(reply)
                 PROVE  rank(reply[i].member) = rank(reply[i - 1].member) + 1
      OBVIOUS
    <3>1. Len(reply) \in Int /\ from \in Int
      BY <1>2, <2>2
    <3>2. i \in 1 .. Len(reply) /\ i - 1 \in 1 .. Len(reply)
      BY <3>1
    <3> QED
      BY <2>3, <3>1, <3>2
  <2> QED
    BY <1>5, <2>6, <2>7 DEF WindowExact, reply, rank
<1> QED
  BY <1>7, <1>8

-----------------------------------------------------------------------------
(* Ranges of scores. *)

\* Induction up to a bound, with a set for the predicate: the least number
\* that is missing cannot exist.
LEMMA UpTo ==
    ASSUME NEW N \in Nat, NEW P, 0 \in P, \A n \in 0 .. N - 1 : n \in P => n + 1 \in P
    PROVE  \A n \in 0 .. N : n \in P
<1> DEFINE T == {n \in Nat : n <= N /\ n \notin P}
<1>1. SUFFICES ASSUME T # {} PROVE FALSE
  OBVIOUS
<1>2. IsWellFoundedOn(OpToRel(<, Nat), Nat)
  BY NatLessThanWellFounded, Zenon
<1>3. T \subseteq Nat
  OBVIOUS
<1> HIDE DEF T
<1>4. PICK n \in T : \A m \in T : <<m, n>> \notin OpToRel(<, Nat)
  BY <1>1, <1>2, <1>3, WFMin, Zenon
<1>5. \A m \in T : ~(m < n)
  BY <1>3, <1>4 DEF OpToRel
<1>6. n \in Nat /\ n <= N /\ n \notin P
  BY <1>4 DEF T
<1>7. n \in 1 .. N /\ n - 1 \in 0 .. N - 1
  BY <1>6
<1>8. n - 1 \in P
  BY <1>5, <1>6, <1>7 DEF T
<1> QED
  BY <1>6, <1>7, <1>8

\* The rounds of the loop over the array.
Collect(r, e, lo, hi) == IF InRange(e.score, lo, hi) THEN Append(r, e) ELSE r

IsFound(g, list, lo, hi) ==
    g = [n \in 0 .. Len(list) |->
            IF n = 0 THEN <<>> ELSE Collect(g[n - 1], list[n], lo, hi)]

\* The indexes up to n that are in range.
Hits(list, lo, hi, n) == {i \in 1 .. n : InRange(list[i].score, lo, hi)}

\* The recursive definition of InScores has a solution.
LEMMA FoundExists ==
    ASSUME NEW list \in Seq(Entries), NEW lo, NEW hi
    PROVE  \E g : IsFound(g, list, lo, hi) /\ InScores(list, lo, hi) = g[Len(list)]
<1> DEFINE Upto(g, n) ==
               g = [i \in 0 .. n |->
                       IF i = 0 THEN <<>> ELSE Collect(g[i - 1], list[i], lo, hi)]
           P == {n \in Nat : \E g : Upto(g, n)}
<1>1. Len(list) \in Nat
  BY LenProperties
<1>2. 0 \in P
  <2>1. Upto([i \in 0 .. 0 |-> <<>>], 0)
    OBVIOUS
  <2> QED
    BY <2>1
<1>3. ASSUME NEW n \in 0 .. Len(list) - 1, n \in P PROVE n + 1 \in P
  <2>1. PICK g : Upto(g, n)
    BY <1>3
  <2> DEFINE h == [i \in 0 .. n + 1 |->
                      IF i = n + 1 THEN Collect(g[n], list[n + 1], lo, hi) ELSE g[i]]
  <2>2. n + 1 \in Nat /\ Upto(h, n + 1)
    BY <2>1
  <2> HIDE DEF h, Upto
  <2> QED
    BY <2>2
<1>4. \A n \in 0 .. Len(list) : n \in P
  <2> HIDE DEF P
  <2> QED
    BY <1>1, <1>2, <1>3, UpTo
<1>5. \E g : IsFound(g, list, lo, hi)
  <2>1. Len(list) \in P
    <3> HIDE DEF P
    <3> QED
      BY <1>1, <1>4
  <2> QED
    BY <2>1 DEF IsFound
<1> DEFINE h == CHOOSE g : IsFound(g, list, lo, hi)
<1>6. IsFound(h, list, lo, hi)
  BY <1>5
<1>7. InScores(list, lo, hi) = h[Len(list)]
  BY DEF InScores, IsFound, Collect
<1> QED
  BY <1>6, <1>7

\* One more index.
LEMMA HitsStep ==
    ASSUME NEW list, NEW lo, NEW hi, NEW n \in Nat
    PROVE  /\ IsFiniteSet(Hits(list, lo, hi, n)) /\ Cardinality(Hits(list, lo, hi, n)) \in Nat
           /\ InRange(list[n + 1].score, lo, hi) =>
                /\ Hits(list, lo, hi, n + 1) = Hits(list, lo, hi, n) \cup {n + 1}
                /\ Cardinality(Hits(list, lo, hi, n + 1)) = Cardinality(Hits(list, lo, hi, n)) + 1
           /\ ~InRange(list[n + 1].score, lo, hi) =>
                Hits(list, lo, hi, n + 1) = Hits(list, lo, hi, n)
<1> DEFINE H == Hits(list, lo, hi, n)
<1>1. IsFiniteSet(1 .. n)
  BY FS_Interval
<1>2. H \subseteq 1 .. n
  BY DEF Hits
<1>3. IsFiniteSet(H) /\ n + 1 \notin H
  BY <1>1, <1>2, FS_Subset
<1>4. Cardinality(H) \in Nat
  BY <1>3, FS_CardinalityType
<1>5. InRange(list[n + 1].score, lo, hi) => Hits(list, lo, hi, n + 1) = H \cup {n + 1}
  BY DEF Hits
<1>6. ~InRange(list[n + 1].score, lo, hi) => Hits(list, lo, hi, n + 1) = H
  BY DEF Hits
<1>7. Cardinality(H \cup {n + 1}) = Cardinality(H) + 1
  <2> HIDE DEF H
  <2> QED
    BY <1>3, FS_AddElement
<1> QED
  BY <1>3, <1>4, <1>5, <1>6, <1>7

LEMMA NoHits == ASSUME NEW list, NEW lo, NEW hi
                PROVE  Hits(list, lo, hi, 0) = {} /\ Cardinality(Hits(list, lo, hi, 0)) = 0
<1>1. Hits(list, lo, hi, 0) = {}
  BY DEF Hits
<1> QED
  BY <1>1, FS_EmptySet

\* Hits come in the order of their number.
LEMMA HitsGrow ==
    ASSUME NEW list, NEW lo, NEW hi, NEW i \in Nat, NEW j \in Nat, i <= j
    PROVE  Cardinality(Hits(list, lo, hi, i)) <= Cardinality(Hits(list, lo, hi, j))
<1>1. Hits(list, lo, hi, i) \subseteq Hits(list, lo, hi, j)
  BY DEF Hits
<1>2. IsFiniteSet(Hits(list, lo, hi, j))
  BY HitsStep
<1> QED
  BY <1>1, <1>2, FS_Subset

\* What the loop has collected: the k-th entry is the k-th hit.
LEMMA FoundAreHits ==
    ASSUME NEW list \in Seq(Entries), NEW lo, NEW hi
    PROVE  LET r == InScores(list, lo, hi)
               H(n) == Hits(list, lo, hi, n)
           IN  /\ r \in Seq(Entries)
               /\ Len(r) = Cardinality(H(Len(list)))
               /\ \A i \in H(Len(list)) : /\ Cardinality(H(i)) \in 1 .. Len(r)
                                          /\ r[Cardinality(H(i))] = list[i]
               /\ \A k \in 1 .. Len(r) : \E i \in H(Len(list)) : Cardinality(H(i)) = k
<1> DEFINE N == Len(list)
           H(n) == Hits(list, lo, hi, n)
           Right(r, n) ==
               /\ r \in Seq(Entries)
               /\ Len(r) = Cardinality(H(n))
               /\ \A i \in H(n) : /\ Cardinality(H(i)) \in 1 .. Len(r)
                                  /\ r[Cardinality(H(i))] = list[i]
               /\ \A k \in 1 .. Len(r) : \E i \in H(n) : Cardinality(H(i)) = k
<1>1. N \in Nat /\ \A i \in 1 .. N : list[i] \in Entries
  BY LenProperties, ElementOfSeq
<1>2. PICK g : IsFound(g, list, lo, hi) /\ InScores(list, lo, hi) = g[N]
  BY FoundExists
<1> DEFINE P == {n \in Nat : Right(g[n], n)}
<1>3. 0 \in P
  <2>1. g[0] = << >>
    BY <1>1, <1>2 DEF IsFound
  <2>2. << >> \in Seq(Entries) /\ Len(<< >>) = 0
    BY EmptySeq
  <2>3. H(0) = {} /\ Cardinality(H(0)) = 0
    BY NoHits
  <2> HIDE DEF H
  <2>4. Right(g[0], 0)
    BY <2>1, <2>2, <2>3
  <2> QED
    BY <2>4
<1>4. ASSUME NEW n \in 0 .. N - 1, n \in P PROVE n + 1 \in P
  <2> DEFINE r == g[n]
             e == list[n + 1]
             q == g[n + 1]
             c(i) == Cardinality(H(i))
  <2>1. n \in Nat /\ n + 1 \in 1 .. N /\ e \in Entries
    BY <1>1
  <2>2. q = IF InRange(e.score, lo, hi) THEN Append(r, e) ELSE r
    <3>1. n + 1 \in 0 .. N /\ n + 1 # 0 /\ n + 1 - 1 = n
      BY <2>1
    <3>2. q = Collect(r, e, lo, hi)
      BY <1>2, <3>1 DEF IsFound
    <3> QED
      BY <3>2 DEF Collect
  <2>3. Right(r, n)
    BY <1>4
  <2>4. CASE ~InRange(e.score, lo, hi)
    <3>1. q = r /\ H(n + 1) = H(n)
      BY <2>1, <2>2, <2>4, HitsStep
    <3> HIDE DEF H, r, q
    <3> QED
      BY <2>1, <2>3, <3>1 DEF q
  <2>5. CASE InRange(e.score, lo, hi)
    <3>1. /\ q = Append(r, e)
          /\ H(n + 1) = H(n) \cup {n + 1} /\ c(n + 1) = c(n) + 1 /\ c(n) \in Nat
      BY <2>1, <2>2, <2>5, HitsStep
    <3> HIDE DEF H, r, q, e
    <3>2. r \in Seq(Entries) /\ Len(r) = c(n)
      BY <2>3
    <3>3. /\ q \in Seq(Entries) /\ Len(q) = c(n) + 1
          /\ \A i \in 1 .. c(n) : q[i] = r[i]
          /\ q[c(n) + 1] = e
      BY <2>1, <3>1, <3>2, AppendProperties
    <3>4. \A i \in H(n + 1) : c(i) \in 1 .. Len(q) /\ q[c(i)] = list[i]
      <4> SUFFICES ASSUME NEW i \in H(n + 1) PROVE c(i) \in 1 .. Len(q) /\ q[c(i)] = list[i]
        OBVIOUS
      <4>1. CASE i = n + 1
        BY <3>1, <3>3, <4>1 DEF e
      <4>2. CASE i \in H(n)
        <5>1. c(i) \in 1 .. c(n) /\ r[c(i)] = list[i]
          BY <2>3, <3>2, <4>2
        <5> QED
          BY <3>1, <3>3, <5>1
      <4> QED
        BY <3>1, <4>1, <4>2
    <3>5. \A k \in 1 .. Len(q) : \E i \in H(n + 1) : c(i) = k
      <4> SUFFICES ASSUME NEW k \in 1 .. Len(q) PROVE \E i \in H(n + 1) : c(i) = k
        OBVIOUS
      <4>1. CASE k = c(n) + 1
        BY <3>1, <4>1
      <4>2. CASE k \in 1 .. c(n)
        BY <2>3, <3>1, <3>2, <4>2
      <4> QED
        BY <3>1, <3>3, <4>1, <4>2
    <3>6. Right(q, n + 1)
      BY <3>1, <3>3, <3>4, <3>5
    <3> QED
      BY <2>1, <3>6 DEF q
  <2> QED
    BY <2>4, <2>5
<1>5. \A n \in 0 .. N : n \in P
  <2> HIDE DEF P
  <2> QED
    BY <1>1, <1>3, <1>4, UpTo
<1>6. Right(g[N], N)
  BY <1>1, <1>5
<1> QED
  BY <1>2, <1>6

\* What a range of scores means to the Map.
LEMMA RangeOfMember ==
    ASSUME ZInv, zcmd = Idle,
           NEW lo \in [val : Numbers, exclusive : BOOLEAN],
           NEW hi \in [val : Numbers, exclusive : BOOLEAN], NEW m \in Members
    PROVE  m \in MembersIn(lo, hi) <=> Place(m) \in Hits(zsorted, lo, hi, Len(zsorted))
<1>1. Place(m) \in 1 .. Len(zsorted) /\ zsorted[Place(m)].score = zmembers[m]
  BY PlaceIs
<1>2. zmembers[m] \in Scores
  BY DEF Members, Has, ZInv, ZTypeOK
<1>3. zmembers[m] \in Int /\ lo.val \in Int /\ hi.val \in Int
      /\ lo.val # NotANumber /\ hi.val # NotANumber
      /\ lo.exclusive \in BOOLEAN /\ hi.exclusive \in BOOLEAN
  BY <1>2, ScoreFacts
<1>4. InRange(zmembers[m], lo, hi) <=>
        /\ zmembers[m] # NotANumber
        /\ lo.val <= zmembers[m] /\ zmembers[m] <= hi.val
        /\ lo.exclusive => zmembers[m] # lo.val
        /\ hi.exclusive => zmembers[m] # hi.val
  <2>1. \A a, b \in Int : a # NotANumber /\ b # NotANumber => (AtMost(a, b) <=> a <= b)
    BY DEF AtMost
  <2>2. \A a \in Int : ~AtMost(a, NotANumber) /\ ~AtMost(NotANumber, a)
    BY DEF AtMost
  <2>3. CASE zmembers[m] = NotANumber
    BY <1>3, <2>2, <2>3 DEF InRange
  <2>4. CASE zmembers[m] # NotANumber
    <3>1. /\ AtMost(zmembers[m], lo.val) <=> zmembers[m] <= lo.val
          /\ AtMost(lo.val, zmembers[m]) <=> lo.val <= zmembers[m]
          /\ AtMost(zmembers[m], hi.val) <=> zmembers[m] <= hi.val
          /\ AtMost(hi.val, zmembers[m]) <=> hi.val <= zmembers[m]
      BY <1>3, <2>1, <2>4
    <3> QED
      BY <1>3, <2>4, <3>1 DEF InRange
  <2> QED
    BY <2>3, <2>4
<1> QED
  BY <1>1, <1>4 DEF MembersIn, Hits

\* ZCOUNT.
LEMMA CountTheorem ==
    ASSUME ZInv, zcmd = Idle,
           NEW lo \in [val : Numbers, exclusive : BOOLEAN],
           NEW hi \in [val : Numbers, exclusive : BOOLEAN]
    PROVE  ZCount(lo, hi) = Cardinality(MembersIn(lo, hi))
<1> DEFINE H == Hits(zsorted, lo, hi, Len(zsorted))
<1>1. zsorted \in Seq(Entries) /\ Len(zsorted) \in Nat
  BY SizeIsLength DEF ZInv, ZTypeOK
<1>2. MembersIn(lo, hi) \subseteq Members
  BY DEF MembersIn
<1>3. {Place(m) : m \in MembersIn(lo, hi)} = H
  <2>1. \A m \in MembersIn(lo, hi) : Place(m) \in H
    BY <1>2, RangeOfMember
  <2>2. ASSUME NEW i \in H PROVE \E m \in MembersIn(lo, hi) : Place(m) = i
    <3>1. i \in 1 .. Len(zsorted)
      BY DEF Hits
    <3>2. zsorted[i].member \in Members /\ Place(zsorted[i].member) = i
      BY <3>1, PlaceOf
    <3> QED
      BY <3>2, RangeOfMember
  <2> QED
    BY <2>1, <2>2
<1>4. Cardinality(H) = Cardinality(MembersIn(lo, hi))
  BY <1>2, <1>3, CountPlaces
<1>5. Len(InScores(zsorted, lo, hi)) = Cardinality(H)
  BY <1>1, FoundAreHits
<1> QED
  BY <1>4, <1>5 DEF ZCount

\* How many members in range have a lower rank.
LEMMA SkippedIsHits ==
    ASSUME ZInv, zcmd = Idle,
           NEW lo \in [val : Numbers, exclusive : BOOLEAN],
           NEW hi \in [val : Numbers, exclusive : BOOLEAN], NEW m \in MembersIn(lo, hi)
    PROVE  Cardinality({n \in MembersIn(lo, hi) : Rank(n) < Rank(m)})
             = Cardinality(Hits(zsorted, lo, hi, Place(m))) - 1
<1> DEFINE S == {n \in MembersIn(lo, hi) : Rank(n) < Rank(m)}
           H(i) == Hits(zsorted, lo, hi, i)
           p == Place(m)
<1>1. MembersIn(lo, hi) \subseteq Members /\ S \subseteq Members /\ m \in Members
  BY DEF MembersIn
<1>2. Len(zsorted) \in Nat /\ p \in 1 .. Len(zsorted) /\ p \in H(Len(zsorted))
  BY <1>1, SizeIsLength, PlaceIs, RangeOfMember
<1>3. p - 1 \in Nat /\ p - 1 + 1 = p
  BY <1>2
<1>4. InRange(zsorted[p].score, lo, hi)
  BY <1>2 DEF Hits
<1>5. Cardinality(H(p)) = Cardinality(H(p - 1)) + 1 /\ Cardinality(H(p - 1)) \in Nat
  <2> HIDE DEF p
  <2>1. InRange(zsorted[p - 1 + 1].score, lo, hi)
    BY <1>3, <1>4
  <2>2. /\ Cardinality(H(p - 1 + 1)) = Cardinality(H(p - 1)) + 1
        /\ Cardinality(H(p - 1)) \in Nat
    BY <1>3, <2>1, HitsStep
  <2> QED
    BY <1>3, <2>2
<1>6. {Place(n) : n \in S} = H(p - 1)
  <2>1. ASSUME NEW n \in S PROVE Place(n) \in H(p - 1)
    <3>1. n \in Members /\ Place(n) \in H(Len(zsorted)) /\ Place(n) \in 1 .. Len(zsorted)
      BY <1>1, RangeOfMember, PlaceIs
    <3>2. Place(n) < p
      BY <1>2, <3>1 DEF Rank
    <3> QED
      BY <1>2, <3>1, <3>2 DEF Hits
  <2>2. ASSUME NEW i \in H(p - 1) PROVE \E n \in S : Place(n) = i
    <3>1. i \in 1 .. Len(zsorted) /\ i < p /\ i \in H(Len(zsorted))
      BY <1>2 DEF Hits
    <3>2. zsorted[i].member \in Members /\ Place(zsorted[i].member) = i
      BY <3>1, PlaceOf
    <3>3. zsorted[i].member \in MembersIn(lo, hi)
      BY <3>1, <3>2, RangeOfMember
    <3>4. Rank(zsorted[i].member) < Rank(m)
      BY <1>2, <3>1, <3>2 DEF Rank
    <3> QED
      BY <3>2, <3>3, <3>4
  <2> QED
    BY <2>1, <2>2
<1>7. Cardinality(S) = Cardinality(H(p - 1))
  <2> HIDE DEF S, H
  <2> QED
    BY <1>1, <1>6, CountPlaces
<1> QED
  BY <1>5, <1>7

\* ZRANGEBYSCORE, for all offsets and counts.
LEMMA LimitTheorem ==
    ASSUME ZInv, zcmd = Idle,
           NEW lo \in [val : Numbers, exclusive : BOOLEAN],
           NEW hi \in [val : Numbers, exclusive : BOOLEAN],
           NEW offset \in Nat, NEW count \in Int
    PROVE  LimitExact(lo, hi, offset, count)
<1> DEFINE N == Len(zsorted)
           c(i) == Cardinality(Hits(zsorted, lo, hi, i))
           found == InScores(zsorted, lo, hi)
           L == Len(found)
           rest == SubSeq(found, offset + 1, L)
           R == Len(rest)
           n == IF count < 0 THEN R ELSE IF count <= R THEN count ELSE R
           reply == ZRangeByScore(lo, hi, offset, count)
           skipped(m) == Cardinality({q \in MembersIn(lo, hi) : Rank(q) < Rank(m)})
<1>1. N \in Nat /\ zsorted \in Seq(Entries)
  BY SizeIsLength DEF ZInv, ZTypeOK
<1>2. /\ found \in Seq(Entries) /\ L \in Nat
      /\ \A i \in Hits(zsorted, lo, hi, N) : c(i) \in 1 .. L /\ found[c(i)] = zsorted[i]
      /\ \A k \in 1 .. L : \E i \in Hits(zsorted, lo, hi, N) : c(i) = k
  BY <1>1, FoundAreHits, LenProperties
<1>3. ASSUME NEW m \in MembersIn(lo, hi)
      PROVE  skipped(m) + 1 \in 1 .. L /\ skipped(m) \in Int /\ found[skipped(m) + 1].member = m
  <2>1. m \in Members /\ Place(m) \in Hits(zsorted, lo, hi, N)
    BY RangeOfMember DEF MembersIn
  <2>2. skipped(m) = c(Place(m)) - 1
    BY SkippedIsHits
  <2>3. c(Place(m)) \in 1 .. L /\ found[c(Place(m))] = EntryOf(m)
    BY <1>2, <2>1, PlaceIs
  <2>4. EntryOf(m).member = m
    BY DEF EntryOf
  <2> HIDE DEF c, skipped, found, L, N
  <2>5. skipped(m) + 1 = c(Place(m)) /\ skipped(m) \in Int
    BY <1>2, <2>2, <2>3
  <2> QED
    BY <2>3, <2>4, <2>5
<1>4. ASSUME NEW k \in 1 .. L
      PROVE  \E i \in 1 .. N : /\ c(i) = k /\ found[k] = zsorted[i]
                               /\ found[k].member \in MembersIn(lo, hi)
                               /\ Place(found[k].member) = i
                               /\ skipped(found[k].member) = k - 1
  <2>1. PICK i \in Hits(zsorted, lo, hi, N) : c(i) = k
    BY <1>2
  <2>2. i \in 1 .. N /\ found[k] = zsorted[i]
    BY <1>2, <2>1 DEF Hits
  <2>3. found[k].member \in Members /\ Place(found[k].member) = i
    BY <2>2, PlaceOf
  <2>4. found[k].member \in MembersIn(lo, hi)
    BY <2>1, <2>3, RangeOfMember
  <2>5. skipped(found[k].member) = k - 1
    BY <2>1, <2>3, <2>4, SkippedIsHits
  <2> QED
    BY <2>1, <2>2, <2>3, <2>4, <2>5
<1>5. R = (IF offset + 1 <= L THEN L - offset ELSE 0) /\ rest \in Seq(Entries)
      /\ \A i \in 1 .. R : rest[i] = found[offset + i]
  <2> HIDE DEF found
  <2>1. /\ rest \in Seq(Entries)
        /\ R = IF offset + 1 <= L THEN L - (offset + 1) + 1 ELSE 0
        /\ \A i \in 1 .. (IF offset + 1 <= L THEN L - (offset + 1) + 1 ELSE 0) :
              rest[i] = found[offset + 1 + i - 1]
    <3>1. offset + 1 \in Nat \ {0} /\ L \in Int /\ L <= Len(found)
      BY <1>2
    <3> QED
      BY <1>2, <3>1, PartOf
  <2>2. R = IF offset + 1 <= L THEN L - offset ELSE 0
    BY <1>2, <2>1
  <2>3. \A i \in 1 .. R : offset + 1 + i - 1 = offset + i
    BY <1>2, <2>2
  <2> QED
    BY <2>1, <2>2, <2>3
<1>6. Len(reply) = n /\ n \in Nat /\ \A i \in 1 .. n : reply[i] = found[offset + i]
  <2>1. Max({0, offset}) = offset
    BY MaxOfTwo
  <2>2. reply = IF count < 0 THEN rest ELSE SubSeq(rest, 1, Min({count, R}))
    BY <2>1 DEF ZRangeByScore
  <2>3. R \in Nat /\ n \in Nat
    BY <1>2, <1>5
  <2>4. CASE count < 0
    BY <1>5, <2>2, <2>3, <2>4
  <2>5. CASE count >= 0
    <3>1. Min({count, R}) = n
      <4>1. Min({count, R}) = IF count <= R THEN count ELSE R
        <5> HIDE DEF R
        <5> QED
          BY <2>3, MaxOfTwo
      <4> QED
        BY <2>5, <4>1
    <3>2. reply = SubSeq(rest, 1, n)
      <4>1. reply = SubSeq(rest, 1, Min({count, R}))
        <5>1. ~(count < 0)
          BY <2>5
        <5> HIDE DEF reply, rest, R
        <5> QED
          BY <2>2, <5>1
      <4> HIDE DEF reply, rest, R, n
      <4> QED
        BY <3>1, <4>1
    <3>3. n <= R /\ n \in Int
      BY <2>3
    <3> HIDE DEF rest, R, n, reply, found
    <3>4. Len(reply) = (IF 1 <= n THEN n - 1 + 1 ELSE 0)
          /\ \A i \in 1 .. (IF 1 <= n THEN n - 1 + 1 ELSE 0) : reply[i] = rest[1 + i - 1]
      <4>1. 1 \in Nat \ {0} /\ n <= Len(rest)
        BY <3>3 DEF R
      <4> QED
        BY <1>5, <3>2, <3>3, <4>1, PartOf
    <3>5. Len(reply) = n /\ \A i \in 1 .. n : reply[i] = rest[i]
      BY <2>3, <3>4
    <3>6. \A i \in 1 .. n : i \in 1 .. R
      BY <2>3, <3>3
    <3> QED
      BY <1>5, <2>3, <3>5, <3>6
  <2> QED
    BY <2>4, <2>5
<1>7. \A k \in 1 .. L : (\E i \in 1 .. n : k = offset + i)
                          <=> /\ k - 1 >= offset
                              /\ count >= 0 => k - 1 < offset + count
  <2> HIDE DEF found
  <2>1. ASSUME NEW k \in 1 .. L, NEW i \in 1 .. n, k = offset + i
        PROVE  k - 1 >= offset /\ (count >= 0 => k - 1 < offset + count)
    BY <1>2, <1>5, <2>1
  <2>2. ASSUME NEW k \in 1 .. L, k - 1 >= offset, count >= 0 => k - 1 < offset + count
        PROVE  k - offset \in 1 .. n /\ k = offset + (k - offset)
    BY <1>2, <1>5, <2>2
  <2> QED
    BY <2>1, <2>2
<1>8. \A i \in 1 .. n : offset + i \in 1 .. L
  <2> HIDE DEF found
  <2> QED
    BY <1>2, <1>5
<1> HIDE DEF reply, n, found, L, c, skipped, N
<1>9. {reply[i].member : i \in 1 .. Len(reply)} =
        {m \in MembersIn(lo, hi) : /\ skipped(m) >= offset
                                   /\ count >= 0 => skipped(m) < offset + count}
  <2>1. ASSUME NEW i \in 1 .. n
        PROVE  /\ reply[i].member \in MembersIn(lo, hi)
               /\ skipped(reply[i].member) >= offset
               /\ count >= 0 => skipped(reply[i].member) < offset + count
    <3>1. offset + i \in 1 .. L /\ reply[i] = found[offset + i]
      BY <1>6, <1>8
    <3>2. reply[i].member \in MembersIn(lo, hi) /\ skipped(reply[i].member) = offset + i - 1
      BY <1>4, <3>1
    <3> QED
      BY <1>7, <3>1, <3>2
  <2>2. ASSUME NEW m \in MembersIn(lo, hi), skipped(m) >= offset,
               count >= 0 => skipped(m) < offset + count
        PROVE  \E i \in 1 .. n : reply[i].member = m
    <3>1. skipped(m) + 1 \in 1 .. L /\ (skipped(m) + 1) - 1 = skipped(m)
      BY <1>3
    <3> DEFINE k == skipped(m) + 1
    <3>2. k \in 1 .. L /\ k - 1 >= offset /\ (count >= 0 => k - 1 < offset + count)
      BY <2>2, <3>1
    <3> HIDE DEF k
    <3>3. PICK i \in 1 .. n : k = offset + i
      BY <1>7, <3>2
    <3> QED
      BY <1>3, <1>6, <3>3 DEF k
  <2> QED
    BY <1>6, <2>1, <2>2
<1>10. \A i \in 2 .. Len(reply) : Rank(reply[i - 1].member) < Rank(reply[i].member)
  <2> SUFFICES ASSUME NEW i \in 2 .. n PROVE Rank(reply[i - 1].member) < Rank(reply[i].member)
    BY <1>6
  <2> DEFINE j == i - 1
             a == offset + j
             b == offset + i
  <2>1. i \in 1 .. n /\ j \in 1 .. n /\ a \in Int /\ b \in Int /\ a < b
    BY <1>6
  <2>2. a \in 1 .. L /\ b \in 1 .. L /\ reply[j] = found[a] /\ reply[i] = found[b]
    BY <1>6, <1>8, <2>1
  <2> HIDE DEF j, a, b
  <2>3. PICK u \in 1 .. N : c(u) = a /\ Place(found[a].member) = u
    BY <1>4, <2>2
  <2>4. PICK v \in 1 .. N : c(v) = b /\ Place(found[b].member) = v
    BY <1>4, <2>2
  <2>5. u \in Nat /\ v \in Nat
    BY <1>1
  <2>6. ~(v <= u)
    <3>1. v <= u => c(v) <= c(u)
      BY <2>5, HitsGrow DEF c
    <3> QED
      BY <2>1, <2>3, <2>4, <3>1
  <2> QED
    BY <2>2, <2>3, <2>4, <2>5, <2>6 DEF Rank, j
<1> QED
  BY <1>9, <1>10 DEF LimitExact, reply, skipped

\* For any indexes, offsets and counts, not only those a run can try: between
\* commands every reply that reads the array says what the Map says.
EveryRangeExact ==
    zcmd = Idle =>
        /\ ~znan => RanksExact
        /\ \A start, stop \in Int, rev \in BOOLEAN : WindowExact(start, stop, rev)
        /\ \A lo, hi \in [val : Numbers, exclusive : BOOLEAN] :
             /\ ZCount(lo, hi) = Cardinality(MembersIn(lo, hi))
             /\ \A offset \in Nat, count \in Int : LimitExact(lo, hi, offset, count)

LEMMA RangesFollow == ZInv => EveryRangeExact
  BY RanksTheorem, WindowsTheorem, CountTheorem, LimitTheorem DEF EveryRangeExact

\* For any names and scores: ZRANK, ZRANGE, ZRANGEBYSCORE and ZCOUNT say what
\* the Map says, for all indexes, bounds, offsets and counts.
THEOREM EveryRangeIsExact == ZSpec => []EveryRangeExact
<1>1. ZInv => EveryRangeExact
  BY RangesFollow
<1> QED
  BY <1>1, ZInvHolds, PTL

\* In particular for those around the ends of the array.
THEOREM RangesAreExact == ZSpec => []RangesExact
<1>1. ZInv => RangesExact
  <2> SUFFICES ASSUME ZInv, zcmd = Idle PROVE (~znan => RanksExact) /\ WindowsExact /\ ScoresExact
    BY DEF RangesExact
  <2>1. EveryRangeExact
    BY RangesFollow
  <2>2. Cardinality(Members) \in Nat
    BY SizeIsLength
  <2>3. WindowsExact
    BY <2>1, <2>2 DEF EveryRangeExact, WindowsExact
  <2>4. ScoresExact
    <3>1. 0 .. 1 \subseteq Nat /\ -1 .. 2 \subseteq Int
      OBVIOUS
    <3> QED
      BY <2>1, <3>1 DEF EveryRangeExact, ScoresExact
  <2> QED
    BY <2>1, <2>3, <2>4 DEF EveryRangeExact
<1> QED
  BY <1>1, ZInvHolds, PTL
=============================================================================
