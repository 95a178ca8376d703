------------------------------- MODULE Hashes ------------------------------
(***************************************************************************)
(* Hashes (src/src/commands/hashes.js) under one key of the store.  Fields *)
(* hold strings, and what matters of a string is whether it reads as a     *)
(* number: a value is here the number it denotes, counted in halves so     *)
(* that some are no integers, or Text.  strictParseInt takes the integers  *)
(* up to IntMax, strictParseFloat every number; the sums of HINCRBYFLOAT   *)
(* are not finite beyond FloatMax.                                         *)
(***************************************************************************)
EXTENDS Integers, FiniteSets

CONSTANTS
    HFields,
    HGiven,       \* the numbers that clients write or add, in halves
    Text,         \* a string that is no number
    NoField,      \* what the Map has for a field it does not have
    IntMax,       \* INT_MAX
    FloatMax,     \* bounds the finite numbers, in halves
    HMayRefuse    \* whether store.set may refuse a write (maxmemory)

\* Strings that are no numbers, and absent fields, are told from numbers.
ASSUME HashParameters ==
    /\ IntMax \in Nat /\ FloatMax \in Nat
    /\ HGiven \subseteq Int
    /\ Text \notin Int /\ NoField \notin Int /\ Text # NoField

VARIABLES
    hstored,      \* is the Map in the store
    hmap,         \* the Map
    hreply        \* the last reply: was it an error, how many fields it counts

hvars == <<hstored, hmap, hreply>>

NoFields == [f \in HFields |-> NoField]
FieldsIn(map) == {f \in HFields : map[f] # NoField}

IsNumber(v) == v \notin {Text, NoField}
ParsesAsInt(v) == IsNumber(v) /\ v % 2 = 0 /\ v \in (-2 * IntMax) .. (2 * IntMax)
ParsesAsFloat(v) == IsNumber(v)
Number(v) == IF v = NoField THEN 0 ELSE v

Ok(n) == [error |-> FALSE, count |-> n]
Error == [error |-> TRUE, count |-> 0]

HInit == hstored = FALSE /\ hmap = NoFields /\ hreply = Ok(0)

-----------------------------------------------------------------------------
\* store.set: the Map is stored or refused, which the command does not notice;
\* what it put into a Map that is in the store stays there.
SetHash(map) ==
    \/ hmap' = map /\ hstored' = TRUE
    \/ HMayRefuse /\ ~hstored /\ UNCHANGED <<hmap, hstored>>
    \/ HMayRefuse /\ hstored /\ hmap' = map /\ UNCHANGED hstored

Reply(n) == hreply' = Ok(n)
Fail == hreply' = Error /\ UNCHANGED <<hstored, hmap>>

\* HSET of two pairs, applied one after the other, and HMSET, which replies OK;
\* with f = g and v = w, of one.
Hset(f, v, g, w) ==
    LET first == [hmap EXCEPT ![f] = v]
    IN  /\ SetHash([first EXCEPT ![g] = w])
        /\ Reply((IF hmap[f] = NoField THEN 1 ELSE 0)
                 + (IF first[g] = NoField THEN 1 ELSE 0))

Hsetnx(f, v) ==
    IF hmap[f] # NoField THEN Reply(0) /\ UNCHANGED <<hstored, hmap>>
    ELSE SetHash([hmap EXCEPT ![f] = v]) /\ Reply(1)

\* Mutant: only the operands are held against the limits.
Hincrby_Unchecked(f, n) ==
    IF ~ParsesAsInt(n) \/ ~(hmap[f] = NoField \/ ParsesAsInt(hmap[f])) THEN Fail
    ELSE /\ SetHash([hmap EXCEPT ![f] = Number(hmap[f]) + n])
         /\ Reply(0)

Hincrby(f, n) ==
    LET result == Number(hmap[f]) + n
    IN  IF \/ ~ParsesAsInt(n)
           \/ hmap[f] # NoField /\ ~ParsesAsInt(hmap[f])
           \/ result \notin (-2 * IntMax) .. (2 * IntMax)
        THEN Fail
        ELSE SetHash([hmap EXCEPT ![f] = result]) /\ Reply(0)

Hincrbyfloat(f, n) ==
    LET result == Number(hmap[f]) + n
    IN  IF \/ ~ParsesAsFloat(n)
           \/ hmap[f] # NoField /\ ~ParsesAsFloat(hmap[f])
           \/ result \notin (-FloatMax) .. FloatMax
        THEN Fail
        ELSE SetHash([hmap EXCEPT ![f] = result]) /\ Reply(0)

\* An emptied Map is deleted.
Hdel(F) ==
    /\ hmap' = [f \in HFields |-> IF f \in F THEN NoField ELSE hmap[f]]
    /\ Reply(Cardinality(F \cap FieldsIn(hmap)))
    /\ hstored' = (FieldsIn(hmap') # {})

\* DEL, an expiry, an eviction, FLUSHDB...
HVanish ==
    /\ hstored
    /\ hstored' = FALSE /\ hmap' = NoFields
    /\ Reply(0)

HStrings == HGiven \cup {Text}

HNext ==
    \/ \E f, g \in HFields, v, w \in HStrings : Hset(f, v, g, w)
    \/ \E f \in HFields, v \in HStrings : Hsetnx(f, v)
    \/ \E f \in HFields, n \in HStrings : Hincrby(f, n) \/ Hincrbyfloat(f, n)
    \/ \E F \in (SUBSET HFields) \ {{}} : Hdel(F)
    \/ HVanish

HSpec == HInit /\ [][HNext]_hvars

-----------------------------------------------------------------------------
\* HSET counts the fields it adds, each once even if it is named twice.
CountsNewFields ==
    \A f, g \in HFields, v, w \in HStrings :
        Hset(f, v, g, w) => hreply'.count = Cardinality({f, g} \ FieldsIn(hmap))

\* What HINCRBY has written can be incremented again: the sum of two safe
\* integers that is none is rejected.
StaysInteger ==
    \A f \in HFields, n \in HStrings :
        Hincrby(f, n) /\ hmap' # hmap => ParsesAsInt(hmap'[f])

\* A reply tells what happened to the Map: an error changes nothing, HSET
\* counts what it has added, even if the write is refused, HINCRBY leaves no
\* value that it would not accept, and no emptied Map stays in the store
\* (hashes.js:15-22, 46-50, 146-197).
HashRepliesTrue ==
    [][ hvars' # hvars =>
          /\ hreply'.error => UNCHANGED <<hstored, hmap>>
          /\ CountsNewFields /\ StaysInteger
          /\ hstored' <=> FieldsIn(hmap') # {} ]_hvars
=============================================================================
