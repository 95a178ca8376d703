-------------------------------- MODULE Scan -------------------------------
(***************************************************************************)
(* SCAN (src/src/commands/keys.js): a client walks over the keys of its    *)
(* database with one command after the other, while other clients add and  *)
(* delete keys.  The server keeps nothing between two commands: a cursor   *)
(* is the number of a bucket, and a key's bucket is a hash of its name.    *)
(***************************************************************************)
EXTENDS Integers, FiniteSets

CONSTANTS
    ScanKeys,
    Buckets,      \* bucketCount
    Bucket,       \* the bucket of each key: simpleHash and its mask
    MatchedKeys,  \* the keys that the MATCH pattern accepts
    Counts        \* the COUNT options that clients pass

ASSUME ScanParameters ==
    /\ Buckets \in Nat \ {0}
    /\ Bucket \in [ScanKeys -> 0 .. Buckets - 1]
    /\ MatchedKeys \subseteq ScanKeys
    /\ Counts \subseteq Nat \ {0}

Finished == -1

VARIABLES
    skeys,        \* the keys of the database
    scursor,      \* the cursor the client has, or Finished
    sgot,         \* the keys it has been sent in this scan
    \* History: the keys that have been there during the whole scan, and those
    \* that have been there at some time of it.
    sstayed, sseen

svars == <<skeys, scursor, sgot, sstayed, sseen>>

SInit ==
    /\ skeys \in SUBSET ScanKeys
    /\ scursor = Finished
    /\ sgot = {} /\ sstayed = {} /\ sseen = {}

AddKey(k) ==
    /\ skeys' = skeys \cup {k}
    /\ sseen' = IF scursor = Finished THEN sseen ELSE sseen \cup {k}
    /\ UNCHANGED <<scursor, sgot, sstayed>>

DeleteKey(k) ==
    /\ skeys' = skeys \ {k}
    /\ sstayed' = sstayed \ {k}
    /\ UNCHANGED <<scursor, sgot, sseen>>

StartScan ==
    /\ scursor = Finished
    /\ scursor' = 0
    /\ sgot' = {} /\ sstayed' = skeys /\ sseen' = skeys
    /\ UNCHANGED skeys

\* The keys a command returns that visits the buckets from the cursor to last.
Returned(last) ==
    {k \in skeys \cap MatchedKeys : Bucket[k] >= scursor /\ Bucket[k] <= last}

\* COUNT is a number of buckets; an empty reply is not sent before the end.
StopsAfter(last, count) == last - scursor + 1 >= count /\ Returned(last) # {}

\* Mutant: the next command begins with the bucket this one ended in.
NextCursor_Repeats(last) == IF last + 1 < Buckets THEN last ELSE Finished

\* Mutant: the cursor that is sent back is the one that came.
NextCursor_Stays(last) == IF last + 1 < Buckets THEN scursor ELSE Finished

\* The cursor after a visit that ended with last; 0 tells the client to stop.
NextCursor(last) == IF last + 1 < Buckets THEN last + 1 ELSE Finished

\* Mutant: the cursor skips a bucket.
ScanStep_Skips(count) ==
    /\ scursor # Finished
    /\ \E last \in scursor .. Buckets - 1 :
          /\ last = Buckets - 1 \/ StopsAfter(last, count)
          /\ \A b \in scursor .. last - 1 : ~StopsAfter(b, count)
          /\ sgot' = sgot \cup Returned(last)
          /\ scursor' = IF last + 2 < Buckets THEN last + 2 ELSE Finished
    /\ UNCHANGED <<skeys, sstayed, sseen>>

ScanStep(count) ==
    /\ scursor # Finished
    /\ \E last \in scursor .. Buckets - 1 :
          /\ last = Buckets - 1 \/ StopsAfter(last, count)
          /\ \A b \in scursor .. last - 1 : ~StopsAfter(b, count)
          /\ sgot' = sgot \cup Returned(last)
          /\ scursor' = NextCursor(last)
    /\ UNCHANGED <<skeys, sstayed, sseen>>

SNext ==
    \/ \E k \in ScanKeys : AddKey(k) \/ DeleteKey(k)
    \/ StartScan
    \/ \E count \in Counts : ScanStep(count)

SSpec == SInit /\ [][SNext]_svars

\* A client that scans goes on until the cursor is 0.
ScanFairness == WF_svars(\E count \in Counts : ScanStep(count))

-----------------------------------------------------------------------------
\* A scan that has come to its end has returned every matching key that was
\* there all the time, whatever was added, deleted and asked for in between,
\* and no key that was never there (keys.js:203-254).
FullScanComplete ==
    /\ scursor = Finished => sstayed \cap MatchedKeys \subseteq sgot
    /\ sgot \subseteq sseen \cap MatchedKeys

\* A scan returns no key twice, not even one that is deleted and added again:
\* what it has returned lies behind the cursor (keys.js:225-250).
NoKeyTwice == scursor # Finished => \A k \in sgot : Bucket[k] < scursor

\* Every scan comes to an end, however many keys are added meanwhile
\* (keys.js:233-251).
ScanEnds == scursor # Finished ~> scursor = Finished
=============================================================================
