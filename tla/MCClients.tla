----------------------------- MODULE MCClients -----------------------------
(***************************************************************************)
(* Model checking of what clients meet on the way to the store and back:   *)
(* frames and RESP messages, glob patterns, SCAN, the commands on sorted   *)
(* sets, lists and hashes, and the front end.  These parts share no state, *)
(* so a behaviour runs one of them and leaves the others as they began:    *)
(* the states add up and do not multiply.                                  *)
(***************************************************************************)
EXTENDS SortedSets, Lists, Hashes, Scan, Glob, Wire, Frames, Dashboard, TLC

CONSTANTS x, y, k1, k2, k3, k4

VARIABLE part     \* the part that runs

-----------------------------------------------------------------------------
MCZGiven == {-2, 0, 2}
MCHGiven == {-4, 1, 2, 6}
MCBucket == k1 :> 0 @@ k2 :> 1 @@ k3 :> 1 @@ k4 :> 3
MCItems == {{x}, {y}, {x, y}, Unclosed}

\* The bytes of words.
MCLetters == {x, y, Quit}

\* Messages: commands whose data look like the protocol, QUIT, an empty and a
\* null array, a simple string, lines.  The lines of a stream all end alike.
Command(args) == [form |-> "array", args |-> args]
Line(args, end) == [form |-> "line", args |-> args, end |-> end]
MCMessages ==
    {Command(<<<<x>>, CRLF>>), Command(<<<<x>>, <<Asterisk>>, <<>>>>),
     Command(<<<<Quit>>>>), Command(<<>>),
     [form |-> "null", args |-> <<>>], [form |-> "simple", args |-> <<>>],
     Line(<<<<x>>, <<y>>>>, CRLF), Line(<<>>, CRLF)}
MCLines == {Line(<<<<x>>, <<y>>>>, <<LF>>), Line(<<>>, <<LF>>), Line(<<<<Quit>>>>, <<LF>>)}
MCStreams == UNION {[1 .. n -> MCMessages] \cup [1 .. n -> MCLines] : n \in 1 .. 3}

\* Payloads below, at and above both limits: 3 (126) and 9 (65536).
MCMask == <<1, 0, 0, 1>>
Payload(n) == [i \in 1 .. n |-> (i \div 2) % 2]
MCReplies == {Payload(n) : n \in {2, 3, 8, 9}}
MCFrames ==
    [opcode : {TextFrame}, payload : MCReplies]
    \cup [opcode : {PingFrame}, payload : {Payload(0), Payload(2)}]
    \cup {[opcode |-> CloseFrame, payload |-> <<>>], [opcode |-> 2, payload |-> Payload(1)]}
MCDialogues == UNION {[1 .. n -> MCFrames] : n \in 1 .. 2}

-----------------------------------------------------------------------------
MCInit ==
    /\ part \in {"zset", "list", "hash", "scan", "glob", "wire", "frames", "dashboard"}
    /\ ZInit /\ LInit /\ HInit /\ GInit /\ WInit /\ FInit /\ DInit
    /\ SInit /\ (part # "scan" => skeys = {})

MCNext ==
    \/ /\ part = "zset" /\ ZNext
       /\ UNCHANGED <<part, lvars, hvars, svars, gvars, wvars, fvars, dvars>>
    \/ /\ part = "list" /\ LNext
       /\ UNCHANGED <<part, zvars, hvars, svars, gvars, wvars, fvars, dvars>>
    \/ /\ part = "hash" /\ HNext
       /\ UNCHANGED <<part, zvars, lvars, svars, gvars, wvars, fvars, dvars>>
    \/ /\ part = "scan" /\ SNext
       /\ UNCHANGED <<part, zvars, lvars, hvars, gvars, wvars, fvars, dvars>>
    \/ /\ part = "glob" /\ GNext
       /\ UNCHANGED <<part, zvars, lvars, hvars, svars, wvars, fvars, dvars>>
    \/ /\ part = "wire" /\ WNext
       /\ UNCHANGED <<part, zvars, lvars, hvars, svars, gvars, fvars, dvars>>
    \/ /\ part = "frames" /\ FNext
       /\ UNCHANGED <<part, zvars, lvars, hvars, svars, gvars, wvars, dvars>>
    \/ /\ part = "dashboard" /\ DNext
       /\ UNCHANGED <<part, zvars, lvars, hvars, svars, gvars, wvars, fvars>>

MCSpec ==
    /\ MCInit
    /\ [][MCNext]_<<part, zvars, lvars, hvars, svars, gvars, wvars, fvars, dvars>>
    /\ ScanFairness /\ DFairness
=============================================================================
