-------------------------------- MODULE Glob -------------------------------
(***************************************************************************)
(* globMatch (src/src/utils/glob.js), by which KEYS, SCAN MATCH and        *)
(* PSUBSCRIBE select names: one loop with four indexes that, when a        *)
(* character does not match, goes back to the last star and lets it take   *)
(* one character more.  Every round of the loop is a step.                 *)
(*                                                                         *)
(* A pattern is a sequence of items: a character, escaped or not; any one  *)
(* character (?); a class of characters or its complement; a bracket that  *)
(* is never closed; a star.  Which characters an item accepts is all that  *)
(* matters of it.                                                          *)
(***************************************************************************)
EXTENDS Integers, Sequences, FiniteSets, SequencesExt

CONSTANTS
    Chars,
    Items,        \* the items of patterns but the star: the sets of characters
                  \* that they accept, and Unclosed
    Star, Unclosed,
    GMaxPattern, GMaxString

ASSUME GlobParameters == Star # Unclosed

VARIABLES
    gpattern, gstring,
    gpi, gsi,          \* pi and si: the next item and character, from 0
    gstarPi, gstarSi,  \* starPi and starSi, or -1
    gresult            \* "idle" between two calls, "none" while the loop runs

gvars == <<gpattern, gstring, gpi, gsi, gstarPi, gstarSi, gresult>>

GInit ==
    /\ gpattern = <<>> /\ gstring = <<>>
    /\ gpi = 0 /\ gsi = 0 /\ gstarPi = -1 /\ gstarSi = -1
    /\ gresult = "idle"

Matching == gresult = "none"

\* A call of globMatch.
GBegin(p, s) ==
    /\ gresult = "idle"
    /\ gpattern' = p /\ gstring' = s
    /\ gresult' = "none"
    /\ UNCHANGED <<gpi, gsi, gstarPi, gstarSi>>

InString == gsi < Len(gstring)
InPattern == gpi < Len(gpattern)
Item == gpattern[gpi + 1]

Advance(pi, si) ==
    /\ gpi' = pi /\ gsi' = si
    /\ UNCHANGED <<gpattern, gstring, gstarPi, gstarSi, gresult>>

Decide(r) ==
    /\ gresult' = r
    /\ UNCHANGED <<gpattern, gstring, gpi, gsi, gstarPi, gstarSi>>

TakeStar ==
    /\ Matching /\ InString /\ InPattern /\ Item = Star
    /\ gstarPi' = gpi /\ gstarSi' = gsi
    /\ gpi' = gpi + 1
    /\ UNCHANGED <<gpattern, gstring, gsi, gresult>>

\* A bracket that is never closed ends the match, whatever the stars before it.
MeetUnclosed ==
    /\ Matching /\ InString /\ InPattern /\ Item = Unclosed
    /\ Decide("no")

Accepts == InPattern /\ Item \notin {Star, Unclosed} /\ gstring[gsi + 1] \in Item

TakeChar ==
    /\ Matching /\ InString /\ Accepts
    /\ Advance(gpi + 1, gsi + 1)

Stuck ==
    /\ Matching /\ InString /\ ~Accepts
    /\ InPattern => Item \notin {Star, Unclosed}

\* Mutant: the string is not taken back, only the pattern.
GoBack_PatternOnly ==
    /\ Stuck /\ gstarPi >= 0
    /\ gstarSi' = gstarSi + 1
    /\ gpi' = gstarPi + 1
    /\ gsi' = gsi + 1
    /\ UNCHANGED <<gpattern, gstring, gstarPi, gresult>>

\* The last star takes one character more.
GoBack ==
    /\ Stuck /\ gstarPi >= 0
    /\ gstarSi' = gstarSi + 1
    /\ gpi' = gstarPi + 1
    /\ gsi' = gstarSi + 1
    /\ UNCHANGED <<gpattern, gstring, gstarPi, gresult>>

GiveUp == Stuck /\ gstarPi < 0 /\ Decide("no")

\* At the end of the string only stars may be left.
GEnd ==
    /\ Matching /\ ~InString
    /\ Decide(IF \A i \in gpi + 1 .. Len(gpattern) : gpattern[i] = Star
              THEN "yes" ELSE "no")

GReturn ==
    /\ gresult \in {"yes", "no"}
    /\ gpattern' = <<>> /\ gstring' = <<>>
    /\ gpi' = 0 /\ gsi' = 0 /\ gstarPi' = -1 /\ gstarSi' = -1
    /\ gresult' = "idle"

GPatterns == SeqOf(Items \cup {Star}, GMaxPattern)
GStrings == SeqOf(Chars, GMaxString)

GNext ==
    \/ \E p \in GPatterns, s \in GStrings : GBegin(p, s)
    \/ GReturn
    \/ TakeStar \/ MeetUnclosed \/ TakeChar
    \/ GoBack \/ GiveUp \/ GEnd

GSpec == GInit /\ [][GNext]_gvars

-----------------------------------------------------------------------------
\* The reference: f says how many characters lie before the end of each item.
Fits(item, s, from, to) ==
    \/ item = Star /\ from <= to
    \/ item \notin {Star, Unclosed} /\ to = from + 1 /\ s[to] \in item

Accepted(p, s) ==
    \E f \in [0 .. Len(p) -> 0 .. Len(s)] :
        /\ f[0] = 0 /\ f[Len(p)] = Len(s)
        /\ \A i \in 1 .. Len(p) : Fits(p[i], s, f[i - 1], f[i])

\* Going back only to the last star is enough: the loop accepts exactly the
\* strings that some way of filling the stars makes (glob.js:3-84).
GlobExact ==
    gresult \in {"yes", "no"} =>
        (gresult = "yes" <=> Accepted(gpattern, gstring))

=============================================================================
