--------------------------- MODULE ProtocolProofs --------------------------
(***************************************************************************)
(* Theorems about the two protocols, for any messages and any frames, cut  *)
(* into chunks anyhow.                                                     *)
(*                                                                         *)
(* The argument is the same for both: what a client writes is a chain of   *)
(* pieces, the server has dealt with the first h of them, and its buffer   *)
(* holds what has arrived of the others.  What is left is that a parser    *)
(* which is given the beginning of a piece asks for more, and one which is *)
(* given all of it, and perhaps of the pieces behind it, finds its end and *)
(* its value.  For frames this rests on Bytes and Value going through the  *)
(* same quotients, for arrays on an induction over their elements.         *)
(***************************************************************************)
EXTENDS Wire, Frames, SequenceTheorems, FiniteSetTheorems, NaturalsInduction,
        WellFoundedInduction, TLAPS

-----------------------------------------------------------------------------
(* Recursion along the numbers up to N. *)

LEMMA UpTo ==
    ASSUME NEW N \in Nat, NEW P, 0 \in P, \A n \in 0 .. N - 1 : n \in P => n + 1 \in P
    PROVE  \A n \in 0 .. N : n \in P
<1> DEFINE T == {n \in Nat : n <= N /\ n \notin P}
<1>1. SUFFICES ASSUME T # {} PROVE FALSE
  OBVIOUS
<1>2. IsWellFoundedOn(OpToRel(<, Nat), Nat)
  BY NatLessThanWellFounded, Zenon
<1>3. T \subseteq Nat
  OBVIOUS
<1> HIDE DEF T
<1>4. PICK n \in T : \A m \in T : <<m, n>> \notin OpToRel(<, Nat)
  BY <1>1, <1>2, <1>3, WFMin, Zenon
<1>5. \A m \in T : ~(m < n)
  BY <1>3, <1>4 DEF OpToRel
<1>6. n \in Nat /\ n <= N /\ n \notin P
  BY <1>4 DEF T
<1>7. n \in 1 .. N /\ n - 1 \in 0 .. N - 1
  BY <1>6
<1>8. n - 1 \in P
  BY <1>5, <1>6, <1>7 DEF T
<1> QED
  BY <1>6, <1>7, <1>8

Steps(N, S) == [S \X (1 .. N) -> S]
Follows(g, N, S, a, F) ==
    g \in [0 .. N -> S] /\ g[0] = a /\ \A i \in 1 .. N : g[i] = F[<<g[i - 1], i>>]

\* A recursive definition over 0 .. N has a solution.
LEMMA Recursion ==
    ASSUME NEW N \in Nat, NEW S, NEW a \in S, NEW F \in Steps(N, S)
    PROVE  \E g : Follows(g, N, S, a, F)
<1> DEFINE Sol(g, n) == g \in [0 .. n -> S] /\ g[0] = a
                        /\ \A i \in 1 .. n : g[i] = F[<<g[i - 1], i>>]
           P == {n \in Nat : \E g : Sol(g, n)}
<1>0. F \in [S \X (1 .. N) -> S]
  BY DEF Steps
<1>1. 0 \in P
  <2>1. Sol([i \in 0 .. 0 |-> a], 0)
    OBVIOUS
  <2> QED
    BY <2>1
<1>2. ASSUME NEW n \in 0 .. N - 1, n \in P PROVE n + 1 \in P
  <2>1. PICK g : Sol(g, n)
    BY <1>2
  <2> DEFINE h == [i \in 0 .. n + 1 |-> IF i = n + 1 THEN F[<<g[n], n + 1>>] ELSE g[i]]
  <2>2. g[n] \in S /\ n + 1 \in 1 .. N /\ n \in Nat
    BY <2>1
  <2>3. F[<<g[n], n + 1>>] \in S
    BY <1>0, <2>2
  <2>4. h \in [0 .. n + 1 -> S] /\ h[0] = a
    BY <2>1, <2>2, <2>3
  <2>5. ASSUME NEW i \in 1 .. n + 1 PROVE h[i] = F[<<h[i - 1], i>>]
    <3>1. CASE i = n + 1
      <4>1. h[n + 1] = F[<<g[n], n + 1>>]
        BY <2>2
      <4>2. h[n] = g[n]
        BY <2>2
      <4>3. i - 1 = n
        BY <2>2, <3>1
      <4> HIDE DEF h
      <4> QED
        BY <3>1, <4>1, <4>2, <4>3
    <3>2. CASE i \in 1 .. n
      BY <2>1, <2>2, <3>2
    <3> QED
      BY <2>2, <3>1, <3>2
  <2> HIDE DEF h
  <2>6. Sol(h, n + 1)
    BY <2>4, <2>5
  <2> QED
    BY <2>2, <2>6
<1>3. \A n \in 0 .. N : n \in P
  <2> HIDE DEF P
  <2> QED
    BY <1>1, <1>2, UpTo
<1>4. N \in P
  <2> HIDE DEF P
  <2> QED
    BY <1>3
<1> QED
  BY <1>4 DEF Follows

-----------------------------------------------------------------------------
(* Sequences. *)

LEMMA AsSequence ==
    ASSUME NEW X, NEW n \in Nat, NEW f \in [1 .. n -> X]
    PROVE  f \in Seq(X) /\ Len(f) = n
  OBVIOUS

Joins(X, s, t) ==
    /\ s \o t \in Seq(X) /\ Len(s \o t) = Len(s) + Len(t)
    /\ \A i \in 1 .. Len(s) : (s \o t)[i] = s[i]
    /\ \A i \in 1 .. Len(t) : (s \o t)[Len(s) + i] = t[i]

\* One sequence behind another.
LEMMA Concatenated ==
    ASSUME NEW X, NEW s \in Seq(X), NEW t \in Seq(X)
    PROVE  Joins(X, s, t)
<1>1. /\ s \o t \in Seq(X) /\ Len(s \o t) = Len(s) + Len(t)
      /\ Len(s) \in Nat /\ Len(t) \in Nat
  OBVIOUS
<1>2. \A i \in 1 .. Len(s) + Len(t) :
         (s \o t)[i] = IF i <= Len(s) THEN s[i] ELSE t[i - Len(s)]
  BY ConcatProperties
<1> DEFINE c == s \o t
           k == Len(s)
           l == Len(t)
<1> HIDE DEF c, k, l
<1>3. /\ k \in Nat /\ l \in Nat
      /\ \A i \in 1 .. k + l : c[i] = IF i <= k THEN s[i] ELSE t[i - k]
  BY <1>1, <1>2 DEF c, k, l
<1>4. \A i \in 1 .. k : c[i] = s[i]
  BY <1>3
<1>5. \A i \in 1 .. l : k + i \in 1 .. k + l /\ ~(k + i <= k) /\ (k + i) - k = i
  BY <1>3
<1>6. \A i \in 1 .. l : c[k + i] = t[i]
  BY <1>3, <1>5
<1> QED
  BY <1>1, <1>4, <1>6 DEF c, k, l, Joins

\* A piece of a sequence.
LEMMA Piece ==
    ASSUME NEW X, NEW s \in Seq(X), NEW a \in Nat, NEW n \in Nat, a + n <= Len(s)
    PROVE  /\ SubSeq(s, a + 1, a + n) \in Seq(X) /\ Len(SubSeq(s, a + 1, a + n)) = n
           /\ \A i \in 1 .. n : SubSeq(s, a + 1, a + n)[i] = s[a + i]
<1> DEFINE k == (a + n) - (a + 1) + 1
<1>1. SubSeq(s, a + 1, a + n) = [i \in 1 .. k |-> s[(a + 1) + i - 1]]
  OBVIOUS
<1>2. k = n
  OBVIOUS
<1>3. \A i \in 1 .. n : (a + 1) + i - 1 = a + i
  OBVIOUS
<1>4. SubSeq(s, a + 1, a + n) = [i \in 1 .. n |-> s[a + i]]
  BY <1>1, <1>2, <1>3
<1>5. \A i \in 1 .. n : s[a + i] \in X
  <2>1. \A i \in 1 .. n : a + i \in 1 .. Len(s)
    OBVIOUS
  <2> QED
    BY <2>1
<1>6. SubSeq(s, a + 1, a + n) \in [1 .. n -> X]
  BY <1>4, <1>5
<1> QED
  BY <1>4, <1>6, AsSequence

-----------------------------------------------------------------------------
(* Sequences one after the other: the first n of them, for each n. *)

Chain(S, P, k) == S = [n \in 0 .. k |-> IF n = 0 THEN <<>> ELSE S[n - 1] \o P[n]]

LEMMA ChainExists ==
    ASSUME NEW X, NEW k \in Nat, NEW P \in [1 .. k -> Seq(X)]
    PROVE  \E S : Chain(S, P, k)
<1> DEFINE Y == Seq(X)
           F == [x \in Y \X (1 .. k) |-> x[1] \o P[x[2]]]
<1>1. F \in Steps(k, Y)
  <2>1. ASSUME NEW x \in Y \X (1 .. k) PROVE x[1] \o P[x[2]] \in Y
    <3>1. x[1] \in Y /\ P[x[2]] \in Y
      OBVIOUS
    <3> QED
      BY <3>1
  <2> HIDE DEF Y
  <2> QED
    BY <2>1 DEF Steps
<1>2. ASSUME NEW v \in Y, NEW i \in 1 .. k PROVE F[<<v, i>>] = v \o P[i]
  OBVIOUS
<1> HIDE DEF F
<1>3. PICK g : Follows(g, k, Y, <<>>, F)
  <2>1. <<>> \in Y
    OBVIOUS
  <2> HIDE DEF Y
  <2> QED
    BY <1>1, <2>1, Recursion, Zenon
<1>4. g \in [0 .. k -> Y] /\ g[0] = <<>> /\ \A i \in 1 .. k : g[i] = F[<<g[i - 1], i>>]
  BY <1>3 DEF Follows
<1>5. ASSUME NEW i \in 1 .. k PROVE g[i] = g[i - 1] \o P[i]
  <2> HIDE DEF Y
  <2>1. i - 1 \in 0 .. k
    OBVIOUS
  <2>2. g[i - 1] \in Y
    BY <1>4, <2>1
  <2> QED
    BY <1>2, <1>4, <2>2
<1>6. Chain(g, P, k)
  <2>1. g = [i \in 0 .. k |-> g[i]]
    BY <1>4
  <2>2. \A i \in 0 .. k : i # 0 => i \in 1 .. k
    OBVIOUS
  <2> HIDE DEF Y
  <2> QED
    BY <1>4, <1>5, <2>1, <2>2 DEF Chain
<1> QED
  BY <1>6

IsChain(X, S, P, k) ==
    /\ P \in [1 .. k -> Seq(X)]
    /\ S[0] = <<>> /\ \A n \in 1 .. k : S[n] = S[n - 1] \o P[n]
    /\ \A n \in 0 .. k : S[n] \in Seq(X)

LEMMA ChainSteps ==
    ASSUME NEW X, NEW k \in Nat, NEW P \in [1 .. k -> Seq(X)], NEW S, Chain(S, P, k)
    PROVE  IsChain(X, S, P, k)
<1>1. S[0] = <<>> /\ \A n \in 1 .. k : S[n] = S[n - 1] \o P[n]
  <2>1. 0 \in 0 .. k /\ \A n \in 1 .. k : n \in 0 .. k /\ n # 0
    OBVIOUS
  <2> QED
    BY <2>1 DEF Chain
<1> DEFINE Q == {n \in Nat : n <= k => S[n] \in Seq(X)}
<1>2. 0 \in Q
  <2>1. <<>> \in Seq(X)
    OBVIOUS
  <2> QED
    BY <1>1, <2>1
<1>3. ASSUME NEW n \in 0 .. k - 1, n \in Q PROVE n + 1 \in Q
  <2>1. S[n] \in Seq(X) /\ n + 1 \in 1 .. k /\ (n + 1) - 1 = n
    BY <1>3
  <2>2. S[n + 1] = S[n] \o P[n + 1]
    BY <1>1, <2>1
  <2>3. P[n + 1] \in Seq(X)
    BY <2>1
  <2>4. S[n + 1] \in Seq(X)
    BY <2>1, <2>2, <2>3
  <2> QED
    BY <2>1, <2>4
<1>4. \A n \in 0 .. k : n \in Q
  <2> HIDE DEF Q
  <2> QED
    BY <1>2, <1>3, UpTo
<1>5. \A n \in 0 .. k : S[n] \in Seq(X)
  BY <1>4
<1> QED
  BY <1>1, <1>5 DEF IsChain

Begins(s, t) == Len(s) <= Len(t) /\ \A i \in 1 .. Len(s) : t[i] = s[i]

\* A sequence begins as the one does that is in front.
LEMMA BeginsOn ==
    ASSUME NEW X, NEW r \in Seq(X), NEW s \in Seq(X), NEW t \in Seq(X), Begins(r, s)
    PROVE  Begins(r, s \o t)
<1> DEFINE c == s \o t
<1>1. Joins(X, s, t)
  BY Concatenated
<1>2. /\ Len(c) = Len(s) + Len(t) /\ \A i \in 1 .. Len(s) : c[i] = s[i]
  BY <1>1 DEF Joins
<1>3. Len(r) \in Nat /\ Len(s) \in Nat /\ Len(t) \in Nat
  OBVIOUS
<1> HIDE DEF c
<1>4. Begins(r, c)
  BY <1>2, <1>3 DEF Begins
<1> QED
  BY <1>4 DEF c

\* Each begins with the shorter ones.
LEMMA ChainGrows ==
    ASSUME NEW X, NEW k \in Nat, NEW P, NEW S, IsChain(X, S, P, k), NEW h \in 0 .. k
    PROVE  \A n \in 0 .. k : n >= h => Begins(S[h], S[n])
<1> DEFINE Q == {n \in Nat : n <= k /\ n >= h => Begins(S[h], S[n])}
<1>1. /\ \A n \in 1 .. k : S[n] = S[n - 1] \o P[n]
      /\ \A n \in 0 .. k : S[n] \in Seq(X)
      /\ P \in [1 .. k -> Seq(X)]
  BY DEF IsChain
<1>2. S[h] \in Seq(X) /\ Len(S[h]) \in Nat
  <2>1. S[h] \in Seq(X)
    BY <1>1
  <2> QED
    BY <2>1
<1>a. Begins(S[h], S[h])
  BY <1>2 DEF Begins
<1>3. 0 \in Q
  <2>1. 0 >= h => h = 0
    OBVIOUS
  <2> QED
    BY <1>a, <2>1
<1>4. ASSUME NEW n \in 0 .. k - 1, n \in Q PROVE n + 1 \in Q
  <2>1. n + 1 \in 1 .. k /\ (n + 1) - 1 = n /\ n \in 0 .. k
    OBVIOUS
  <2>2. CASE n + 1 = h
    BY <1>a, <2>1, <2>2
  <2>3. CASE n + 1 < h
    BY <2>1, <2>3
  <2>4. CASE n >= h
    <3>1. S[n + 1] = S[n] \o P[n + 1] /\ S[n] \in Seq(X) /\ P[n + 1] \in Seq(X)
      BY <1>1, <2>1
    <3>2. Begins(S[h], S[n])
      BY <1>4, <2>1, <2>4
    <3>3. Begins(S[h], S[n] \o P[n + 1])
      BY <1>2, <3>1, <3>2, BeginsOn
    <3>4. Begins(S[h], S[n + 1])
      BY <3>1, <3>3
    <3>5. n + 1 \in Nat
      BY <2>1
    <3> QED
      BY <3>4, <3>5
  <2> QED
    BY <2>1, <2>2, <2>3, <2>4
<1>5. \A n \in 0 .. k : n \in Q
  <2> HIDE DEF Q
  <2> QED
    BY <1>3, <1>4, UpTo
<1> QED
  BY <1>5

Next1(X, S, P, k, h) ==
    /\ P[h + 1] \in Seq(X) /\ Len(P[h + 1]) \in Nat
    /\ Len(S[h]) \in Nat /\ Len(S[h + 1]) = Len(S[h]) + Len(P[h + 1])
    /\ Len(S[h + 1]) <= Len(S[k])
    /\ \A i \in 1 .. Len(P[h + 1]) : S[k][Len(S[h]) + i] = P[h + 1][i]

\* Where the one after the first h begins and ends.
LEMMA ChainNext ==
    ASSUME NEW X, NEW k \in Nat, NEW P, NEW S, IsChain(X, S, P, k), NEW h \in Nat, h < k
    PROVE  Next1(X, S, P, k, h)
<1>1. /\ h + 1 \in 1 .. k /\ (h + 1) - 1 = h /\ h \in 0 .. k
      /\ h + 1 \in 0 .. k /\ k \in 0 .. k /\ k >= h + 1
  OBVIOUS
<1> DEFINE p == P[h + 1]
           s == S[h]
           t == S[h + 1]
           u == S[k]
<1>2. p \in Seq(X) /\ t = s \o p /\ s \in Seq(X) /\ t \in Seq(X) /\ u \in Seq(X)
  BY <1>1 DEF IsChain
<1>3. Begins(t, u)
  BY <1>1, ChainGrows
<1> HIDE DEF p, s, t, u
<1>4. Joins(X, s, p)
  BY <1>2, Concatenated
<1>5. Len(s) \in Nat /\ Len(p) \in Nat
  BY <1>2
<1>6. /\ Len(t) = Len(s) + Len(p)
      /\ \A i \in 1 .. Len(p) : t[Len(s) + i] = p[i]
  BY <1>2, <1>4 DEF Joins
<1>7. \A i \in 1 .. Len(p) : Len(s) + i \in 1 .. Len(t)
  BY <1>5, <1>6
<1>8. \A i \in 1 .. Len(p) : u[Len(s) + i] = p[i]
  BY <1>3, <1>6, <1>7 DEF Begins
<1>9. Len(t) <= Len(u)
  BY <1>3 DEF Begins
<1> QED
  BY <1>2, <1>5, <1>6, <1>8, <1>9 DEF p, s, t, u, Next1

-----------------------------------------------------------------------------
(* The greatest of some numbers. *)

LEMMA Greatest ==
    ASSUME NEW N \in Nat, NEW T \in SUBSET (0 .. N), T # {}
    PROVE  Max(T) \in T /\ \A y \in T : Max(T) >= y
<1>1. \E x \in T : \A y \in T : x >= y
  <2>1. SUFFICES ASSUME \A x \in T : \E y \in T : ~(x >= y) PROVE FALSE
    OBVIOUS
  <2> DEFINE P == {n \in Nat : \E y \in T : y >= n}
  <2>2. 0 \in P
    <3>1. \A y \in T : y >= 0
      OBVIOUS
    <3> QED
      BY <3>1
  <2>3. ASSUME NEW n \in 0 .. N - 1, n \in P PROVE n + 1 \in P
    <3>1. PICK x \in T : x >= n
      BY <2>3
    <3>2. PICK y \in T : ~(x >= y)
      BY <2>1
    <3>3. y >= n + 1
      BY <3>1, <3>2
    <3> QED
      BY <3>3
  <2>4. \A n \in 0 .. N : n \in P
    <3> HIDE DEF P
    <3> QED
      BY <2>2, <2>3, UpTo
  <2>5. PICK x \in T : x >= N
    BY <2>4
  <2>6. \A y \in T : x >= y
    BY <2>5
  <2> QED
    BY <2>1, <2>6
<1> QED
  BY <1>1 DEF Max

-----------------------------------------------------------------------------
(* The parser: where lines end. *)

LEMMA Finds ==
    ASSUME NEW B \in Seq(Tokens), NEW at \in Nat, NEW p \in Nat, at <= p, p + 2 <= Len(B),
           B[p + 1] = CR, B[p + 2] = LF,
           \A i \in at + 1 .. p : ~(B[i] = CR /\ B[i + 1] = LF)
    PROVE  FindCRLF(B, at) = p
<1> DEFINE found == {i \in at + 1 .. Len(B) - 1 : B[i] = CR /\ B[i + 1] = LF}
<1>1. p + 1 \in found
  <2>1. (p + 1) + 1 = p + 2 /\ p + 1 \in at + 1 .. Len(B) - 1
    OBVIOUS
  <2> QED
    BY <2>1
<1>2. \A i \in found : i \in Nat /\ p + 1 <= i
  <2>1. ASSUME NEW i \in found, ~(p + 1 <= i) PROVE FALSE
    <3>1. i \in at + 1 .. p
      BY <2>1
    <3> QED
      BY <3>1
  <2> QED
    BY <2>1
<1>3. FindCRLF(B, at) = IF found = {} THEN -1 ELSE Min(found) - 1
  BY DEF FindCRLF
<1> HIDE DEF found
<1>4. Min(found) = p + 1
  <2>1. \A x \in found : (\A y \in found : x <= y) => x = p + 1
    BY <1>1, <1>2
  <2>2. \E x \in found : \A y \in found : x <= y
    BY <1>1, <1>2
  <2> QED
    BY <2>1, <2>2 DEF Min
<1> QED
  BY <1>1, <1>3, <1>4

LEMMA FindsNone ==
    ASSUME NEW B \in Seq(Tokens), NEW at \in Nat,
           \A i \in at + 1 .. Len(B) - 1 : ~(B[i] = CR /\ B[i + 1] = LF)
    PROVE  FindCRLF(B, at) = -1
  BY DEF FindCRLF

\* A mark, a number and CRLF.
IsHead(H, d, n) ==
    /\ H \in Seq(Tokens) /\ Len(H) = 4
    /\ H[1] = d /\ H[2] = n /\ H[3] = CR /\ H[4] = LF

LEMMA Ends == CRLF \in Seq(Tokens) /\ Len(CRLF) = 2 /\ CRLF[1] = CR /\ CRLF[2] = LF
  BY DEF CRLF, Tokens

LEMMA HeadBytes ==
    ASSUME NEW d \in Tokens, NEW n \in Int
    PROVE  IsHead(<<d, n>> \o CRLF, d, n)
<1> DEFINE p == <<d, n>>
           H == p \o CRLF
<1>1. p \in Seq(Tokens) /\ Len(p) = 2 /\ p[1] = d /\ p[2] = n
  BY DEF Tokens
<1> HIDE DEF p
<1>2. Joins(Tokens, p, CRLF)
  BY <1>1, Ends, Concatenated
<1>3. /\ H \in Seq(Tokens) /\ Len(H) = Len(p) + Len(CRLF)
      /\ \A i \in 1 .. Len(p) : H[i] = p[i]
      /\ \A i \in 1 .. Len(CRLF) : H[Len(p) + i] = CRLF[i]
  BY <1>2 DEF Joins
<1> HIDE DEF H
<1>4. H[1] = d /\ H[2] = n
  BY <1>1, <1>3
<1>5. H[2 + 1] = CR /\ H[2 + 2] = LF
  BY <1>1, <1>3, Ends
<1>6. IsHead(H, d, n)
  BY <1>1, <1>3, <1>4, <1>5, Ends DEF IsHead
<1> QED
  BY <1>6 DEF H, p

\* What there is of a head in B from at on.
HeadAt(B, at, d, n) ==
    /\ at + 1 <= Len(B) => B[at + 1] = d
    /\ at + 2 <= Len(B) => B[at + 2] = n
    /\ at + 3 <= Len(B) => B[at + 3] = CR
    /\ at + 4 <= Len(B) => B[at + 4] = LF

LEMMA HeadFound ==
    ASSUME NEW B \in Seq(Tokens), NEW at \in Nat, NEW d, d # CR, NEW n \in Int,
           HeadAt(B, at, d, n)
    PROVE  FindCRLF(B, at) = IF Len(B) < at + 4 THEN -1 ELSE at + 2
<1> DEFINE b == Len(B)
<1>1. b \in Nat /\ n # CR
  BY WireParameters
<1>2. /\ at + 1 <= b => B[at + 1] = d
      /\ at + 2 <= b => B[at + 2] = n
      /\ at + 3 <= b => B[at + 3] = CR
      /\ at + 4 <= b => B[at + 4] = LF
  BY DEF HeadAt
<1> HIDE DEF b
<1>3. ASSUME NEW i \in at + 1 .. at + 2, i <= b PROVE B[i] # CR
  <2>1. i = at + 1 \/ i = at + 2
    OBVIOUS
  <2> QED
    BY <1>1, <1>2, <1>3, <2>1
<1>4. CASE b < at + 4
  <2>1. ASSUME NEW i \in at + 1 .. b - 1 PROVE ~(B[i] = CR /\ B[i + 1] = LF)
    <3>1. i \in at + 1 .. at + 2 /\ i <= b
      BY <1>1, <1>4
    <3> QED
      BY <1>3, <3>1
  <2> QED
    BY <1>4, <2>1, FindsNone DEF b
<1>5. CASE b >= at + 4
  <2> DEFINE p == at + 2
  <2>1. /\ p \in Nat /\ at <= p /\ p + 2 <= b /\ p + 1 = at + 3 /\ p + 2 = at + 4
        /\ p = at + 2
    BY <1>1, <1>5
  <2>2. B[p + 1] = CR /\ B[p + 2] = LF
    BY <1>1, <1>2, <1>5, <2>1
  <2>3. ASSUME NEW i \in at + 1 .. p PROVE ~(B[i] = CR /\ B[i + 1] = LF)
    <3>1. i \in at + 1 .. at + 2 /\ i <= b
      BY <1>1, <1>5
    <3> QED
      BY <1>3, <3>1
  <2> HIDE DEF p
  <2>4. FindCRLF(B, at) = p
    BY <2>1, <2>2, <2>3, Finds DEF b
  <2> QED
    BY <1>1, <1>5, <2>1, <2>4 DEF b
<1> QED
  BY <1>1, <1>4, <1>5

\* A bulk string: its head, its data and CRLF.
IsBulk(W, arg) ==
    /\ W \in Seq(Tokens) /\ Len(arg) \in Nat /\ Len(W) = Len(arg) + 6
    /\ W[1] = Dollar /\ W[2] = Len(arg) /\ W[3] = CR /\ W[4] = LF
    /\ \A i \in 1 .. Len(arg) : W[4 + i] = arg[i]

LEMMA BulkBytes ==
    ASSUME NEW arg \in Seq(Tokens)
    PROVE  IsBulk(Bulk(arg), arg)
<1> DEFINE l == Len(arg)
           H == <<Dollar, l>> \o CRLF
           D == H \o arg
           W == D \o CRLF
<1>1. l \in Nat /\ l \in Int /\ Dollar \in Tokens
  BY DEF Tokens
<1>2. IsHead(H, Dollar, l)
  <2> HIDE DEF l
  <2> QED
    BY <1>1, HeadBytes
<1>3. Bulk(arg) = W
  BY DEF Bulk
<1> HIDE DEF H
<1>4. /\ H \in Seq(Tokens) /\ Len(H) = 4
      /\ H[1] = Dollar /\ H[2] = l /\ H[3] = CR /\ H[4] = LF
  BY <1>2 DEF IsHead
<1>5. Joins(Tokens, H, arg)
  BY <1>4, Concatenated
<1>6. /\ D \in Seq(Tokens) /\ Len(D) = 4 + l
      /\ \A i \in 1 .. Len(H) : D[i] = H[i]
      /\ \A i \in 1 .. l : D[Len(H) + i] = arg[i]
  BY <1>4, <1>5 DEF Joins
<1> HIDE DEF D
<1>7. Joins(Tokens, D, CRLF)
  BY <1>6, Ends, Concatenated
<1>8. /\ W \in Seq(Tokens) /\ Len(W) = Len(D) + Len(CRLF)
      /\ \A i \in 1 .. Len(D) : W[i] = D[i]
  BY <1>7 DEF Joins
<1> HIDE DEF W
<1>9. Len(W) = l + 6
  BY <1>1, <1>6, <1>8, Ends
<1> HIDE DEF l
<1>10. /\ 1 \in 1 .. Len(D) /\ 2 \in 1 .. Len(D) /\ 3 \in 1 .. Len(D) /\ 4 \in 1 .. Len(D)
       /\ \A i \in 1 .. l : 4 + i \in 1 .. Len(D)
  BY <1>1, <1>6
<1>11. W[1] = Dollar /\ W[2] = l /\ W[3] = CR /\ W[4] = LF
  BY <1>4, <1>6, <1>8, <1>10
<1>12. \A i \in 1 .. l : W[4 + i] = arg[i]
  BY <1>4, <1>6, <1>8, <1>10
<1> QED
  BY <1>1, <1>3, <1>8, <1>9, <1>11, <1>12 DEF IsBulk, l

\* What there is of W in B from at on.
Agrees(B, at, W) == \A i \in 1 .. Len(W) : at + i <= Len(B) => B[at + i] = W[i]

BulkRead(B, at, arg) ==
    IF Len(B) < at + (Len(arg) + 6) THEN Incomplete ELSE Result(arg, at + (Len(arg) + 6))

LEMMA BulkParsed ==
    ASSUME NEW B \in Seq(Tokens), NEW at \in Nat, at <= Len(B), NEW arg \in Seq(Tokens),
           Agrees(B, at, Bulk(arg))
    PROVE  ParseBulk(B, at) = BulkRead(B, at, arg)
<1> DEFINE l == Len(arg)
           b == Len(B)
           W == Bulk(arg)
           crlf == FindCRLF(B, at)
           end == crlf + 2 + B[at + 2]
<1>1. IsBulk(W, arg)
  BY BulkBytes
<1>2. ParseBulk(B, at) = IF crlf < 0 \/ b < end + 2 THEN Incomplete
                         ELSE Result(SubSeq(B, crlf + 3, end), end + 2)
  BY DEF ParseBulk
<1> HIDE DEF W, crlf
<1>3. /\ l \in Nat /\ b \in Nat /\ Len(W) = l + 6
      /\ W[1] = Dollar /\ W[2] = l /\ W[3] = CR /\ W[4] = LF
      /\ \A i \in 1 .. l : W[4 + i] = arg[i]
  BY <1>1 DEF IsBulk
<1>4. \A i \in 1 .. l + 6 : at + i <= b => B[at + i] = W[i]
  BY <1>3 DEF Agrees, W
<1> HIDE DEF l, b
<1>5. /\ at + 1 <= b => B[at + 1] = Dollar
      /\ at + 2 <= b => B[at + 2] = l
      /\ at + 3 <= b => B[at + 3] = CR
      /\ at + 4 <= b => B[at + 4] = LF
  <2>1. 1 \in 1 .. l + 6 /\ 2 \in 1 .. l + 6 /\ 3 \in 1 .. l + 6 /\ 4 \in 1 .. l + 6
    BY <1>3
  <2> QED
    BY <1>3, <1>4, <2>1
<1>6. Dollar # CR /\ l # CR
  BY <1>3, WireParameters
<1>a. HeadAt(B, at, Dollar, l)
  BY <1>5 DEF HeadAt, b
<1>b. crlf = IF b < at + 4 THEN -1 ELSE at + 2
  BY <1>3, <1>6, <1>a, HeadFound DEF b, crlf
<1>7. CASE b < at + 4
  <2>1. b < at + (l + 6)
    BY <1>3, <1>7
  <2> QED
    BY <1>2, <1>7, <1>b, <2>1 DEF BulkRead, b, l
<1>8. CASE b >= at + 4
  <2>5. crlf = at + 2
    BY <1>3, <1>8, <1>b
  <2>6. B[at + 2] = l
    BY <1>3, <1>5, <1>8
  <2>7. end = at + 4 + l /\ end + 2 = at + (l + 6) /\ ~(crlf < 0) /\ crlf + 3 = (at + 4) + 1
    BY <1>3, <2>5, <2>6
  <2> HIDE DEF end
  <2>8. CASE b < at + (l + 6)
    BY <1>2, <2>7, <2>8 DEF BulkRead, b, l
  <2>9. CASE ~(b < at + (l + 6))
    <3> DEFINE a == at + 4
               D == SubSeq(B, a + 1, a + l)
    <3>1. a \in Nat /\ a + l <= b /\ b = Len(B)
      BY <1>3, <2>9 DEF b
    <3>2. \A i \in 1 .. l : B[a + i] = arg[i]
      <4>1. ASSUME NEW i \in 1 .. l PROVE B[a + i] = arg[i]
        <5>1. 4 + i \in 1 .. l + 6 /\ at + (4 + i) <= b /\ at + (4 + i) = a + i
          BY <1>3, <2>9
        <5>2. B[at + (4 + i)] = W[4 + i]
          BY <1>4, <5>1
        <5> QED
          BY <1>3, <5>1, <5>2
      <4> QED
        BY <4>1
    <3> HIDE DEF a
    <3>3. D \in Seq(Tokens) /\ Len(D) = l /\ \A i \in 1 .. l : D[i] = B[a + i]
      BY <1>3, <3>1, Piece
    <3> HIDE DEF D
    <3>4. D = arg
      <4>1. D = [i \in 1 .. l |-> D[i]] /\ arg = [i \in 1 .. l |-> arg[i]]
        BY <3>3 DEF l
      <4> QED
        BY <3>2, <3>3, <4>1
    <3>5. SubSeq(B, crlf + 3, end) = D
      BY <2>7 DEF D, a
    <3> QED
      BY <1>2, <2>7, <2>9, <3>4, <3>5 DEF BulkRead, b, l
  <2> QED
    BY <2>8, <2>9
<1> QED
  BY <1>3, <1>7, <1>8

\* The first elements of a sequence, and one more.
LEMMA OneMore ==
    ASSUME NEW X, NEW s \in Seq(X), NEW n \in 1 .. Len(s)
    PROVE  Append(SubSeq(s, 1, n - 1), s[n]) = SubSeq(s, 1, n)
<1> DEFINE m == n - 1
           D == SubSeq(s, 0 + 1, 0 + m)
           E == SubSeq(s, 0 + 1, 0 + n)
<1>1. /\ m \in Nat /\ n \in Nat /\ m + 1 = n /\ 0 + m <= Len(s) /\ 0 + n <= Len(s)
      /\ s[n] \in X /\ n \in 1 .. n /\ 0 + n = n /\ 0 + m = m
  OBVIOUS
<1> HIDE DEF m
<1>2. D \in Seq(X) /\ Len(D) = m /\ \A i \in 1 .. m : D[i] = s[0 + i]
  BY <1>1, Piece
<1>3. E \in Seq(X) /\ Len(E) = n /\ \A i \in 1 .. n : E[i] = s[0 + i]
  BY <1>1, Piece
<1>4. D = SubSeq(s, 1, n - 1) /\ E = SubSeq(s, 1, n)
  BY <1>1 DEF m
<1> HIDE DEF D, E
<1> DEFINE F == Append(D, s[n])
<1>5. /\ F \in Seq(X) /\ Len(F) = m + 1 /\ F[m + 1] = s[n]
      /\ \A i \in 1 .. m : F[i] = D[i]
  BY <1>1, <1>2
<1> HIDE DEF F
<1>6. \A i \in 1 .. n : F[i] = E[i]
  <2>1. \A i \in 1 .. n : (i \in 1 .. m \/ i = m + 1) /\ 0 + i = i
    BY <1>1
  <2> QED
    BY <1>1, <1>2, <1>3, <1>5, <2>1
<1>7. F = E
  <2>1. F = [i \in 1 .. n |-> F[i]] /\ E = [i \in 1 .. n |-> E[i]]
    BY <1>1, <1>3, <1>5
  <2> QED
    BY <1>6, <2>1
<1> QED
  BY <1>4, <1>7 DEF F

LEMMA Whole ==
    ASSUME NEW X, NEW s \in Seq(X)
    PROVE  SubSeq(s, 1, Len(s)) = s
  OBVIOUS

-----------------------------------------------------------------------------
(* Arrays. *)

BulkOf(args) == [i \in 1 .. Len(args) |-> Bulk(args[i])]
IsBulks(S, args) ==
    S = [n \in 0 .. Len(args) |-> IF n = 0 THEN <<>> ELSE S[n - 1] \o Bulk(args[n])]

LEMMA BulksChain ==
    ASSUME NEW args \in Seq(Seq(Tokens))
    PROVE  IsChain(Tokens, Bulks(args), BulkOf(args), Len(args))
<1> DEFINE k == Len(args)
           P == BulkOf(args)
           T == CHOOSE S : IsBulks(S, args)
<1>1. k \in Nat /\ P \in [1 .. k -> Seq(Tokens)]
  <2>1. ASSUME NEW i \in 1 .. k PROVE Bulk(args[i]) \in Seq(Tokens)
    <3>1. args[i] \in Seq(Tokens)
      OBVIOUS
    <3>2. IsBulk(Bulk(args[i]), args[i])
      BY <3>1, BulkBytes
    <3> QED
      BY <3>2 DEF IsBulk
  <2> QED
    BY <2>1 DEF BulkOf
<1>2. \A n \in 0 .. k : n # 0 => P[n] = Bulk(args[n])
  BY <1>1 DEF BulkOf
<1>3. Bulks(args) = T
  BY DEF Bulks, IsBulks
<1> HIDE DEF P, k
<1>4. PICK S : Chain(S, P, k)
  BY <1>1, ChainExists
<1>5. ASSUME NEW R PROVE Chain(R, P, k) <=> IsBulks(R, args)
  <2>1. [n \in 0 .. k |-> IF n = 0 THEN <<>> ELSE R[n - 1] \o P[n]]
        = [n \in 0 .. k |-> IF n = 0 THEN <<>> ELSE R[n - 1] \o Bulk(args[n])]
    BY <1>2
  <2> QED
    BY <2>1 DEF Chain, IsBulks, k
<1>6. IsBulks(T, args)
  BY <1>4, <1>5
<1> HIDE DEF T
<1>7. IsChain(Tokens, T, P, k)
  BY <1>1, <1>5, <1>6, ChainSteps
<1> QED
  BY <1>3, <1>7 DEF P, k

\* How an array is written: its head and its bulk strings.
IsArray(W, args) ==
    LET all == Bulks(args)[Len(args)]
    IN  /\ W \in Seq(Tokens) /\ all \in Seq(Tokens) /\ Len(W) = 4 + Len(all)
        /\ W[1] = Asterisk /\ W[2] = Len(args) /\ W[3] = CR /\ W[4] = LF
        /\ \A i \in 1 .. Len(all) : W[4 + i] = all[i]

LEMMA ArrayBytes ==
    ASSUME NEW m \in ArrayMessages
    PROVE  IsArray(Written(m), m.args) /\ m.args \in Seq(Seq(Tokens))
<1> DEFINE args == m.args
           k == Len(args)
           H == <<Asterisk, k>> \o CRLF
           all == Bulks(args)[k]
           W == H \o all
<1>1. m.form = "array" /\ args \in Seq(Seq(Tokens)) /\ k \in Nat /\ k \in Int
      /\ Asterisk \in Tokens
  BY DEF ArrayMessages, Tokens
<1>2. Written(m) = W
  BY <1>1 DEF Written
<1>3. IsHead(H, Asterisk, k)
  <2> HIDE DEF k
  <2> QED
    BY <1>1, HeadBytes
<1>4. all \in Seq(Tokens)
  <2>1. IsChain(Tokens, Bulks(args), BulkOf(args), k)
    BY <1>1, BulksChain
  <2>2. k \in 0 .. k
    BY <1>1
  <2> HIDE DEF k, args
  <2> QED
    BY <2>1, <2>2 DEF IsChain
<1> HIDE DEF H, all
<1>5. /\ H \in Seq(Tokens) /\ Len(H) = 4
      /\ H[1] = Asterisk /\ H[2] = k /\ H[3] = CR /\ H[4] = LF
  BY <1>3 DEF IsHead
<1>6. Joins(Tokens, H, all)
  BY <1>4, <1>5, Concatenated
<1>7. /\ W \in Seq(Tokens) /\ Len(W) = 4 + Len(all)
      /\ \A i \in 1 .. Len(H) : W[i] = H[i]
      /\ \A i \in 1 .. Len(all) : W[Len(H) + i] = all[i]
  BY <1>5, <1>6 DEF Joins
<1> HIDE DEF W, k
<1>8. IsArray(W, args)
  <2>1. 1 \in 1 .. Len(H) /\ 2 \in 1 .. Len(H) /\ 3 \in 1 .. Len(H) /\ 4 \in 1 .. Len(H)
    BY <1>5
  <2>2. W[1] = Asterisk /\ W[2] = k /\ W[3] = CR /\ W[4] = LF
    BY <1>5, <1>7, <2>1
  <2> QED
    BY <1>4, <1>5, <1>7, <2>2 DEF IsArray, all, k
<1> QED
  BY <1>1, <1>2, <1>8

Step(B, others) ==
    LET element == ParseBulk(B, others.end)
    IN  IF others = Incomplete THEN Incomplete
        ELSE IF element = Incomplete THEN Incomplete
        ELSE Result(Append(others.value, element.value), element.end)

\* The first n elements, when the buffer holds as many.
ReadUpTo(B, args, n) ==
    IF Len(B) < 4 + Len(Bulks(args)[n]) THEN Incomplete
    ELSE Result(SubSeq(args, 1, n), 4 + Len(Bulks(args)[n]))

LEMMA Complete1 ==
    ASSUME NEW v, NEW n \in Nat
    PROVE  /\ Result(v, n) # Incomplete
           /\ Result(v, n).value = v /\ Result(v, n).end = n
<1>1. Result(v, n).end = n /\ Incomplete.end = -1
  BY DEF Result, Incomplete
<1> QED
  BY <1>1 DEF Result

LEMMA OneMoreElement ==
    ASSUME NEW args \in Seq(Seq(Tokens)), NEW B \in Seq(Tokens),
           Agrees(B, 4, Bulks(args)[Len(args)]), NEW n \in 1 .. Len(args)
    PROVE  Step(B, ReadUpTo(B, args, n - 1)) = ReadUpTo(B, args, n)
<1> DEFINE S == Bulks(args)
           P == BulkOf(args)
           k == Len(args)
           h == n - 1
           s == Len(S[h])
           t == Len(S[n])
           b == Len(B)
           arg == args[n]
           others == ReadUpTo(B, args, h)
           at == 4 + s
<1>1. k \in Nat /\ h \in Nat /\ h < k /\ h + 1 = n /\ b \in Nat /\ arg \in Seq(Tokens)
  OBVIOUS
<1>2. P[n] = Bulk(arg)
  BY DEF BulkOf
<1>3. IsChain(Tokens, S, P, k)
  BY BulksChain
<1> HIDE DEF S, P, k, h, arg, b
<1>4. Next1(Tokens, S, P, k, h)
  BY <1>1, <1>3, ChainNext
<1>5. IsBulk(Bulk(arg), arg)
  BY <1>1, BulkBytes
<1>6. Len(arg) \in Nat /\ Len(Bulk(arg)) = Len(arg) + 6
  BY <1>5 DEF IsBulk
<1>7. /\ s \in Nat /\ t = s + (Len(arg) + 6) /\ t <= Len(S[k])
      /\ \A i \in 1 .. Len(arg) + 6 : S[k][s + i] = Bulk(arg)[i]
  BY <1>1, <1>2, <1>4, <1>6 DEF Next1
<1>8. others = IF b < 4 + s THEN Incomplete ELSE Result(SubSeq(args, 1, h), 4 + s)
  BY DEF ReadUpTo, S, b
<1>9. ReadUpTo(B, args, n) = IF b < 4 + t THEN Incomplete ELSE Result(SubSeq(args, 1, n), 4 + t)
  BY DEF ReadUpTo, S, b
<1>10. Len(S[k]) \in Nat
  <2>1. S[k] \in Seq(Tokens)
    BY <1>1, <1>3 DEF IsChain
  <2> QED
    BY <2>1
<1> HIDE DEF s, t, others
<1>11. CASE b < 4 + s
  BY <1>1, <1>6, <1>7, <1>8, <1>9, <1>11 DEF Step, others, h
<1>12. CASE ~(b < 4 + s)
  <2>1. others = Result(SubSeq(args, 1, h), at) /\ at \in Nat /\ at <= b
    BY <1>1, <1>7, <1>8, <1>12
  <2>2. others # Incomplete /\ others.value = SubSeq(args, 1, h) /\ others.end = at
    BY <2>1, Complete1
  <2>3. Agrees(B, at, Bulk(arg))
    <3>1. ASSUME NEW i \in 1 .. Len(arg) + 6, at + i <= b PROVE B[at + i] = Bulk(arg)[i]
      <4>1. s + i \in 1 .. Len(S[k]) /\ 4 + (s + i) <= b /\ 4 + (s + i) = at + i
        BY <1>1, <1>6, <1>7, <1>10, <3>1
      <4>2. B[4 + (s + i)] = S[k][s + i]
        BY <4>1 DEF Agrees, S, k, b
      <4> QED
        BY <1>7, <4>1, <4>2
    <3> HIDE DEF at
    <3> QED
      BY <1>6, <3>1 DEF Agrees, b
  <2> HIDE DEF at
  <2>4. ParseBulk(B, at) = BulkRead(B, at, arg)
    BY <1>1, <2>1, <2>3, BulkParsed DEF b
  <2>5. at + (Len(arg) + 6) = 4 + t /\ 4 + t \in Nat
    BY <1>6, <1>7 DEF at
  <2>6. ParseBulk(B, at) = IF b < 4 + t THEN Incomplete ELSE Result(arg, 4 + t)
    BY <2>4, <2>5 DEF BulkRead, b
  <2>7. CASE b < 4 + t
    BY <1>9, <2>2, <2>6, <2>7 DEF Step, others, h
  <2>8. CASE ~(b < 4 + t)
    <3>1. /\ ParseBulk(B, at) # Incomplete /\ ParseBulk(B, at).value = arg
          /\ ParseBulk(B, at).end = 4 + t
      BY <2>5, <2>6, <2>8, Complete1
    <3>2. Append(SubSeq(args, 1, h), arg) = SubSeq(args, 1, n)
      BY OneMore DEF h, arg
    <3>3. Step(B, others) = Result(Append(SubSeq(args, 1, h), arg), 4 + t)
      BY <2>2, <3>1 DEF Step
    <3> QED
      BY <1>9, <2>8, <3>2, <3>3 DEF others, h
  <2> QED
    BY <2>7, <2>8
<1> QED
  BY <1>11, <1>12

IsElements(g, B, crlf, k) ==
    g = [n \in 0 .. k |-> IF n = 0 THEN Result(<<>>, crlf + 2) ELSE Step(B, g[n - 1])]

\* All the elements of an array whose head is there.
LEMMA ElementsRead ==
    ASSUME NEW args \in Seq(Seq(Tokens)), NEW B \in Seq(Tokens), Len(B) >= 4,
           Agrees(B, 4, Bulks(args)[Len(args)])
    PROVE  (CHOOSE g : IsElements(g, B, 2, Len(args)))[Len(args)]
              = ReadUpTo(B, args, Len(args))
<1> DEFINE k == Len(args)
           E == [n \in 0 .. k |-> ReadUpTo(B, args, n)]
           G == CHOOSE g : IsElements(g, B, 2, k)
<1>1. k \in Nat /\ Len(B) \in Nat
  OBVIOUS
<1>2. ReadUpTo(B, args, 0) = Result(<<>>, 4)
  <2>1. Bulks(args)[0] = <<>>
    BY BulksChain DEF IsChain
  <2>2. Len(Bulks(args)[0]) = 0 /\ SubSeq(args, 1, 0) = <<>>
    BY <2>1
  <2>3. 4 + 0 = 4 /\ ~(Len(B) < 4)
    BY <1>1
  <2> QED
    BY <2>2, <2>3 DEF ReadUpTo
<1>3. \A n \in 1 .. k : Step(B, ReadUpTo(B, args, n - 1)) = ReadUpTo(B, args, n)
  BY OneMoreElement
<1> HIDE DEF k
<1>4. IsElements(E, B, 2, k)
  <2>1. ASSUME NEW n \in 0 .. k
        PROVE  E[n] = IF n = 0 THEN Result(<<>>, 2 + 2) ELSE Step(B, E[n - 1])
    <3>1. CASE n = 0
      BY <1>2, <3>1
    <3>2. CASE n # 0
      <4>1. n \in 1 .. k /\ n - 1 \in 0 .. k
        BY <1>1, <3>2
      <4> QED
        BY <1>3, <3>2, <4>1
    <3> QED
      BY <3>1, <3>2
  <2>2. E = [n \in 0 .. k |-> E[n]]
    OBVIOUS
  <2> HIDE DEF E
  <2> QED
    BY <2>1, <2>2 DEF IsElements
<1>5. IsElements(G, B, 2, k)
  <2> HIDE DEF E
  <2> QED
    BY <1>4
<1> HIDE DEF E, G
<1>6. G[0] = Result(<<>>, 4) /\ \A n \in 1 .. k : G[n] = Step(B, G[n - 1])
  <2>1. 0 \in 0 .. k /\ \A n \in 1 .. k : n \in 0 .. k /\ n # 0
    BY <1>1
  <2>2. 2 + 2 = 4
    OBVIOUS
  <2> QED
    BY <1>5, <2>1, <2>2 DEF IsElements
<1> DEFINE Q == {n \in Nat : n <= k => G[n] = ReadUpTo(B, args, n)}
<1>7. 0 \in Q
  BY <1>2, <1>6
<1>8. ASSUME NEW n \in 0 .. k - 1, n \in Q PROVE n + 1 \in Q
  <2>1. n + 1 \in 1 .. k /\ (n + 1) - 1 = n /\ n <= k /\ n + 1 \in Nat
    BY <1>1
  <2>2. G[n] = ReadUpTo(B, args, n)
    BY <1>8, <2>1
  <2>3. G[n + 1] = Step(B, G[n])
    BY <1>6, <2>1
  <2>4. Step(B, ReadUpTo(B, args, n)) = ReadUpTo(B, args, n + 1)
    BY <1>3, <2>1
  <2>5. G[n + 1] = ReadUpTo(B, args, n + 1)
    BY <2>2, <2>3, <2>4
  <2> QED
    BY <2>1, <2>5
<1>9. \A n \in 0 .. k : n \in Q
  <2> HIDE DEF Q
  <2> QED
    BY <1>1, <1>7, <1>8, UpTo
<1>10. G[k] = ReadUpTo(B, args, k)
  BY <1>1, <1>9
<1> QED
  BY <1>10 DEF G, k

\* What reading a message of value v, written as W, gives.
Read(B, W, v) == IF Len(B) < Len(W) THEN Incomplete ELSE Result(v, Len(W))

LEMMA ArrayParsed ==
    ASSUME NEW m \in ArrayMessages, NEW B \in Seq(Tokens), Agrees(B, 0, Written(m))
    PROVE  ParseArray(B) = Read(B, Written(m), m.args)
<1> DEFINE args == m.args
           W == Written(m)
           k == Len(args)
           S == Bulks(args)
           b == Len(B)
           crlf == FindCRLF(B, 0)
           l == Len(S[k])
<1>1. IsArray(W, args) /\ args \in Seq(Seq(Tokens)) /\ b \in Nat /\ k \in Nat
  <2>1. IsArray(W, args) /\ args \in Seq(Seq(Tokens))
    BY ArrayBytes
  <2> QED
    BY <2>1
<1>2. ParseArray(B) = IF crlf < 0 THEN Incomplete
                      ELSE IF B[2] \in {-1, 0} THEN Result(<<>>, crlf + 2)
                      ELSE (CHOOSE g : IsElements(g, B, crlf, B[2]))[B[2]]
  BY DEF ParseArray, IsElements, Step
<1> HIDE DEF W, args, k, S, crlf
<1>3. /\ S[k] \in Seq(Tokens) /\ Len(W) = 4 + l
      /\ W[1] = Asterisk /\ W[2] = k /\ W[3] = CR /\ W[4] = LF
      /\ \A i \in 1 .. l : W[4 + i] = S[k][i]
  BY <1>1 DEF IsArray, S, k
<1>4. l \in Nat
  BY <1>3
<1> HIDE DEF l, b
<1>5. \A i \in 1 .. 4 + l : i <= b => B[i] = W[i]
  <2>1. \A i \in 1 .. 4 + l : 0 + i = i
    BY <1>4
  <2> QED
    BY <1>3, <2>1 DEF Agrees, b, W
<1>6. HeadAt(B, 0, Asterisk, k)
  <2>1. 1 \in 1 .. 4 + l /\ 2 \in 1 .. 4 + l /\ 3 \in 1 .. 4 + l /\ 4 \in 1 .. 4 + l
    BY <1>4
  <2>2. 0 + 1 = 1 /\ 0 + 2 = 2 /\ 0 + 3 = 3 /\ 0 + 4 = 4
    OBVIOUS
  <2> QED
    BY <1>3, <1>5, <2>1, <2>2 DEF HeadAt, b
<1>7. crlf = IF b < 0 + 4 THEN -1 ELSE 0 + 2
  BY <1>1, <1>6, WireParameters, HeadFound DEF crlf, b
<1>8. Agrees(B, 4, S[k])
  <2>1. \A i \in 1 .. l : 4 + i \in 1 .. 4 + l
    BY <1>4
  <2>2. ASSUME NEW i \in 1 .. l, 4 + i <= b PROVE B[4 + i] = S[k][i]
    BY <1>3, <1>5, <2>1, <2>2
  <2> QED
    BY <2>2 DEF Agrees, b, l
<1>9. CASE b < 4
  <2>1. crlf = -1 /\ b < 4 + l
    BY <1>1, <1>4, <1>7, <1>9
  <2> QED
    BY <1>2, <1>3, <2>1 DEF Read, b, W
<1>10. CASE b >= 4
  <2>1. crlf = 2 /\ ~(crlf < 0) /\ crlf + 2 = 4 /\ ~(b < 4)
    BY <1>1, <1>7, <1>10
  <2>2. B[2] = k
    BY <1>1, <1>6, <1>10 DEF HeadAt, b
  <2>3. CASE k = 0
    <3>1. args = <<>>
      BY <1>1, <2>3 DEF k
    <3>2. l = 0
      <4>1. S[0] = <<>>
        BY <1>1, BulksChain DEF IsChain, S
      <4> QED
        BY <2>3, <4>1 DEF l
    <3>3. ParseArray(B) = Result(args, 4 + l)
      BY <1>2, <2>1, <2>2, <2>3, <3>1, <3>2
    <3>4. ~(b < Len(W))
      BY <1>1, <1>3, <1>10, <3>2
    <3> QED
      BY <1>3, <3>3, <3>4 DEF Read, b, W, args
  <2>4. CASE k # 0
    <3>1. ParseArray(B) = (CHOOSE g : IsElements(g, B, 2, k))[k]
      <4>1. B[2] \notin {-1, 0}
        BY <1>1, <2>2, <2>4
      <4> QED
        BY <1>2, <2>1, <2>2, <4>1
    <3>2. (CHOOSE g : IsElements(g, B, 2, k))[k] = ReadUpTo(B, args, k)
      BY <1>1, <1>8, <1>10, ElementsRead DEF S, k, b
    <3>3. SubSeq(args, 1, k) = args
      BY <1>1, Whole DEF k
    <3>4. ReadUpTo(B, args, k) = IF b < 4 + l THEN Incomplete ELSE Result(args, 4 + l)
      BY <3>3 DEF ReadUpTo, b, l, S
    <3> QED
      BY <1>3, <3>1, <3>2, <3>4 DEF Read, b, W, args
  <2> QED
    BY <2>3, <2>4
<1> QED
  BY <1>1, <1>9, <1>10

-----------------------------------------------------------------------------
(* Null arrays, simple strings and lines. *)

LEMMA NullParsed ==
    ASSUME NEW B \in Seq(Tokens), Agrees(B, 0, <<Asterisk, -1>> \o CRLF)
    PROVE  /\ ParseArray(B) = Read(B, <<Asterisk, -1>> \o CRLF, <<>>)
           /\ IsHead(<<Asterisk, -1>> \o CRLF, Asterisk, -1)
<1> DEFINE W == <<Asterisk, -1>> \o CRLF
           crlf == FindCRLF(B, 0)
           b == Len(B)
<1>1. IsHead(W, Asterisk, -1)
  <2>1. Asterisk \in Tokens /\ -1 \in Int
    BY DEF Tokens
  <2> QED
    BY <2>1, HeadBytes
<1>2. crlf < 0 => ParseArray(B) = Incomplete
  BY DEF ParseArray
<1>3. ~(crlf < 0) /\ B[2] = -1 => ParseArray(B) = Result(<<>>, crlf + 2)
  BY DEF ParseArray
<1> HIDE DEF W, crlf, b
<1>4. /\ W \in Seq(Tokens) /\ Len(W) = 4 /\ b \in Nat
      /\ W[1] = Asterisk /\ W[2] = -1 /\ W[3] = CR /\ W[4] = LF
  BY <1>1 DEF IsHead, b
<1>5. HeadAt(B, 0, Asterisk, -1)
  <2>1. \A i \in 1 .. 4 : 0 + i <= b => B[0 + i] = W[i]
    BY <1>4 DEF Agrees, W, b
  <2>2. 1 \in 1 .. 4 /\ 2 \in 1 .. 4 /\ 3 \in 1 .. 4 /\ 4 \in 1 .. 4
    OBVIOUS
  <2> QED
    BY <1>4, <2>1, <2>2 DEF HeadAt, b
<1>6. crlf = IF b < 0 + 4 THEN -1 ELSE 0 + 2
  <2>1. Asterisk # CR /\ -1 \in Int
    BY WireParameters
  <2> QED
    BY <1>5, <2>1, HeadFound DEF crlf, b
<1>7. CASE b < 4
  <2>1. crlf < 0
    BY <1>6, <1>7
  <2> QED
    BY <1>1, <1>2, <1>4, <1>7, <2>1 DEF Read, W, b
<1>8. CASE ~(b < 4)
  <2>1. ~(crlf < 0) /\ crlf + 2 = 4 /\ 0 + 2 = 2 /\ 0 + 2 <= b
    BY <1>4, <1>6, <1>8
  <2>2. B[2] = -1
    BY <1>5, <2>1 DEF HeadAt, b
  <2> QED
    BY <1>1, <1>3, <1>4, <1>8, <2>1, <2>2 DEF Read, W, b
<1> QED
  BY <1>7, <1>8

IsSimple(W) == W \in Seq(Tokens) /\ Len(W) = 3 /\ W[1] = Plus /\ W[2] = CR /\ W[3] = LF

LEMMA SimpleParsed ==
    ASSUME NEW B \in Seq(Tokens), Agrees(B, 0, <<Plus>> \o CRLF)
    PROVE  /\ ParseSimple(B) = Read(B, <<Plus>> \o CRLF, <<>>)
           /\ IsSimple(<<Plus>> \o CRLF)
<1> DEFINE W == <<Plus>> \o CRLF
           b == Len(B)
           p == <<Plus>>
<1>1. p \in Seq(Tokens) /\ Len(p) = 1 /\ p[1] = Plus
  BY DEF Tokens
<1>2. IsSimple(W)
  <2> HIDE DEF p
  <2> DEFINE V == p \o CRLF
  <2>1. Joins(Tokens, p, CRLF)
    BY <1>1, Ends, Concatenated
  <2>2. /\ V \in Seq(Tokens) /\ Len(V) = Len(p) + Len(CRLF)
        /\ \A i \in 1 .. Len(p) : V[i] = p[i]
        /\ \A i \in 1 .. Len(CRLF) : V[Len(p) + i] = CRLF[i]
    BY <2>1 DEF Joins
  <2> HIDE DEF V
  <2>3. V[1] = Plus
    BY <1>1, <2>2
  <2>4. V[1 + 1] = CR /\ V[1 + 2] = LF
    BY <1>1, <2>2, Ends
  <2>5. IsSimple(V)
    BY <1>1, <2>2, <2>3, <2>4, Ends DEF IsSimple
  <2> QED
    BY <2>5 DEF V, p
<1> HIDE DEF W, p
<1>3. \A i \in 1 .. 3 : i <= b => B[i] = W[i]
  <2>1. \A i \in 1 .. 3 : 0 + i = i
    OBVIOUS
  <2> QED
    BY <1>2, <2>1 DEF Agrees, IsSimple, W
<1>4. /\ 1 <= b => B[1] = Plus
      /\ 2 <= b => B[2] = CR
      /\ 3 <= b => B[3] = LF
  <2>1. 1 \in 1 .. 3 /\ 2 \in 1 .. 3 /\ 3 \in 1 .. 3
    OBVIOUS
  <2> QED
    BY <1>2, <1>3, <2>1 DEF IsSimple
<1>5. b \in Nat /\ Plus # CR
  BY WireParameters
<1> HIDE DEF b
<1>6. CASE b < 3
  <2>1. ASSUME NEW i \in 0 + 1 .. b - 1 PROVE ~(B[i] = CR /\ B[i + 1] = LF)
    <3>1. i = 1 /\ 1 <= b
      BY <1>5, <1>6
    <3> QED
      BY <1>4, <1>5, <3>1
  <2>2. FindCRLF(B, 0) = -1
    BY <2>1, FindsNone DEF b
  <2> QED
    BY <1>2, <1>6, <2>2 DEF ParseSimple, Read, IsSimple, W, b
<1>7. CASE ~(b < 3)
  <2>1. ASSUME NEW i \in 0 + 1 .. 1 PROVE ~(B[i] = CR /\ B[i + 1] = LF)
    <3>1. i = 1 /\ 1 <= b
      BY <1>5, <1>7
    <3> QED
      BY <1>4, <1>5, <3>1
  <2>2. 1 + 2 <= b /\ B[1 + 1] = CR /\ B[1 + 2] = LF
    BY <1>4, <1>5, <1>7
  <2>3. FindCRLF(B, 0) = 1
    BY <2>1, <2>2, Finds DEF b
  <2>4. 1 + 2 = 3 /\ ~(1 < 0)
    OBVIOUS
  <2> QED
    BY <1>2, <1>7, <2>3, <2>4 DEF ParseSimple, Read, IsSimple, W, b
<1> QED
  BY <1>2, <1>6, <1>7 DEF W

Plain == Letters \cup {LF}
Letter(args) == [i \in 1 .. Len(args) |-> args[i][1]]
IsLine(W, args, end) ==
    /\ Len(args) \in Nat /\ W \in Seq(Tokens) /\ Len(W) = Len(args) + Len(end)
    /\ \A i \in 1 .. Len(args) : W[i] = args[i][1] /\ W[i] \in Letters
    /\ \A i \in 1 .. Len(end) : W[Len(args) + i] = end[i]

LEMMA LineBytes ==
    ASSUME NEW args \in Seq([{1} -> Letters]), NEW X, Letters \subseteq X, X \subseteq Tokens,
           NEW end \in Seq(X)
    PROVE  /\ IsLine(Letter(args) \o end, args, end)
           /\ Letter(args) \o end \in Seq(X)
<1> DEFINE n == Len(args)
           L == Letter(args)
           W == L \o end
<1>1. n \in Nat /\ \A i \in 1 .. n : args[i] \in [{1} -> Letters]
  OBVIOUS
<1>2. \A i \in 1 .. n : args[i][1] \in Letters
  BY <1>1
<1>3. L \in Seq(X) /\ Len(L) = n /\ \A i \in 1 .. n : L[i] = args[i][1]
  <2>1. L \in [1 .. n -> X]
    BY <1>2 DEF Letter
  <2>2. \A i \in 1 .. n : L[i] = args[i][1]
    BY DEF Letter
  <2> HIDE DEF n, L
  <2> QED
    BY <1>1, <2>1, <2>2, AsSequence
<1> HIDE DEF n, L
<1>4. Joins(X, L, end)
  BY <1>3, Concatenated
<1>5. /\ W \in Seq(X) /\ Len(W) = Len(L) + Len(end)
      /\ \A i \in 1 .. Len(L) : W[i] = L[i]
      /\ \A i \in 1 .. Len(end) : W[Len(L) + i] = end[i]
  BY <1>4 DEF Joins
<1> HIDE DEF W
<1>6. W \in Seq(Tokens)
  BY <1>5
<1>7. IsLine(W, args, end)
  BY <1>1, <1>2, <1>3, <1>5, <1>6 DEF IsLine, n
<1> QED
  BY <1>5, <1>7 DEF W, L

\* The words of a line are read as they are.
LEMMA WordsRead ==
    ASSUME NEW args \in Seq([{1} -> Letters]), NEW B,
           \A i \in 1 .. Len(args) : B[i] = args[i][1]
    PROVE  [i \in 1 .. Len(args) |-> <<B[i]>>] = args
<1>1. args = [i \in 1 .. Len(args) |-> args[i]]
  OBVIOUS
<1>2. ASSUME NEW i \in 1 .. Len(args) PROVE <<B[i]>> = args[i]
  <2>1. args[i] \in [{1} -> Letters]
    OBVIOUS
  <2>2. args[i] = [j \in 1 .. 1 |-> args[i][1]]
    <3>1. {1} = 1 .. 1
      OBVIOUS
    <3>2. args[i] = [j \in {1} |-> args[i][j]]
      BY <2>1
    <3>3. [j \in {1} |-> args[i][j]] = [j \in {1} |-> args[i][1]]
      OBVIOUS
    <3> QED
      BY <3>1, <3>2, <3>3
  <2> QED
    BY <2>2
<1> QED
  BY <1>1, <1>2

Word(B, n) == [i \in 1 .. n |-> <<B[i]>>]
LFs(B) == {i \in 1 .. Len(B) : B[i] = LF}

LEMMA InlineCases ==
    ASSUME NEW B
    PROVE  /\ FindCRLF(B, 0) >= 0 =>
                 ParseInline(B) = Result(Word(B, FindCRLF(B, 0)), FindCRLF(B, 0) + 2)
           /\ ~(FindCRLF(B, 0) >= 0) /\ LFs(B) # {} =>
                 ParseInline(B) = Result(Word(B, Min(LFs(B)) - 1), Min(LFs(B)))
           /\ ~(FindCRLF(B, 0) >= 0) /\ LFs(B) = {} => ParseInline(B) = Incomplete
  BY DEF ParseInline, Word, LFs

LEMMA CRLFLineParsed ==
    ASSUME NEW args \in Seq([{1} -> Letters]), NEW B \in Seq(Tokens),
           NEW W, IsLine(W, args, CRLF), Agrees(B, 0, W)
    PROVE  ParseInline(B) = Read(B, W, args)
<1> DEFINE n == Len(args)
           b == Len(B)
<1>1. /\ n \in Nat /\ b \in Nat /\ Len(W) = n + 2
      /\ \A i \in 1 .. n : W[i] = args[i][1] /\ W[i] \in Letters
      /\ W[n + 1] = CR /\ W[n + 2] = LF
  <2>1. 1 \in 1 .. 2 /\ 2 \in 1 .. 2
    OBVIOUS
  <2> QED
    BY <2>1, Ends DEF IsLine
<1>2. \A i \in 1 .. n + 2 : i <= b => B[i] = W[i]
  <2>1. \A i \in 1 .. n + 2 : 0 + i = i
    BY <1>1
  <2> QED
    BY <1>1, <2>1 DEF Agrees
<1> HIDE DEF n, b
<1>3. CR \notin Letters /\ LF \notin Letters /\ CR # LF
  BY WireParameters
<1>4. ASSUME NEW i \in 1 .. n, i <= b PROVE B[i] \in Letters /\ B[i] # CR /\ B[i] # LF
  <2>1. i \in 1 .. n + 2
    BY <1>1
  <2> QED
    BY <1>1, <1>2, <1>3, <1>4, <2>1
<1>5. CASE b < n + 2
  <2>1. ASSUME NEW i \in 0 + 1 .. b - 1 PROVE ~(B[i] = CR /\ B[i + 1] = LF)
    <3>1. i \in 1 .. n /\ i <= b
      BY <1>1, <1>5
    <3> QED
      BY <1>4, <3>1
  <2>2. FindCRLF(B, 0) = -1
    BY <2>1, FindsNone DEF b
  <2>3. ASSUME NEW i \in 1 .. b PROVE B[i] # LF
    <3>1. CASE i = n + 1
      <4>1. i \in 1 .. n + 2 /\ i <= b
        BY <1>1, <3>1
      <4> QED
        BY <1>1, <1>2, <1>3, <3>1, <4>1
    <3>2. CASE i # n + 1
      <4>1. i \in 1 .. n /\ i <= b
        BY <1>1, <1>5, <3>2
      <4> QED
        BY <1>4, <4>1
    <3> QED
      BY <3>1, <3>2
  <2>4. LFs(B) = {}
    BY <2>3 DEF LFs, b
  <2> QED
    BY <1>1, <1>5, <2>2, <2>4, InlineCases DEF Read, b
<1>6. CASE ~(b < n + 2)
  <2>1. ASSUME NEW i \in 0 + 1 .. n PROVE ~(B[i] = CR /\ B[i + 1] = LF)
    <3>1. i \in 1 .. n /\ i <= b
      BY <1>1, <1>6
    <3> QED
      BY <1>4, <3>1
  <2>2. n + 2 <= b /\ B[n + 1] = CR /\ B[n + 2] = LF /\ 0 <= n
    <3>1. n + 1 \in 1 .. n + 2 /\ n + 2 \in 1 .. n + 2 /\ n + 1 <= b /\ n + 2 <= b /\ 0 <= n
      BY <1>1, <1>6
    <3> QED
      BY <1>1, <1>2, <3>1
  <2>3. FindCRLF(B, 0) = n
    BY <1>1, <2>1, <2>2, Finds DEF b
  <2>4. Word(B, n) = args
    <3>1. \A i \in 1 .. n : i \in 1 .. n + 2 /\ i <= b
      BY <1>1, <1>6
    <3>2. \A i \in 1 .. n : B[i] = args[i][1]
      BY <1>1, <1>2, <3>1
    <3> QED
      BY <3>2, WordsRead DEF Word, n
  <2>5. n >= 0
    BY <1>1
  <2> QED
    BY <1>1, <1>6, <2>3, <2>4, <2>5, InlineCases DEF Read, b
<1> QED
  BY <1>5, <1>6

LEMMA LFLineParsed ==
    ASSUME NEW args \in Seq([{1} -> Letters]), NEW B \in Seq(Plain),
           NEW W, IsLine(W, args, <<LF>>), Agrees(B, 0, W)
    PROVE  ParseInline(B) = Read(B, W, args)
<1> DEFINE n == Len(args)
           b == Len(B)
<1>1. /\ n \in Nat /\ b \in Nat /\ Len(W) = n + 1
      /\ \A i \in 1 .. n : W[i] = args[i][1] /\ W[i] \in Letters
      /\ W[n + 1] = LF
  <2>1. 1 \in 1 .. 1 /\ Len(<<LF>>) = 1
    OBVIOUS
  <2> QED
    BY <2>1 DEF IsLine
<1>2. \A i \in 1 .. n + 1 : i <= b => B[i] = W[i]
  <2>1. \A i \in 1 .. n + 1 : 0 + i = i
    BY <1>1
  <2> QED
    BY <1>1, <2>1 DEF Agrees
<1>3. B \in Seq(Tokens) /\ \A i \in 1 .. b : B[i] \in Plain
  BY DEF Plain, Tokens
<1> HIDE DEF n, b
<1>4. CR \notin Plain /\ LF \notin Letters
  BY WireParameters DEF Plain
<1>5. FindCRLF(B, 0) = -1
  <2>1. ASSUME NEW i \in 0 + 1 .. b - 1 PROVE ~(B[i] = CR /\ B[i + 1] = LF)
    <3>1. i \in 1 .. b
      BY <1>1
    <3> QED
      BY <1>3, <1>4, <3>1
  <2> QED
    BY <1>3, <2>1, FindsNone DEF b
<1>6. ASSUME NEW i \in 1 .. n, i <= b PROVE B[i] # LF
  <2>1. i \in 1 .. n + 1
    BY <1>1
  <2> QED
    BY <1>1, <1>2, <1>4, <1>6, <2>1
<1>7. CASE b < n + 1
  <2>1. ASSUME NEW i \in 1 .. b PROVE B[i] # LF
    <3>1. i \in 1 .. n /\ i <= b
      BY <1>1, <1>7
    <3> QED
      BY <1>6, <3>1
  <2>2. LFs(B) = {}
    BY <2>1 DEF LFs, b
  <2> QED
    BY <1>1, <1>5, <1>7, <2>2, InlineCases DEF Read, b
<1>8. CASE ~(b < n + 1)
  <2>1. n + 1 \in 1 .. n + 1 /\ n + 1 <= b /\ n + 1 \in 1 .. b
    BY <1>1, <1>8
  <2>2. n + 1 \in LFs(B)
    BY <1>1, <1>2, <2>1 DEF LFs, b
  <2>3. \A i \in LFs(B) : n + 1 <= i /\ i \in Nat
    <3>1. ASSUME NEW i \in LFs(B) PROVE n + 1 <= i /\ i \in Nat
      <4>1. i \in 1 .. b /\ B[i] = LF
        BY DEF LFs, b
      <4>2. CASE i \in 1 .. n
        BY <1>1, <1>6, <4>1, <4>2
      <4>3. CASE i \notin 1 .. n
        BY <1>1, <4>1, <4>3
      <4> QED
        BY <4>2, <4>3
    <3> QED
      BY <3>1
  <2>4. Min(LFs(B)) = n + 1
    <3>1. \A x \in LFs(B) : (\A y \in LFs(B) : x <= y) => x = n + 1
      BY <1>1, <2>2, <2>3
    <3>2. \E x \in LFs(B) : \A y \in LFs(B) : x <= y
      BY <2>2, <2>3
    <3> QED
      BY <3>1, <3>2 DEF Min
  <2>5. Word(B, n) = args
    <3>1. \A i \in 1 .. n : i \in 1 .. n + 1 /\ i <= b
      BY <1>1, <1>8
    <3>2. \A i \in 1 .. n : B[i] = args[i][1]
      BY <1>1, <1>2, <3>1
    <3> QED
      BY <3>2, WordsRead DEF Word, n
  <2>6. (n + 1) - 1 = n /\ ~(-1 >= 0) /\ LFs(B) # {}
    BY <1>1, <2>2
  <2> QED
    BY <1>1, <1>5, <1>8, <2>4, <2>5, <2>6, InlineCases DEF Read, b
<1> QED
  BY <1>7, <1>8

-----------------------------------------------------------------------------
(* Messages. *)

AllMessages == CRLFMessages \cup LineMessages(<<LF>>)

LEMMA WrittenForms ==
    ASSUME NEW m
    PROVE  /\ m.form = "line" => Written(m) = Letter(m.args) \o m.end
           /\ m.form = "null" => Written(m) = <<Asterisk, -1>> \o CRLF
           /\ m.form = "simple" => Written(m) = <<Plus>> \o CRLF
  BY DEF Written, Letter

LEMMA TryForms ==
    ASSUME NEW B
    PROVE  /\ B[1] = Asterisk => TryParse(B) = ParseArray(B)
           /\ B[1] = Plus => TryParse(B) = ParseSimple(B)
           /\ B[1] \notin {Asterisk, Plus} => TryParse(B) = ParseInline(B)
<1>1. Asterisk # Plus
  BY WireParameters
<1> QED
  BY <1>1 DEF TryParse

MessageRead(m, B) ==
    /\ Written(m) \in Seq(Tokens) /\ Len(Written(m)) \in Nat /\ Len(Written(m)) >= 1
    /\ Len(B) >= 1 => TryParse(B) = Read(B, Written(m), m.args)

LEMMA LineRead ==
    ASSUME NEW m, m.form = "line", m.args \in Seq([{1} -> Letters]),
           NEW X, Letters \subseteq X, X \subseteq Tokens,
           m.end \in Seq(X), Len(m.end) >= 1, m.end[1] \in {CR, LF},
           NEW B, Agrees(B, 0, Written(m)),
           \A W : IsLine(W, m.args, m.end) /\ Agrees(B, 0, W) => ParseInline(B) = Read(B, W, m.args)
    PROVE  MessageRead(m, B) /\ Written(m) \in Seq(X)
<1> DEFINE W == Written(m)
           n == Len(m.args)
<1>1. W = Letter(m.args) \o m.end
  BY WrittenForms
<1>2. IsLine(W, m.args, m.end) /\ W \in Seq(X)
  BY <1>1, LineBytes
<1>3. /\ n \in Nat /\ W \in Seq(Tokens) /\ Len(W) = n + Len(m.end)
      /\ \A i \in 1 .. n : W[i] \in Letters
      /\ \A i \in 1 .. Len(m.end) : W[n + i] = m.end[i]
  BY <1>2 DEF IsLine
<1>4. Len(m.end) \in Nat
  OBVIOUS
<1>5. ParseInline(B) = Read(B, W, m.args)
  BY <1>2
<1> HIDE DEF W, n
<1>6. Len(W) \in Nat /\ Len(W) >= 1
  BY <1>3, <1>4
<1>7. W[1] \in Letters \cup {CR, LF}
  <2>1. CASE n = 0
    <3>1. 1 \in 1 .. Len(m.end) /\ n + 1 = 1
      BY <1>4, <2>1
    <3> QED
      BY <1>3, <3>1
  <2>2. CASE n # 0
    <3>1. 1 \in 1 .. n
      BY <1>3, <2>2
    <3> QED
      BY <1>3, <3>1
  <2> QED
    BY <2>1, <2>2
<1>8. ASSUME Len(B) >= 1 PROVE TryParse(B) = ParseInline(B)
  <2>1. 1 \in 1 .. Len(W) /\ 0 + 1 <= Len(B) /\ 0 + 1 = 1
    BY <1>6, <1>8
  <2>2. B[1] = W[1]
    BY <2>1 DEF Agrees, W
  <2>3. W[1] \notin {Asterisk, Plus}
    BY <1>7, WireParameters
  <2> QED
    BY <2>2, <2>3, TryForms
<1> QED
  BY <1>2, <1>3, <1>5, <1>6, <1>8 DEF MessageRead, W

\* A message is read when it is complete, and not before.
LEMMA MessageParsed ==
    ASSUME NEW m, NEW B \in Seq(Tokens), Agrees(B, 0, Written(m)),
           m \in CRLFMessages \/ (m \in LineMessages(<<LF>>) /\ B \in Seq(Plain))
    PROVE  MessageRead(m, B)
<1> DEFINE W == Written(m)
<1>1. ASSUME Len(B) >= 1, Len(W) >= 1, Len(W) \in Nat PROVE B[1] = W[1]
  <2>1. 1 \in 1 .. Len(W) /\ 0 + 1 <= Len(B) /\ 0 + 1 = 1
    BY <1>1
  <2> QED
    BY <2>1 DEF Agrees
<1>2. CASE m \in ArrayMessages
  <2>1. IsArray(W, m.args) /\ ParseArray(B) = Read(B, W, m.args)
    BY <1>2, ArrayBytes, ArrayParsed
  <2> HIDE DEF W
  <2>2. /\ W \in Seq(Tokens) /\ Len(W) \in Nat /\ Len(W) >= 1 /\ W[1] = Asterisk
    <3> DEFINE all == Bulks(m.args)[Len(m.args)]
    <3>1. W \in Seq(Tokens) /\ all \in Seq(Tokens) /\ Len(W) = 4 + Len(all) /\ W[1] = Asterisk
      BY <2>1 DEF IsArray
    <3> HIDE DEF all
    <3>2. Len(all) \in Nat
      BY <3>1
    <3> QED
      BY <3>1, <3>2
  <2> QED
    BY <1>1, <2>1, <2>2, TryForms DEF MessageRead, W
<1>3. CASE m \in LineMessages(CRLF)
  <2>1. m.form = "line" /\ m.args \in Seq([{1} -> Letters]) /\ m.end = CRLF
    BY <1>3 DEF LineMessages
  <2>2. CRLF[1] \in {CR, LF} /\ Len(CRLF) >= 1 /\ Letters \subseteq Tokens /\ CRLF \in Seq(Tokens)
    BY Ends DEF Tokens
  <2>3. \A V : IsLine(V, m.args, m.end) /\ Agrees(B, 0, V) => ParseInline(B) = Read(B, V, m.args)
    BY <2>1, CRLFLineParsed
  <2> QED
    BY <2>1, <2>2, <2>3, LineRead
<1>4. CASE m \in EmptyMessages /\ m.form = "null"
  <2>1. m.args = <<>> /\ W = <<Asterisk, -1>> \o CRLF
    BY <1>4, WrittenForms DEF EmptyMessages
  <2>2. ParseArray(B) = Read(B, W, m.args) /\ IsHead(W, Asterisk, -1)
    BY <2>1, NullParsed
  <2> HIDE DEF W
  <2>3. W \in Seq(Tokens) /\ Len(W) \in Nat /\ Len(W) >= 1 /\ W[1] = Asterisk
    BY <2>2 DEF IsHead
  <2> QED
    BY <1>1, <2>2, <2>3, TryForms DEF MessageRead, W
<1>5. CASE m \in EmptyMessages /\ m.form = "simple"
  <2>1. m.args = <<>> /\ W = <<Plus>> \o CRLF
    BY <1>5, WrittenForms DEF EmptyMessages
  <2>2. ParseSimple(B) = Read(B, W, m.args) /\ IsSimple(W)
    BY <2>1, SimpleParsed
  <2> HIDE DEF W
  <2>3. W \in Seq(Tokens) /\ Len(W) \in Nat /\ Len(W) >= 1 /\ W[1] = Plus
    BY <2>2 DEF IsSimple
  <2> QED
    BY <1>1, <2>2, <2>3, TryForms DEF MessageRead, W
<1>6. CASE m \in LineMessages(<<LF>>) /\ B \in Seq(Plain)
  <2>1. m.form = "line" /\ m.args \in Seq([{1} -> Letters]) /\ m.end = <<LF>>
    BY <1>6 DEF LineMessages
  <2>2. /\ <<LF>>[1] \in {CR, LF} /\ Len(<<LF>>) >= 1 /\ Letters \subseteq Tokens
        /\ <<LF>> \in Seq(Tokens)
    BY DEF Tokens
  <2>3. \A V : IsLine(V, m.args, m.end) /\ Agrees(B, 0, V) => ParseInline(B) = Read(B, V, m.args)
    BY <1>6, <2>1, LFLineParsed
  <2> QED
    BY <2>1, <2>2, <2>3, LineRead
<1>7. m \in EmptyMessages => m.form = "null" \/ m.form = "simple"
  BY DEF EmptyMessages
<1> QED
  BY <1>2, <1>3, <1>4, <1>5, <1>6, <1>7 DEF CRLFMessages

LEMMA MessageBytes ==
    ASSUME NEW m \in AllMessages
    PROVE  /\ Written(m) \in Seq(Tokens) /\ Len(Written(m)) \in Nat /\ Len(Written(m)) >= 1
           /\ m \in LineMessages(<<LF>>) => Written(m) \in Seq(Plain)
<1>1. <<>> \in Seq(Tokens) /\ <<>> \in Seq(Plain)
  OBVIOUS
<1>2. Agrees(<<>>, 0, Written(m))
  <2>1. \A i \in 1 .. Len(Written(m)) : ~(0 + i <= 0)
    OBVIOUS
  <2>2. Len(<<>>) = 0
    OBVIOUS
  <2> QED
    BY <2>1, <2>2 DEF Agrees
<1>3. MessageRead(m, <<>>)
  BY <1>1, <1>2, MessageParsed DEF AllMessages
<1>4. ASSUME m \in LineMessages(<<LF>>) PROVE Written(m) \in Seq(Plain)
  <2>1. m.form = "line" /\ m.args \in Seq([{1} -> Letters]) /\ m.end = <<LF>>
    BY <1>4 DEF LineMessages
  <2>2. Letters \subseteq Plain /\ Plain \subseteq Tokens /\ <<LF>> \in Seq(Plain)
    BY DEF Plain, Tokens
  <2>3. Letter(m.args) \o <<LF>> \in Seq(Plain)
    BY <2>1, <2>2, LineBytes
  <2> QED
    BY <2>1, <2>3, WrittenForms
<1> QED
  BY <1>3, <1>4 DEF MessageRead

-----------------------------------------------------------------------------
(* The messages of a client one after the other. *)

WrittenOf(messages) == [i \in 1 .. Len(messages) |-> Written(messages[i])]
IsMessages(S, messages) ==
    S = [n \in 0 .. Len(messages) |-> IF n = 0 THEN <<>> ELSE S[n - 1] \o Written(messages[n])]

LEMMA StreamChain ==
    ASSUME NEW messages, Len(messages) \in Nat, NEW X,
           \A i \in 1 .. Len(messages) : Written(messages[i]) \in Seq(X)
    PROVE  IsChain(X, Stream(messages), WrittenOf(messages), Len(messages))
<1> DEFINE k == Len(messages)
           P == WrittenOf(messages)
           T == CHOOSE S : IsMessages(S, messages)
<1>1. k \in Nat /\ P \in [1 .. k -> Seq(X)]
  BY DEF WrittenOf
<1>2. \A n \in 0 .. k : n # 0 => P[n] = Written(messages[n])
  BY <1>1 DEF WrittenOf
<1>3. Stream(messages) = T
  BY DEF Stream, IsMessages
<1> HIDE DEF P, k
<1>4. PICK S : Chain(S, P, k)
  BY <1>1, ChainExists
<1>5. ASSUME NEW R PROVE Chain(R, P, k) <=> IsMessages(R, messages)
  <2>1. [n \in 0 .. k |-> IF n = 0 THEN <<>> ELSE R[n - 1] \o P[n]]
        = [n \in 0 .. k |-> IF n = 0 THEN <<>> ELSE R[n - 1] \o Written(messages[n])]
    BY <1>2
  <2> QED
    BY <2>1 DEF Chain, IsMessages, k
<1>6. IsMessages(T, messages)
  BY <1>4, <1>5
<1> HIDE DEF T
<1>7. IsChain(X, T, P, k)
  BY <1>1, <1>5, <1>6, ChainSteps
<1> QED
  BY <1>3, <1>7 DEF P, k

Sent(messages) == messages \in Seq(CRLFMessages) \cup Seq(LineMessages(<<LF>>))

LEMMA Streamed ==
    ASSUME NEW messages, Sent(messages)
    PROVE  /\ messages \in Seq(AllMessages) /\ Len(messages) \in Nat
           /\ IsChain(Tokens, Stream(messages), WrittenOf(messages), Len(messages))
           /\ messages \in Seq(LineMessages(<<LF>>)) =>
                IsChain(Plain, Stream(messages), WrittenOf(messages), Len(messages))
<1>1. messages \in Seq(AllMessages) /\ Len(messages) \in Nat
  BY DEF Sent, AllMessages
<1>2. \A i \in 1 .. Len(messages) : messages[i] \in AllMessages
  BY <1>1
<1>3. \A i \in 1 .. Len(messages) : Written(messages[i]) \in Seq(Tokens)
  BY <1>2, MessageBytes
<1>4. ASSUME messages \in Seq(LineMessages(<<LF>>))
      PROVE  \A i \in 1 .. Len(messages) : Written(messages[i]) \in Seq(Plain)
  <2>1. \A i \in 1 .. Len(messages) : messages[i] \in LineMessages(<<LF>>)
    BY <1>4
  <2> QED
    BY <1>2, <2>1, MessageBytes
<1> QED
  BY <1>1, <1>3, <1>4, StreamChain

-----------------------------------------------------------------------------
(* The commands among the messages. *)

ArgLists == {m.args : m \in AllMessages}
Take(r, args) == IF args = <<>> THEN r ELSE Append(r, args)

IsCommands(g, messages) ==
    g = [n \in 0 .. Len(messages) |-> IF n = 0 THEN <<>> ELSE Take(g[n - 1], messages[n].args)]

LEMMA CommandsSteps ==
    ASSUME NEW messages \in Seq(AllMessages)
    PROVE  /\ CommandsOf(messages)[0] = <<>>
           /\ \A n \in 1 .. Len(messages) :
                 CommandsOf(messages)[n] = Take(CommandsOf(messages)[n - 1], messages[n].args)
           /\ \A n \in 0 .. Len(messages) : CommandsOf(messages)[n] \in Seq(ArgLists)
<1> DEFINE k == Len(messages)
           X == Seq(ArgLists)
           F == [x \in X \X (1 .. k) |-> Take(x[1], messages[x[2]].args)]
<1>0. k \in Nat /\ \A i \in 1 .. k : messages[i] \in AllMessages
  OBVIOUS
<1>a. ASSUME NEW r \in X, NEW i \in 1 .. k PROVE Take(r, messages[i].args) \in X
  <2>1. messages[i].args \in ArgLists
    BY <1>0 DEF ArgLists
  <2> QED
    BY <2>1 DEF Take
<1>1. F \in Steps(k, X)
  <2> HIDE DEF X, k
  <2> QED
    BY <1>a DEF Steps
<1>2. ASSUME NEW v \in X, NEW i \in 1 .. k PROVE F[<<v, i>>] = Take(v, messages[i].args)
  OBVIOUS
<1> HIDE DEF F
<1>3. PICK g : Follows(g, k, X, <<>>, F)
  <2>1. <<>> \in X
    OBVIOUS
  <2> HIDE DEF k, X
  <2> QED
    BY <1>0, <1>1, <2>1, Recursion, Zenon
<1>4. g \in [0 .. k -> X] /\ g[0] = <<>> /\ \A i \in 1 .. k : g[i] = F[<<g[i - 1], i>>]
  BY <1>3 DEF Follows
<1>5. ASSUME NEW i \in 1 .. k PROVE g[i] = Take(g[i - 1], messages[i].args)
  <2> HIDE DEF k, X
  <2>1. i - 1 \in 0 .. k
    BY <1>0
  <2>2. g[i - 1] \in X
    BY <1>4, <2>1
  <2> QED
    BY <1>2, <1>4, <2>2
<1>6. IsCommands(g, messages)
  <2>1. g = [i \in 0 .. k |-> g[i]]
    BY <1>4
  <2>2. \A i \in 0 .. k : i # 0 => i \in 1 .. k
    BY <1>0
  <2> HIDE DEF X
  <2> QED
    BY <1>4, <1>5, <2>1, <2>2 DEF IsCommands
<1> DEFINE C == CHOOSE g1 : IsCommands(g1, messages)
<1>7. IsCommands(C, messages)
  BY <1>6
<1>8. CommandsOf(messages) = C
  BY DEF CommandsOf, IsCommands, Take
<1> HIDE DEF C
<1>9. C[0] = <<>> /\ \A n \in 1 .. k : C[n] = Take(C[n - 1], messages[n].args)
  <2>1. 0 \in 0 .. k /\ \A n \in 1 .. k : n \in 0 .. k /\ n # 0
    BY <1>0
  <2> QED
    BY <1>7, <2>1 DEF IsCommands
<1>10. \A n \in 0 .. k : C[n] \in X
  <2> DEFINE P == {n \in Nat : n <= k => C[n] \in X}
  <2>1. 0 \in P
    <3>1. <<>> \in X
      OBVIOUS
    <3> QED
      BY <1>9, <3>1
  <2>2. ASSUME NEW n \in 0 .. k - 1, n \in P PROVE n + 1 \in P
    <3>1. C[n] \in X /\ n + 1 \in 1 .. k /\ (n + 1) - 1 = n
      BY <1>0, <2>2
    <3>2. C[n + 1] = Take(C[n], messages[n + 1].args)
      BY <1>9, <3>1
    <3>3. C[n + 1] \in X
      BY <1>a, <3>1, <3>2
    <3> QED
      BY <3>1, <3>3
  <2>3. \A n \in 0 .. k : n \in P
    <3> HIDE DEF P, k
    <3> QED
      BY <1>0, <2>1, <2>2, UpTo
  <2> QED
    BY <2>3
<1> QED
  BY <1>8, <1>9, <1>10

\* What has become of the commands C: all dispatched while there is no QUIT
\* among them; those up to the first QUIT after.
NoQuit(C, done, closing) ==
    ~closing /\ done = C /\ \A i \in 1 .. Len(C) : C[i][1] # <<Quit>>
FirstQuit(C, done, q) ==
    /\ q \in 1 .. Len(C) /\ C[q][1] = <<Quit>>
    /\ \A i \in 1 .. q - 1 : C[i][1] # <<Quit>>
    /\ q <= Len(done) /\ \A i \in 1 .. q : done[i] = C[i]
Dispatched(C, done, closing, stopped, dropped) ==
    /\ C \in Seq(ArgLists) /\ done \in Seq(ArgLists) /\ dropped \in Nat
    /\ closing \in BOOLEAN /\ stopped \in BOOLEAN /\ (stopped => closing)
    /\ Len(done) + dropped = Len(C)
    /\ NoQuit(C, done, closing) \/ (closing /\ \E q : FirstQuit(C, done, q))

\* One more command dispatched or dropped.
LEMMA OneMoreCommand ==
    ASSUME NEW C, NEW done, NEW closing, NEW stopped, NEW dropped,
           Dispatched(C, done, closing, stopped, dropped),
           NEW c \in ArgLists, NEW done2, NEW closing2, NEW stopped2, NEW dropped2,
           IF stopped
           THEN dropped2 = dropped + 1 /\ done2 = done /\ closing2 = closing /\ stopped2 = stopped
           ELSE /\ done2 = Append(done, c) /\ closing2 = (closing \/ c[1] = <<Quit>>)
                /\ stopped2 = closing2 /\ dropped2 = dropped
    PROVE  Dispatched(Append(C, c), done2, closing2, stopped2, dropped2)
<1> DEFINE D == Append(C, c)
           k == Len(C)
<1>1. /\ C \in Seq(ArgLists) /\ done \in Seq(ArgLists) /\ dropped \in Nat
      /\ closing \in BOOLEAN /\ stopped \in BOOLEAN /\ (stopped => closing)
      /\ Len(done) + dropped = k
  BY DEF Dispatched
<1>2. /\ D \in Seq(ArgLists) /\ Len(D) = k + 1 /\ k \in Nat /\ D[k + 1] = c
      /\ \A i \in 1 .. k : D[i] = C[i]
  BY <1>1
<1>3. Len(done) \in Nat
  BY <1>1
<1> DEFINE E == Append(done, c)
<1>4. /\ E \in Seq(ArgLists) /\ Len(E) = Len(done) + 1
      /\ \A i \in 1 .. Len(done) : E[i] = done[i]
  BY <1>1
<1> HIDE DEF D, k, E
<1>5. ASSUME NEW q, FirstQuit(C, done, q), NEW t, Len(done) <= Len(t), Len(t) \in Nat,
             \A i \in 1 .. Len(done) : t[i] = done[i]
      PROVE  FirstQuit(D, t, q)
  <2>1. /\ q \in 1 .. k /\ C[q][1] = <<Quit>>
        /\ \A i \in 1 .. q - 1 : C[i][1] # <<Quit>>
        /\ q <= Len(done) /\ \A i \in 1 .. q : done[i] = C[i]
    BY <1>5 DEF FirstQuit, k
  <2>2. q \in 1 .. Len(D) /\ q <= Len(t)
    BY <1>2, <1>3, <1>5, <2>1
  <2>3. \A i \in 1 .. q : i \in 1 .. k /\ i \in 1 .. Len(done)
    BY <1>2, <1>3, <2>1
  <2>4. \A i \in 1 .. q : D[i] = C[i] /\ t[i] = C[i]
    BY <1>2, <1>5, <2>1, <2>3
  <2>5. q \in 1 .. q /\ \A i \in 1 .. q - 1 : i \in 1 .. q
    BY <2>1
  <2>6. D[q][1] = <<Quit>> /\ \A i \in 1 .. q - 1 : D[i][1] # <<Quit>>
    BY <2>1, <2>4, <2>5
  <2> QED
    BY <2>2, <2>4, <2>6 DEF FirstQuit
<1>6. CASE stopped
  <2>1. dropped2 = dropped + 1 /\ done2 = done /\ closing2 = closing /\ stopped2 = stopped
    BY <1>6
  <2>2. closing /\ ~NoQuit(C, done, closing)
    BY <1>1, <1>6 DEF NoQuit
  <2>3. PICK q : FirstQuit(C, done, q)
    BY <2>2 DEF Dispatched
  <2>4. FirstQuit(D, done, q)
    BY <1>3, <1>5, <2>3
  <2>5. Len(done) + (dropped + 1) = Len(D) /\ dropped + 1 \in Nat
    <3>1. /\ Len(done) \in Nat /\ dropped \in Nat /\ k \in Nat
          /\ Len(done) + dropped = k /\ Len(D) = k + 1
      BY <1>1, <1>2, <1>3
    <3> QED
      BY <3>1
  <2>6. Dispatched(D, done2, closing2, stopped2, dropped2)
    BY <1>1, <1>2, <2>1, <2>2, <2>4, <2>5 DEF Dispatched
  <2> QED
    BY <2>6 DEF D
<1>7. CASE ~stopped
  <2>1. /\ done2 = E /\ closing2 = (closing \/ c[1] = <<Quit>>)
        /\ stopped2 = closing2 /\ dropped2 = dropped
    BY <1>7 DEF E
  <2>2. Len(E) + dropped = Len(D) /\ Len(E) \in Nat /\ Len(done) <= Len(E)
    BY <1>1, <1>2, <1>3, <1>4
  <2>3. CASE closing
    <3>1. ~NoQuit(C, done, closing)
      BY <2>3 DEF NoQuit
    <3>2. PICK q : FirstQuit(C, done, q)
      BY <3>1 DEF Dispatched
    <3>3. FirstQuit(D, E, q)
      BY <1>4, <1>5, <2>2, <3>2
    <3>4. closing2 /\ closing2 \in BOOLEAN
      BY <1>1, <2>1, <2>3
    <3>5. Dispatched(D, done2, closing2, stopped2, dropped2)
      BY <1>1, <1>2, <1>4, <2>1, <2>2, <3>3, <3>4 DEF Dispatched
    <3> QED
      BY <3>5 DEF D
  <2>4. CASE ~closing
    <3>1. NoQuit(C, done, closing)
      BY <2>4 DEF Dispatched
    <3>2. done = C /\ \A i \in 1 .. k : C[i][1] # <<Quit>>
      BY <3>1 DEF NoQuit, k
    <3>3. E = D
      BY <3>2 DEF E, D
    <3>4. closing2 = (c[1] = <<Quit>>) /\ closing2 \in BOOLEAN
      BY <1>1, <2>1, <2>4
    <3>5. CASE c[1] = <<Quit>>
      <4>1. FirstQuit(D, E, k + 1)
        <5>1. k + 1 \in 1 .. Len(D) /\ k + 1 <= Len(D) /\ (k + 1) - 1 = k
          BY <1>2
        <5>2. \A i \in 1 .. k : D[i][1] # <<Quit>>
          BY <1>2, <3>2
        <5> QED
          BY <1>2, <3>3, <3>5, <5>1, <5>2 DEF FirstQuit
      <4>2. Dispatched(D, done2, closing2, stopped2, dropped2)
        BY <1>1, <1>2, <1>4, <2>1, <2>2, <3>4, <3>5, <4>1 DEF Dispatched
      <4> QED
        BY <4>2 DEF D
    <3>6. CASE c[1] # <<Quit>>
      <4>1. \A i \in 1 .. k + 1 : i \in 1 .. k \/ i = k + 1
        BY <1>2
      <4>2. \A i \in 1 .. k + 1 : D[i][1] # <<Quit>>
        BY <1>2, <3>2, <3>6, <4>1
      <4>3. ~closing2
        BY <3>4, <3>6
      <4>4. NoQuit(D, done2, closing2)
        BY <1>2, <2>1, <3>3, <4>2, <4>3 DEF NoQuit
      <4>5. Dispatched(D, done2, closing2, stopped2, dropped2)
        BY <1>1, <1>2, <1>4, <2>1, <2>2, <3>4, <4>3, <4>4 DEF Dispatched
      <4> QED
        BY <4>5 DEF D
    <3> QED
      BY <3>5, <3>6
  <2> QED
    BY <1>1, <2>3, <2>4
<1> QED
  BY <1>1, <1>6, <1>7

-----------------------------------------------------------------------------
(* The invariant of the connection: it has parsed the first h messages and *)
(* its buffer holds what has arrived of the others.                        *)

WireBuffered(from) ==
    /\ from \in Nat /\ from <= warrived
    /\ wbuffer \in Seq(Tokens) /\ Len(wbuffer) = warrived - from
    /\ \A i \in 1 .. Len(wbuffer) : wbuffer[i] = wstream[from + i]

Parsed(h) ==
    /\ h \in 0 .. Len(wsent)
    /\ WireBuffered(Len(Stream(wsent)[h]))
    /\ ~wbusy /\ h < Len(wsent) => Len(Stream(wsent)[h + 1]) > warrived
    /\ Dispatched(CommandsOf(wsent)[h], wdone, wclosing, wstopped, wdropped)

WTypeOK ==
    /\ Sent(wsent) /\ wstream = Stream(wsent)[Len(wsent)]
    /\ warrived \in 0 .. Len(wstream)
    /\ wbusy \in BOOLEAN /\ (~wbusy => ~wstopped)

WireInv == WTypeOK /\ \E h : Parsed(h)

\* Nothing parsed yet.
LEMMA NothingParsed ==
    ASSUME NEW messages, Sent(messages)
    PROVE  /\ Stream(messages)[0] = <<>> /\ CommandsOf(messages)[0] = <<>>
           /\ Stream(messages)[Len(messages)] \in Seq(Tokens) /\ Len(messages) \in Nat
<1>1. /\ messages \in Seq(AllMessages) /\ Len(messages) \in Nat
      /\ IsChain(Tokens, Stream(messages), WrittenOf(messages), Len(messages))
  BY Streamed
<1>2. Len(messages) \in 0 .. Len(messages)
  BY <1>1
<1>3. CommandsOf(messages)[0] = <<>>
  BY <1>1, CommandsSteps
<1> QED
  BY <1>1, <1>2, <1>3 DEF IsChain

\* The next message of the stream.
NextIs(m, W, from, next) ==
    /\ m \in AllMessages /\ W = Written(m) /\ W \in Seq(Tokens)
    /\ Len(W) \in Nat /\ Len(W) >= 1 /\ from \in Nat /\ next = from + Len(W)

LEMMA NextMessage ==
    ASSUME NEW messages, Sent(messages), NEW h \in Nat, h < Len(messages)
    PROVE  LET S == Stream(messages)
               W == Written(messages[h + 1])
           IN  /\ NextIs(messages[h + 1], W, Len(S[h]), Len(S[h + 1]))
               /\ \A i \in 1 .. Len(W) : S[Len(messages)][Len(S[h]) + i] = W[i]
<1> DEFINE S == Stream(messages)
           m == messages[h + 1]
           W == Written(m)
           k == Len(messages)
           P == WrittenOf(messages)
<1>1. messages \in Seq(AllMessages) /\ k \in Nat /\ IsChain(Tokens, S, P, k)
  BY Streamed
<1>2. h + 1 \in 1 .. k /\ h + 1 \in 1 .. Len(messages)
  BY <1>1
<1>3. m \in AllMessages /\ P[h + 1] = W
  BY <1>1, <1>2 DEF WrittenOf
<1> HIDE DEF S, P
<1>4. Next1(Tokens, S, P, k, h)
  BY <1>1, ChainNext
<1>5. W \in Seq(Tokens) /\ Len(W) \in Nat /\ Len(W) >= 1
  BY <1>3, MessageBytes
<1>6. /\ Len(S[h]) \in Nat /\ Len(S[h + 1]) = Len(S[h]) + Len(W)
      /\ \A i \in 1 .. Len(W) : S[k][Len(S[h]) + i] = W[i]
  BY <1>3, <1>4 DEF Next1
<1> QED
  BY <1>3, <1>5, <1>6 DEF NextIs, S

\* The state of a connection over which nothing has come.
LEMMA FreshConnection ==
    ASSUME Sent(wsent'), wstream' = Stream(wsent')[Len(wsent')],
           warrived' = 0, wbuffer' = <<>>, wbusy' \in BOOLEAN, wdone' = <<>>,
           wclosing' = FALSE, wstopped' = FALSE, wdropped' = 0
    PROVE  WireInv'
<1>1. /\ Stream(wsent')[0] = <<>> /\ CommandsOf(wsent')[0] = <<>>
      /\ wstream' \in Seq(Tokens) /\ Len(wsent') \in Nat
  BY NothingParsed
<1>2. Len(wstream') \in Nat
  BY <1>1
<1>3. WTypeOK'
  BY <1>2 DEF WTypeOK
<1>4. WireBuffered(Len(Stream(wsent)[0]))'
  <2> DEFINE e == Len(Stream(wsent')[0])
  <2>1. e = 0 /\ Len(wbuffer') = 0 /\ wbuffer' \in Seq(Tokens)
    BY <1>1
  <2>2. e \in Nat /\ e <= warrived' /\ Len(wbuffer') = warrived' - e
    BY <2>1
  <2>3. \A i \in 1 .. Len(wbuffer') : wbuffer'[i] = wstream'[e + i]
    BY <2>1
  <2> QED
    BY <2>1, <2>2, <2>3 DEF WireBuffered
<1>5. ASSUME 0 < Len(wsent') PROVE Len(Stream(wsent')[0 + 1]) > 0
  <2> DEFINE e == Len(Stream(wsent')[0])
             g == Len(Stream(wsent')[0 + 1])
             W == Written(wsent'[0 + 1])
  <2>1. NextIs(wsent'[0 + 1], W, e, g)
    BY <1>5, NextMessage
  <2> HIDE DEF W, e, g
  <2>2. Len(W) \in Nat /\ Len(W) >= 1 /\ e \in Nat /\ g = e + Len(W)
    BY <2>1 DEF NextIs
  <2>3. g > 0
    BY <2>2
  <2> QED
    BY <2>3 DEF g
<1>6. Dispatched(CommandsOf(wsent)[0], wdone, wclosing, wstopped, wdropped)'
  <2>1. /\ <<>> \in Seq(ArgLists) /\ Len(<<>>) = 0 /\ 0 \in Nat /\ 0 + 0 = 0
        /\ \A i \in 1 .. 0 : FALSE
    OBVIOUS
  <2>2. NoQuit(<<>>, <<>>, FALSE)
    BY <2>1 DEF NoQuit
  <2>3. Dispatched(<<>>, <<>>, FALSE, FALSE, 0)
    BY <2>1, <2>2 DEF Dispatched
  <2> QED
    BY <1>1, <2>3
<1>7. 0 \in 0 .. Len(wsent')
  BY <1>1
<1>8. Parsed(0)'
  BY <1>4, <1>5, <1>6, <1>7 DEF Parsed
<1> QED
  BY <1>3, <1>8 DEF WireInv

\* The first message of the buffer is complete when all of it has arrived.
LEMMA BufferedMessage ==
    ASSUME WTypeOK, NEW h \in Nat, h < Len(wsent), WireBuffered(Len(Stream(wsent)[h]))
    PROVE  LET m == wsent[h + 1]
               W == Written(m)
           IN  /\ Len(Stream(wsent)[h + 1]) > warrived => FirstMessage = Incomplete
               /\ ~(Len(Stream(wsent)[h + 1]) > warrived) =>
                     /\ FirstMessage = Result(m.args, Len(W))
                     /\ FirstMessage # Incomplete /\ Len(W) <= Len(wbuffer)
<1> DEFINE m == wsent[h + 1]
           W == Written(m)
           E == Len(Stream(wsent)[h])
           G == Len(Stream(wsent)[h + 1])
           b == Len(wbuffer)
<1>0. Sent(wsent) /\ wstream = Stream(wsent)[Len(wsent)]
  BY DEF WTypeOK
<1>1. NextIs(m, W, E, G) /\ \A i \in 1 .. Len(W) : wstream[E + i] = W[i]
  BY <1>0, NextMessage
<1>2. /\ E <= warrived /\ wbuffer \in Seq(Tokens) /\ b = warrived - E
      /\ \A i \in 1 .. b : wbuffer[i] = wstream[E + i]
  BY DEF WireBuffered
<1>3. m \in CRLFMessages \/ (m \in LineMessages(<<LF>>) /\ wbuffer \in Seq(Plain))
  <2>1. CASE wsent \in Seq(CRLFMessages)
    <3>1. h + 1 \in 1 .. Len(wsent)
      BY <2>1
    <3> QED
      BY <2>1, <3>1
  <2>2. CASE wsent \in Seq(LineMessages(<<LF>>))
    <3>1. h + 1 \in 1 .. Len(wsent) /\ Len(wsent) \in Nat /\ Len(wsent) \in 0 .. Len(wsent)
      BY <2>2
    <3>2. m \in LineMessages(<<LF>>)
      BY <2>2, <3>1
    <3>3. IsChain(Plain, Stream(wsent), WrittenOf(wsent), Len(wsent))
      BY <1>0, <2>2, Streamed
    <3>4. wstream \in Seq(Plain)
      BY <1>0, <3>1, <3>3 DEF IsChain
    <3>5. \A i \in 1 .. b : E + i \in 1 .. Len(wstream)
      <4>1. E \in Nat
        BY <1>1 DEF NextIs
      <4>2. Len(wstream) \in Nat
        BY <3>4
      <4>3. warrived \in 0 .. Len(wstream)
        BY DEF WTypeOK
      <4> HIDE DEF E, b
      <4> QED
        BY <1>2, <4>1, <4>2, <4>3
    <3>6. \A i \in 1 .. b : wbuffer[i] \in Plain
      <4> HIDE DEF E, b
      <4> QED
        BY <1>2, <3>4, <3>5
    <3>7. wbuffer \in Seq(Plain)
      <4>1. wbuffer = [i \in 1 .. b |-> wbuffer[i]] /\ b \in Nat
        BY <1>2
      <4> HIDE DEF b
      <4>2. wbuffer \in [1 .. b -> Plain]
        BY <3>6, <4>1
      <4> QED
        BY <4>1, <4>2, AsSequence
    <3> QED
      BY <3>2, <3>7
  <2> QED
    BY <1>0, <2>1, <2>2 DEF Sent
<1> HIDE DEF W, m, E, G
<1>4. Agrees(wbuffer, 0, W)
  <2>1. Len(W) \in Nat
    BY <1>1 DEF NextIs
  <2>2. b \in Nat
    BY <1>2
  <2> HIDE DEF b
  <2>3. ASSUME NEW i \in 1 .. Len(W), 0 + i <= b PROVE wbuffer[0 + i] = W[i]
    <3>1. 0 + i = i /\ i \in 1 .. b
      BY <2>1, <2>2, <2>3
    <3> QED
      BY <1>1, <1>2, <3>1
  <2> QED
    BY <2>3 DEF Agrees, b
<1>5. MessageRead(m, wbuffer)
  BY <1>2, <1>3, <1>4, MessageParsed DEF W
<1>6. /\ Len(W) \in Nat /\ Len(W) >= 1 /\ b \in Nat /\ E \in Nat /\ G = E + Len(W)
      /\ b >= 1 => TryParse(wbuffer) = Read(wbuffer, W, m.args)
  BY <1>1, <1>2, <1>5 DEF MessageRead, NextIs, W
<1>7. b >= 1 <=> wbuffer # <<>>
  BY <1>2
<1>8. warrived \in Nat
  <2>1. wstream \in Seq(Tokens)
    BY <1>0, NothingParsed
  <2>2. Len(wstream) \in Nat
    BY <2>1
  <2> QED
    BY <2>2 DEF WTypeOK
<1> HIDE DEF b
<1>9. ASSUME G > warrived PROVE FirstMessage = Incomplete
  <2>1. b < Len(W)
    BY <1>2, <1>6, <1>8, <1>9
  <2>2. CASE b >= 1
    BY <1>6, <1>7, <2>1, <2>2 DEF FirstMessage, Read, b
  <2>3. CASE ~(b >= 1)
    BY <1>7, <2>3 DEF FirstMessage
  <2> QED
    BY <2>2, <2>3
<1>10. ASSUME ~(G > warrived)
       PROVE  /\ FirstMessage = Result(m.args, Len(W))
              /\ FirstMessage # Incomplete /\ Len(W) <= Len(wbuffer)
  <2>1. ~(b < Len(W)) /\ b >= 1 /\ Len(W) <= b
    BY <1>2, <1>6, <1>8, <1>10
  <2>2. FirstMessage = Result(m.args, Len(W))
    BY <1>6, <1>7, <2>1 DEF FirstMessage, Read, b
  <2> QED
    BY <1>6, <2>1, <2>2, Complete1 DEF b
<1> QED
  BY <1>9, <1>10 DEF G, W, m

\* All the messages parsed: the buffer is empty.
LEMMA AllParsed ==
    ASSUME WTypeOK, WireBuffered(Len(Stream(wsent)[Len(wsent)]))
    PROVE  wbuffer = <<>>
<1>1. wstream \in Seq(Tokens)
  BY NothingParsed DEF WTypeOK
<1>2. Len(wstream) \in Nat
  BY <1>1
<1>3. /\ warrived \in Nat /\ warrived <= Len(wstream) /\ wbuffer \in Seq(Tokens)
      /\ Len(wstream) <= warrived /\ Len(wbuffer) = warrived - Len(wstream)
  BY <1>2 DEF WTypeOK, WireBuffered
<1>4. Len(wbuffer) = 0
  BY <1>2, <1>3
<1> QED
  BY <1>3, <1>4

-----------------------------------------------------------------------------
(* The steps. *)

LEMMA WireInit == WInit => WireInv
<1> SUFFICES ASSUME WInit PROVE WireInv
  OBVIOUS
<1>0. /\ wsent = <<>> /\ wstream = <<>> /\ warrived = 0 /\ wbuffer = <<>> /\ wbusy = FALSE
      /\ wdone = <<>> /\ wclosing = FALSE /\ wstopped = FALSE /\ wdropped = 0
  BY DEF WInit
<1>1. Sent(wsent) /\ Len(wsent) = 0 /\ Len(wstream) = 0
  BY <1>0 DEF Sent
<1>2. Stream(wsent)[0] = <<>> /\ CommandsOf(wsent)[0] = <<>>
  BY <1>1, NothingParsed
<1>3. WTypeOK
  <2>1. warrived \in 0 .. Len(wstream)
    BY <1>0, <1>1
  <2> QED
    BY <1>0, <1>1, <1>2, <2>1 DEF WTypeOK
<1>4. WireBuffered(Len(Stream(wsent)[0]))
  <2>1. Len(Stream(wsent)[0]) = 0 /\ Len(wbuffer) = 0 /\ wbuffer \in Seq(Tokens)
    BY <1>0, <1>2
  <2> QED
    BY <1>0, <2>1 DEF WireBuffered
<1>5. Dispatched(CommandsOf(wsent)[0], wdone, wclosing, wstopped, wdropped)
  <2>1. /\ <<>> \in Seq(ArgLists) /\ Len(<<>>) = 0 /\ 0 \in Nat /\ 0 + 0 = 0
        /\ \A i \in 1 .. 0 : FALSE
    OBVIOUS
  <2>2. NoQuit(<<>>, <<>>, FALSE)
    BY <2>1 DEF NoQuit
  <2>3. Dispatched(<<>>, <<>>, FALSE, FALSE, 0)
    BY <2>1, <2>2 DEF Dispatched
  <2> QED
    BY <1>0, <1>2, <2>3
<1>6. Parsed(0)
  <2>1. 0 \in 0 .. Len(wsent) /\ ~(0 < Len(wsent))
    BY <1>1
  <2> QED
    BY <1>4, <1>5, <2>1 DEF Parsed
<1> QED
  BY <1>3, <1>6 DEF WireInv

LEMMA WireOpens ==
    ASSUME WireInv, NEW messages \in Streams, WOpen(messages)
    PROVE  WireInv'
<1>1. WTypeOK /\ wsent = <<>>
  BY DEF WireInv, WOpen
<1>2. PICK h : Parsed(h)
  BY DEF WireInv
<1>3. Sent(wsent) /\ Len(wsent) = 0
  BY <1>1 DEF WTypeOK
<1>4. h = 0
  BY <1>2, <1>3 DEF Parsed
<1>5. Stream(wsent)[0] = <<>> /\ CommandsOf(wsent)[0] = <<>>
  BY <1>3, NothingParsed
<1>6. warrived = 0
  <2>1. Len(wstream) = 0
    BY <1>1, <1>3, <1>5 DEF WTypeOK
  <2> QED
    BY <1>1, <2>1 DEF WTypeOK
<1>7. wbuffer = <<>>
  BY <1>1, <1>2, <1>3, <1>4, AllParsed DEF Parsed
<1>8. Dispatched(<<>>, wdone, wclosing, wstopped, wdropped)
  BY <1>2, <1>4, <1>5 DEF Parsed
<1>9. wdone = <<>> /\ wdropped = 0 /\ wclosing = FALSE /\ wstopped = FALSE
  <2>1. Len(<<>>) = 0 /\ \A q : q \notin 1 .. 0
    OBVIOUS
  <2>2. /\ wdone \in Seq(ArgLists) /\ wdropped \in Nat /\ Len(wdone) + wdropped = 0
        /\ wclosing \in BOOLEAN /\ wstopped \in BOOLEAN /\ (wstopped => wclosing)
    BY <1>8, <2>1 DEF Dispatched
  <2>3. \A q : ~FirstQuit(<<>>, wdone, q)
    BY <2>1 DEF FirstQuit
  <2>4. ~wclosing
    BY <1>8, <2>3 DEF Dispatched, NoQuit
  <2>5. Len(wdone) \in Nat
    BY <2>2
  <2>6. Len(wdone) = 0 /\ wdropped = 0
    BY <2>2, <2>5
  <2>7. wdone = <<>>
    BY <2>2, <2>6
  <2> QED
    BY <2>2, <2>4, <2>6, <2>7
<1>10. Sent(wsent') /\ wstream' = Stream(wsent')[Len(wsent')]
  BY WireParameters DEF WOpen, Sent
<1>11. wbusy \in BOOLEAN
  BY <1>1 DEF WTypeOK
<1> QED
  BY <1>6, <1>7, <1>9, <1>10, <1>11, FreshConnection DEF WOpen

LEMMA WireCloses ==
    ASSUME WireInv, WClose
    PROVE  WireInv'
<1>1. wsent' = <<>> /\ Sent(wsent') /\ Len(wsent') = 0
  BY DEF WClose, Sent
<1>2. Stream(wsent')[Len(wsent')] = <<>>
  BY <1>1, NothingParsed
<1>3. wbusy' = FALSE /\ wstopped' = FALSE
  <2>1. PICK h : Parsed(h)
    BY DEF WireInv
  <2>2. wstopped \in BOOLEAN
    BY <2>1 DEF Parsed, Dispatched
  <2> QED
    BY <2>2 DEF WClose, WireInv, WTypeOK
<1> QED
  BY <1>1, <1>2, <1>3, FreshConnection DEF WClose

LEMMA WireReceives ==
    ASSUME WireInv, NEW n \in 1 .. WChunk, Receive(n)
    PROVE  WireInv'
<1>1. WTypeOK
  BY DEF WireInv
<1>2. PICK h : Parsed(h)
  BY DEF WireInv
<1>3. /\ ~wbusy /\ warrived + n <= Len(wstream) /\ warrived' = warrived + n
      /\ wbuffer' = wbuffer \o SubSeq(wstream, warrived + 1, warrived + n) /\ wbusy' = TRUE
      /\ wsent' = wsent /\ wstream' = wstream /\ wdone' = wdone
      /\ wclosing' = wclosing /\ wstopped' = wstopped /\ wdropped' = wdropped
  BY DEF Receive
<1>4. n \in Nat /\ warrived \in Nat /\ wstream \in Seq(Tokens) /\ Len(wstream) \in Nat
  <2>1. n \in Nat
    BY WireParameters
  <2>2. wstream \in Seq(Tokens)
    BY <1>1, NothingParsed DEF WTypeOK
  <2>3. Len(wstream) \in Nat
    BY <2>2
  <2>4. warrived \in Nat
    BY <1>1, <2>3 DEF WTypeOK
  <2> QED
    BY <2>1, <2>2, <2>3, <2>4
<1>5. WTypeOK'
  <2>1. warrived' \in 0 .. Len(wstream')
    BY <1>3, <1>4
  <2> QED
    BY <1>1, <1>3, <2>1 DEF WTypeOK
<1> DEFINE from == Len(Stream(wsent)[h])
           D == SubSeq(wstream, warrived + 1, warrived + n)
           b == Len(wbuffer)
<1>6. /\ from \in Nat /\ from <= warrived
      /\ wbuffer \in Seq(Tokens) /\ b = warrived - from
      /\ \A i \in 1 .. b : wbuffer[i] = wstream[from + i]
  BY <1>2 DEF Parsed, WireBuffered
<1>7. from' = from
  BY <1>3
<1> HIDE DEF from
<1>8. D \in Seq(Tokens) /\ Len(D) = n /\ \A i \in 1 .. n : D[i] = wstream[warrived + i]
  BY <1>3, <1>4, Piece
<1> HIDE DEF D
<1>9. Joins(Tokens, wbuffer, D) /\ wbuffer' = wbuffer \o D
  BY <1>3, <1>6, <1>8, Concatenated DEF D
<1>10. /\ wbuffer' \in Seq(Tokens) /\ Len(wbuffer') = b + n
       /\ \A i \in 1 .. b : wbuffer'[i] = wbuffer[i]
       /\ \A i \in 1 .. n : wbuffer'[b + i] = D[i]
  BY <1>8, <1>9 DEF Joins
<1>11. b \in Nat
  BY <1>4, <1>6
<1> HIDE DEF b
<1>12. ASSUME NEW i \in 1 .. b + n PROVE wbuffer'[i] = wstream[from + i]
  <2>1. CASE i <= b
    <3>1. i \in 1 .. b
      BY <1>11, <2>1
    <3> QED
      BY <1>6, <1>10, <3>1
  <2>2. CASE i > b
    <3> DEFINE j == i - b
    <3>1. j \in 1 .. n /\ i = b + j /\ from + i = warrived + j
      BY <1>4, <1>6, <1>11, <2>2
    <3> HIDE DEF j
    <3>2. wbuffer'[b + j] = D[j]
      BY <1>10, <3>1
    <3> QED
      BY <1>8, <3>1, <3>2
  <2> QED
    BY <1>4, <1>11, <2>1, <2>2
<1>13. WireBuffered(from)'
  <2>1. Len(wbuffer') = warrived' - from /\ from <= warrived'
    BY <1>3, <1>4, <1>6, <1>10, <1>11
  <2>2. \A i \in 1 .. Len(wbuffer') : wbuffer'[i] = wstream'[from + i]
    BY <1>3, <1>10, <1>12
  <2> QED
    BY <1>6, <1>7, <1>10, <2>1, <2>2 DEF WireBuffered
<1>14. Parsed(h)'
  BY <1>2, <1>3, <1>13 DEF Parsed, from
<1> QED
  BY <1>5, <1>14 DEF WireInv

LEMMA WireEnds ==
    ASSUME WireInv, ParseEnd
    PROVE  WireInv'
<1>1. WTypeOK
  BY DEF WireInv
<1>2. PICK h : Parsed(h)
  BY DEF WireInv
<1>3. /\ wbusy /\ FirstMessage = Incomplete /\ wbusy' = FALSE /\ wstopped' = FALSE
      /\ wsent' = wsent /\ wstream' = wstream /\ warrived' = warrived /\ wbuffer' = wbuffer
      /\ wdone' = wdone /\ wclosing' = wclosing /\ wdropped' = wdropped
  BY DEF ParseEnd
<1>4. WTypeOK'
  BY <1>1, <1>3 DEF WTypeOK
<1>5. ASSUME h < Len(wsent) PROVE Len(Stream(wsent)[h + 1]) > warrived
  <2>1. h \in Nat /\ WireBuffered(Len(Stream(wsent)[h]))
    BY <1>2 DEF Parsed
  <2> QED
    BY <1>1, <1>3, <1>5, <2>1, BufferedMessage
<1>6. WireBuffered(Len(Stream(wsent)[h]))'
  BY <1>2, <1>3 DEF Parsed, WireBuffered
<1>7. Dispatched(CommandsOf(wsent)[h], wdone, wclosing, FALSE, wdropped)
  BY <1>2 DEF Parsed, Dispatched
<1>8. Parsed(h)'
  BY <1>2, <1>3, <1>5, <1>6, <1>7 DEF Parsed
<1> QED
  BY <1>4, <1>8 DEF WireInv

LEMMA WireParses ==
    ASSUME WireInv, ParseMessage
    PROVE  WireInv'
<1>1. WTypeOK
  BY DEF WireInv
<1>2. PICK h : Parsed(h)
  BY DEF WireInv
<1>3. Sent(wsent) /\ Len(wsent) \in Nat /\ wsent \in Seq(AllMessages) /\ h \in 0 .. Len(wsent)
  BY <1>1, <1>2, Streamed DEF WTypeOK, Parsed
<1> DEFINE from == Len(Stream(wsent)[h])
           next == Len(Stream(wsent)[h + 1])
           m == wsent[h + 1]
           W == Written(m)
           C == CommandsOf(wsent)[h]
<1>4. wbusy /\ FirstMessage # Incomplete /\ WireBuffered(from)
  BY <1>2 DEF Parsed, ParseMessage
<1>5. h \in Nat /\ h < Len(wsent)
  <2>1. ASSUME h = Len(wsent) PROVE FALSE
    <3>1. wbuffer = <<>>
      BY <1>1, <1>4, <2>1, AllParsed
    <3> QED
      BY <1>4, <3>1 DEF FirstMessage
  <2> QED
    BY <1>3, <2>1
<1>6. NextIs(m, W, from, next)
  BY <1>3, <1>5, NextMessage
<1>7. FirstMessage = Result(m.args, Len(W)) /\ Len(W) <= Len(wbuffer)
  BY <1>1, <1>4, <1>5, BufferedMessage
<1>8. FirstMessage.value = m.args /\ FirstMessage.end = Len(W)
  BY <1>7 DEF Result
<1>9. /\ wbuffer' = SubSeq(wbuffer, Len(W) + 1, Len(wbuffer))
      /\ wsent' = wsent /\ wstream' = wstream /\ warrived' = warrived /\ wbusy' = wbusy
      /\ m.args = <<>> => wdone' = wdone /\ wclosing' = wclosing /\ wstopped' = wstopped
                          /\ wdropped' = wdropped
      /\ m.args # <<>> => Dispatch(m.args)
  BY <1>8 DEF ParseMessage
<1> HIDE DEF from, next, m, W
<1>10. WTypeOK'
  BY <1>1, <1>4, <1>9 DEF WTypeOK
<1>11. WireBuffered(next)'
  <2>1. /\ from \in Nat /\ from <= warrived
        /\ wbuffer \in Seq(Tokens) /\ Len(wbuffer) = warrived - from
        /\ \A i \in 1 .. Len(wbuffer) : wbuffer[i] = wstream[from + i]
    BY <1>4 DEF WireBuffered
  <2>2. warrived \in Nat
    <3>1. wstream \in Seq(Tokens)
      BY <1>1, NothingParsed DEF WTypeOK
    <3>2. Len(wstream) \in Nat
      BY <3>1
    <3> QED
      BY <1>1, <3>2 DEF WTypeOK
  <2> DEFINE l == Len(W)
             b == Len(wbuffer)
             r == b - l
  <2>3. /\ l \in Nat /\ b \in Nat /\ r \in Nat /\ l + r = b /\ l + r <= Len(wbuffer)
        /\ next = from + l
    BY <1>6, <1>7, <2>1 DEF NextIs
  <2> HIDE DEF l
  <2>4. wbuffer' = SubSeq(wbuffer, l + 1, b)
    BY <1>9 DEF l
  <2> HIDE DEF r
  <2> DEFINE D == SubSeq(wbuffer, l + 1, l + r)
  <2>5. D \in Seq(Tokens) /\ Len(D) = r /\ \A i \in 1 .. r : D[i] = wbuffer[l + i]
    BY <2>1, <2>3, Piece
  <2> HIDE DEF D
  <2>6. wbuffer' = D
    BY <2>3, <2>4 DEF D
  <2>7. next \in Nat /\ next <= warrived /\ r = warrived - next
    BY <2>1, <2>2, <2>3
  <2>8. ASSUME NEW i \in 1 .. r PROVE wbuffer'[i] = wstream[next + i]
    <3>1. l + i \in 1 .. Len(wbuffer) /\ from + (l + i) = next + i
      BY <2>1, <2>3
    <3>2. wbuffer[l + i] = wstream[from + (l + i)]
      BY <2>1, <3>1
    <3> QED
      BY <2>5, <2>6, <3>1, <3>2
  <2>9. next' = next
    BY <1>9 DEF next
  <2> HIDE DEF next
  <2> QED
    BY <1>9, <2>5, <2>6, <2>7, <2>8, <2>9 DEF WireBuffered
<1>12. /\ h + 1 \in 1 .. Len(wsent) /\ (h + 1) - 1 = h /\ h + 1 \in 0 .. Len(wsent)
       /\ m \in AllMessages
  BY <1>3, <1>5, <1>6 DEF NextIs
<1>13. CommandsOf(wsent)[h + 1] = Take(C, m.args)
  BY <1>3, <1>12, CommandsSteps DEF m
<1>14. Dispatched(C, wdone, wclosing, wstopped, wdropped)
  BY <1>2 DEF Parsed
<1> HIDE DEF C
<1>15. Dispatched(Take(C, m.args), wdone', wclosing', wstopped', wdropped')
  <2>1. CASE m.args = <<>>
    BY <1>9, <1>14, <2>1 DEF Take
  <2>2. CASE m.args # <<>>
    <3>1. m.args \in ArgLists
      BY <1>12 DEF ArgLists
    <3>2. IF wstopped
          THEN wdropped' = wdropped + 1 /\ wdone' = wdone /\ wclosing' = wclosing /\ wstopped' = wstopped
          ELSE /\ wdone' = Append(wdone, m.args)
               /\ wclosing' = (wclosing \/ m.args[1] = <<Quit>>)
               /\ wstopped' = wclosing' /\ wdropped' = wdropped
      BY <1>9, <2>2 DEF Dispatch
    <3>3. Dispatched(Append(C, m.args), wdone', wclosing', wstopped', wdropped')
      BY <1>14, <3>1, <3>2, OneMoreCommand
    <3> QED
      BY <2>2, <3>3 DEF Take
  <2> QED
    BY <2>1, <2>2
<1>16. Parsed(h + 1)'
  <2>1. WireBuffered(Len(Stream(wsent)[h + 1]))'
    BY <1>11 DEF next
  <2>2. Dispatched(CommandsOf(wsent)[h + 1], wdone, wclosing, wstopped, wdropped)'
    BY <1>9, <1>13, <1>15
  <2> QED
    BY <1>4, <1>9, <1>12, <2>1, <2>2 DEF Parsed
<1> QED
  BY <1>10, <1>16 DEF WireInv

LEMMA WireSteps == WireInv /\ [WNext]_wvars => WireInv'
<1> SUFFICES ASSUME WireInv, [WNext]_wvars PROVE WireInv'
  OBVIOUS
<1>1. ASSUME NEW messages \in Streams, WOpen(messages) PROVE WireInv'
  BY <1>1, WireOpens
<1>2. ASSUME NEW n \in 1 .. WChunk, Receive(n) PROVE WireInv'
  BY <1>2, WireReceives
<1>3. CASE ParseMessage
  BY <1>3, WireParses
<1>4. CASE ParseEnd
  BY <1>4, WireEnds
<1>5. CASE WClose
  BY <1>5, WireCloses
<1>6. CASE UNCHANGED wvars
  <2>1. /\ wsent' = wsent /\ wstream' = wstream /\ warrived' = warrived /\ wbuffer' = wbuffer
        /\ wbusy' = wbusy /\ wdone' = wdone /\ wclosing' = wclosing
        /\ wstopped' = wstopped /\ wdropped' = wdropped
    BY <1>6 DEF wvars
  <2>2. WTypeOK'
    BY <2>1 DEF WireInv, WTypeOK
  <2>3. PICK h : Parsed(h)
    BY DEF WireInv
  <2>4. WireBuffered(Len(Stream(wsent)[h]))'
    BY <2>1, <2>3 DEF Parsed, WireBuffered
  <2>5. Parsed(h)'
    BY <2>1, <2>3, <2>4 DEF Parsed
  <2> QED
    BY <2>2, <2>5 DEF WireInv
<1> QED
  BY <1>1, <1>2, <1>3, <1>4, <1>5, <1>6 DEF WNext

-----------------------------------------------------------------------------
(* The property. *)

\* What Complete selects is what the connection has parsed.
LEMMA CompleteParsed ==
    ASSUME WTypeOK, NEW h, Parsed(h), ~wbusy
    PROVE  Complete = h
<1> DEFINE S == Stream(wsent)
           k == Len(wsent)
           T == {n \in 0 .. k : Len(S[n]) <= warrived}
           c == Max(T)
<1>1. Sent(wsent) /\ h \in 0 .. k /\ Len(S[h]) <= warrived
  BY DEF WTypeOK, Parsed, WireBuffered
<1>2. k \in Nat /\ IsChain(Tokens, S, WrittenOf(wsent), k)
  BY <1>1, Streamed
<1>3. warrived \in Nat
  <2>1. wstream \in Seq(Tokens)
    BY <1>1, NothingParsed DEF WTypeOK
  <2>2. Len(wstream) \in Nat
    BY <2>1
  <2> QED
    BY <2>2 DEF WTypeOK
<1>4. h < k => Len(S[h + 1]) > warrived
  BY DEF Parsed
<1>5. Complete = c
  BY DEF Complete
<1> HIDE DEF S, k
<1>6. \A n \in 0 .. k : Len(S[n]) \in Nat
  <2>1. \A n \in 0 .. k : S[n] \in Seq(Tokens)
    BY <1>2 DEF IsChain
  <2> QED
    BY <2>1
<1>7. h \in T /\ T \in SUBSET (0 .. k)
  BY <1>1
<1>8. c \in T /\ \A y \in T : c >= y
  <2> HIDE DEF T
  <2> QED
    BY <1>2, <1>7, Greatest
<1>9. c \in 0 .. k /\ c >= h /\ Len(S[c]) <= warrived
  <2> HIDE DEF c
  <2> QED
    BY <1>7, <1>8
<1> HIDE DEF c
<1>10. c = h
  <2>1. ASSUME c # h PROVE FALSE
    <3>1. h < k /\ h + 1 \in 0 .. k /\ c >= h + 1
      BY <1>1, <1>2, <1>9, <2>1
    <3>2. Begins(S[h + 1], S[c])
      BY <1>2, <1>9, <3>1, ChainGrows
    <3>3. Len(S[h + 1]) <= Len(S[c])
      BY <3>2 DEF Begins
    <3> QED
      BY <1>3, <1>4, <1>6, <1>9, <3>1, <3>3
  <2> QED
    BY <2>1
<1> QED
  BY <1>5, <1>10

LEMMA DispatchedAsWritten ==
    ASSUME NEW C, NEW done, NEW closing, NEW stopped, NEW dropped,
           Dispatched(C, done, closing, stopped, dropped)
    PROVE  /\ Len(done) + dropped = Len(C)
           /\ QuitsIn(C) = {} => done = C
           /\ QuitsIn(C) # {} => IsPrefix(SubSeq(C, 1, Min(QuitsIn(C))), done)
<1> DEFINE quits == QuitsIn(C)
<1>1. C \in Seq(ArgLists) /\ done \in Seq(ArgLists) /\ Len(done) + dropped = Len(C)
  BY DEF Dispatched
<1>2. quits = {i \in 1 .. Len(C) : C[i][1] = <<Quit>>}
  BY DEF QuitsIn
<1> HIDE DEF quits
<1>3. CASE NoQuit(C, done, closing)
  <2>1. quits = {}
    BY <1>2, <1>3 DEF NoQuit
  <2>2. done = C
    BY <1>3 DEF NoQuit
  <2> QED
    BY <1>1, <2>1, <2>2 DEF quits
<1>4. CASE \E q : FirstQuit(C, done, q)
  <2>1. PICK q : FirstQuit(C, done, q)
    BY <1>4
  <2>2. /\ q \in 1 .. Len(C) /\ C[q][1] = <<Quit>>
        /\ \A i \in 1 .. q - 1 : C[i][1] # <<Quit>>
        /\ q <= Len(done) /\ \A i \in 1 .. q : done[i] = C[i]
    BY <2>1 DEF FirstQuit
  <2>3. q \in quits
    BY <1>2, <2>2
  <2>4. ASSUME NEW i \in quits PROVE i \in Nat /\ q <= i
    <3>1. i \in 1 .. Len(C) /\ C[i][1] = <<Quit>>
      BY <1>2
    <3>2. i \notin 1 .. q - 1
      BY <2>2, <3>1
    <3> QED
      BY <2>2, <3>1, <3>2
  <2>5. Min(quits) = q
    <3>1. \A x \in quits : (\A y \in quits : x <= y) => x = q
      BY <2>3, <2>4
    <3>2. \E x \in quits : \A y \in quits : x <= y
      BY <2>3, <2>4
    <3> QED
      BY <3>1, <3>2 DEF Min
  <2> DEFINE D == SubSeq(C, 0 + 1, 0 + q)
             E == SubSeq(done, 0 + 1, 0 + q)
  <2>6. /\ q \in Nat /\ 0 + q = q /\ 0 + q <= Len(C) /\ 0 + q <= Len(done)
        /\ 0 + 1 = 1 /\ 0 \in Nat
    BY <2>2
  <2>7. D \in Seq(ArgLists) /\ Len(D) = q /\ \A i \in 1 .. q : D[i] = C[0 + i]
    BY <1>1, <2>6, Piece
  <2>8. E \in Seq(ArgLists) /\ Len(E) = q /\ \A i \in 1 .. q : E[i] = done[0 + i]
    BY <1>1, <2>6, Piece
  <2>9. D = SubSeq(C, 1, q) /\ E = SubSeq(done, 1, q)
    BY <2>6
  <2> HIDE DEF D, E
  <2>10. D = E
    <3>1. D = [i \in 1 .. q |-> D[i]] /\ E = [i \in 1 .. q |-> E[i]]
      BY <2>7, <2>8
    <3>2. \A i \in 1 .. q : 0 + i = i
      BY <2>6
    <3> QED
      BY <2>2, <2>7, <2>8, <3>1, <3>2
  <2>11. SubSeq(D, 1, Len(D)) = D
    BY <2>7, Whole
  <2>12. IsPrefix(D, done)
    BY <2>2, <2>7, <2>9, <2>10, <2>11 DEF IsPrefix
  <2> QED
    BY <1>1, <2>3, <2>5, <2>9, <2>12 DEF quits
<1> QED
  BY <1>3, <1>4 DEF Dispatched

LEMMA InvCommands == WireInv => CommandsAsWritten
<1> SUFFICES ASSUME WireInv, ~wbusy
             PROVE  LET commands == CommandsOf(wsent)[Complete]
                        quits == QuitsIn(commands)
                    IN  /\ Len(wdone) + wdropped = Len(commands)
                        /\ IF quits = {} THEN wdone = commands
                           ELSE IsPrefix(SubSeq(commands, 1, Min(quits)), wdone)
  BY DEF CommandsAsWritten
<1>1. PICK h : Parsed(h)
  BY DEF WireInv
<1>2. Complete = h
  BY <1>1, CompleteParsed DEF WireInv
<1> DEFINE C == CommandsOf(wsent)[Complete]
<1>3. Dispatched(C, wdone, wclosing, wstopped, wdropped)
  BY <1>1, <1>2 DEF Parsed
<1> HIDE DEF C
<1>4. /\ Len(wdone) + wdropped = Len(C)
      /\ QuitsIn(C) = {} => wdone = C
      /\ QuitsIn(C) # {} => IsPrefix(SubSeq(C, 1, Min(QuitsIn(C))), wdone)
  BY <1>3, DispatchedAsWritten
<1> QED
  BY <1>4 DEF C

\* A connection has always dealt with exactly the first messages of its
\* client, and its parser holds what has arrived of the others
\* (parser.js:16-151, connection.js:40-91).
THEOREM WireInvariant == WSpec => []WireInv
<1> QED
  BY WireInit, WireSteps, PTL DEF WSpec

\* However the network cuts what a client writes, its commands are dispatched
\* completely, in order and once, up to QUIT; the parser finds the end of every
\* array, line, null array and simple string, whatever bytes the data are
\* (parser.js:16-151, connection.js:40-91).
THEOREM CommandsArriveAsWritten == WSpec => []CommandsAsWritten
<1> QED
  BY WireInvariant, InvCommands, PTL

-----------------------------------------------------------------------------
(* Frames. *)

Units == Nat \cup [masked : BOOLEAN, length : Nat]

LEMMA Pair ==
    ASSUME NEW a \in Units, NEW b \in Units
    PROVE  <<a>> \o <<b>> = <<a, b>>
<1> DEFINE X == Units
           s == <<a>>
           t == <<b>>
           c == <<a, b>>
<1>1. /\ s \in Seq(X) /\ Len(s) = 1 /\ s[1] = a
      /\ t \in Seq(X) /\ Len(t) = 1 /\ t[1] = b
      /\ c \in Seq(X) /\ Len(c) = 2 /\ c[1] = a /\ c[2] = b
  OBVIOUS
<1> HIDE DEF X, s, t, c
<1>2. Joins(X, s, t)
  BY <1>1, Concatenated
<1>3. Len(s \o t) = 2 /\ (s \o t)[1] = a /\ (s \o t)[2] = b
  BY <1>1, <1>2 DEF Joins
<1>4. s \o t = c
  <2> DEFINE j == s \o t
  <2> HIDE DEF j
  <2>1. j \in Seq(X) /\ Len(j) = 2 /\ j[1] = a /\ j[2] = b
    BY <1>2, <1>3 DEF j, Joins
  <2>2. j = c
    BY <1>1, <2>1
  <2> QED
    BY <2>2 DEF j
<1> QED
  BY <1>4 DEF s, t, c

-----------------------------------------------------------------------------
(* Lengths written as bytes and read back. *)

LEMMA Division ==
    ASSUME NEW a \in Nat, NEW b \in Nat \ {0}
    PROVE  /\ a \div b \in Nat /\ a % b \in 0 .. b - 1
           /\ a = (a \div b) * b + (a % b)
           /\ \A c \in Nat : a < b * c => a \div b < c
<1>1. /\ a \div b \in Nat /\ a % b \in 0 .. b - 1
      /\ a = (a \div b) * b + (a % b)
  OBVIOUS
<1>2. ASSUME NEW c \in Nat, a < b * c, ~(a \div b < c)
      PROVE  FALSE
  <2> DEFINE q == a \div b
             r == a % b
  <2>1. q \in Nat /\ r \in Nat /\ a = q * b + r /\ c <= q
    BY <1>1, <1>2
  <2> HIDE DEF q, r
  <2>2. PICK d \in Nat : q = c + d
    BY <2>1
  <2>3. q * b = b * c + d * b /\ d * b \in Nat /\ b * c \in Nat
    BY <2>1, <2>2
  <2> QED
    BY <1>2, <2>1, <2>3
<1> QED
  BY <1>1, <1>2

\* The quotients Bytes is made of.
IsQuotients(q, n, k) ==
    q = [i \in 0 .. k |-> IF i = 0 THEN n ELSE q[i - 1] \div Base]

LEMMA Quotients ==
    ASSUME NEW n \in Nat, NEW k \in Nat
    PROVE  \E q \in [0 .. k -> Nat] :
              /\ q[0] = n /\ \A i \in 1 .. k : q[i] = q[i - 1] \div Base
              /\ Bytes(n, k) = [i \in 1 .. k |-> q[k - i] % Base]
<1> DEFINE F == [x \in Nat \X (1 .. k) |-> x[1] \div Base]
<1>1. F \in Steps(k, Nat)
  BY FrameParameters, Division DEF Steps
<1>2. ASSUME NEW v \in Nat, NEW i \in 1 .. k PROVE F[<<v, i>>] = v \div Base
  OBVIOUS
<1> HIDE DEF F
<1>3a. PICK g : Follows(g, k, Nat, n, F)
  BY <1>1, Recursion, Zenon
<1>3. g \in [0 .. k -> Nat] /\ g[0] = n /\ \A i \in 1 .. k : g[i] = F[<<g[i - 1], i>>]
  BY <1>3a DEF Follows
<1>4. \A i \in 1 .. k : i - 1 \in 0 .. k /\ g[i] = g[i - 1] \div Base
  <2>1. ASSUME NEW i \in 1 .. k PROVE i - 1 \in 0 .. k /\ g[i] = g[i - 1] \div Base
    <3>1. i - 1 \in 0 .. k
      OBVIOUS
    <3>2. g[i - 1] \in Nat
      BY <1>3, <3>1
    <3> QED
      BY <1>2, <1>3, <3>1, <3>2
  <2> QED
    BY <2>1
<1>5. IsQuotients(g, n, k)
  <2>1. g = [i \in 0 .. k |-> g[i]]
    BY <1>3
  <2>2. \A i \in 0 .. k : i # 0 => i \in 1 .. k
    OBVIOUS
  <2> QED
    BY <1>3, <1>4, <2>1, <2>2 DEF IsQuotients
<1> DEFINE q == CHOOSE g1 : IsQuotients(g1, n, k)
<1>6. IsQuotients(q, n, k)
  BY <1>5
<1>7. Bytes(n, k) = [i \in 1 .. k |-> q[k - i] % Base]
  BY DEF Bytes, IsQuotients
<1> HIDE DEF q
<1>8. q[0] = n /\ \A i \in 1 .. k : q[i] = q[i - 1] \div Base
  BY <1>6 DEF IsQuotients
<1>9. \A i \in 0 .. k : q[i] \in Nat
  <2> DEFINE P == {i \in Nat : i <= k => q[i] \in Nat}
  <2>1. 0 \in P
    BY <1>8
  <2>2. ASSUME NEW i \in 0 .. k - 1, i \in P PROVE i + 1 \in P
    <3>1. q[i] \in Nat /\ i + 1 \in 1 .. k /\ (i + 1) - 1 = i
      BY <2>2
    <3>2. q[i + 1] = q[i] \div Base
      BY <1>8, <3>1
    <3>3. Base \in Nat \ {0}
      BY FrameParameters
    <3>4. q[i] \div Base \in Nat
      BY <3>1, <3>3, Division
    <3> QED
      BY <3>1, <3>2, <3>4
  <2>3. \A i \in 0 .. k : i \in P
    <3> HIDE DEF P
    <3> QED
      BY <2>1, <2>2, UpTo
  <2> QED
    BY <2>3
<1>10. q \in [0 .. k -> Nat]
  BY <1>6, <1>9 DEF IsQuotients
<1> QED
  BY <1>7, <1>8, <1>10

IsValues(v, bytes) ==
    v = [i \in 0 .. Len(bytes) |-> IF i = 0 THEN 0 ELSE (v[i - 1] * Base) + bytes[i]]

\* What the bytes read so far amount to.
LEMMA Values ==
    ASSUME NEW bytes \in Seq(Nat)
    PROVE  \E v : /\ v[0] = 0 /\ \A i \in 1 .. Len(bytes) : v[i] = (v[i - 1] * Base) + bytes[i]
                  /\ Value(bytes) = v[Len(bytes)]
<1> DEFINE k == Len(bytes)
           F == [x \in Nat \X (1 .. k) |-> (x[1] * Base) + bytes[x[2]]]
<1>0. k \in Nat /\ \A i \in 1 .. k : bytes[i] \in Nat
  OBVIOUS
<1>1. F \in Steps(k, Nat)
  <2>1. ASSUME NEW x \in Nat \X (1 .. k) PROVE (x[1] * Base) + bytes[x[2]] \in Nat
    BY <1>0, FrameParameters
  <2> QED
    BY <2>1 DEF Steps
<1>2. ASSUME NEW v \in Nat, NEW i \in 1 .. k PROVE F[<<v, i>>] = (v * Base) + bytes[i]
  OBVIOUS
<1> HIDE DEF F
<1>3a. PICK g : Follows(g, k, Nat, 0, F)
  <2> HIDE DEF k
  <2> QED
    <3>1. k \in Nat /\ 0 \in Nat
      BY <1>0
    <3> QED
      BY <1>1, <3>1, Recursion, Zenon
<1>3. g \in [0 .. k -> Nat] /\ g[0] = 0 /\ \A i \in 1 .. k : g[i] = F[<<g[i - 1], i>>]
  BY <1>3a DEF Follows
<1>4. ASSUME NEW i \in 1 .. k PROVE i - 1 \in 0 .. k /\ g[i] = (g[i - 1] * Base) + bytes[i]
  <2> HIDE DEF k
  <2>1. i - 1 \in 0 .. k
    BY <1>0
  <2>2. g[i - 1] \in Nat
    BY <1>3, <2>1
  <2> QED
    BY <1>2, <1>3, <2>1, <2>2
<1>5. IsValues(g, bytes)
  <2>1. g = [i \in 0 .. k |-> g[i]]
    BY <1>3
  <2>2. \A i \in 0 .. k : i # 0 => i \in 1 .. k
    OBVIOUS
  <2> QED
    BY <1>3, <1>4, <2>1, <2>2 DEF IsValues
<1> DEFINE v == CHOOSE g1 : IsValues(g1, bytes)
<1>6. IsValues(v, bytes)
  BY <1>5
<1>7. Value(bytes) = v[k]
  BY DEF Value, IsValues
<1> HIDE DEF v
<1>8. v[0] = 0 /\ \A i \in 1 .. k : v[i] = (v[i - 1] * Base) + bytes[i]
  BY <1>6 DEF IsValues
<1> QED
  BY <1>7, <1>8
\* A length that fits is read back from its bytes.
LEMMA BytesReadBack ==
    ASSUME NEW n \in Nat, NEW k \in Nat,
           (k = 2 /\ n < Medium) \/ (k = 8 /\ n < Long)
    PROVE  /\ Bytes(n, k) \in Seq(Nat) /\ Len(Bytes(n, k)) = k
           /\ Value(Bytes(n, k)) = n
<1>0. Base \in Nat \ {0}
  BY FrameParameters
<1>1. PICK q \in [0 .. k -> Nat] :
         /\ q[0] = n /\ \A i \in 1 .. k : q[i] = q[i - 1] \div Base
         /\ Bytes(n, k) = [i \in 1 .. k |-> q[k - i] % Base]
  BY Quotients
<1>2. \A i \in 1 .. k : /\ i - 1 \in 0 .. k /\ q[i - 1] \in Nat
                          /\ q[i - 1] % Base \in Nat
                          /\ q[i - 1] = (q[i] * Base) + (q[i - 1] % Base)
                          /\ \A c \in Nat : q[i - 1] < Base * c => q[i] < c
  <2>1. ASSUME NEW i \in 1 .. k
        PROVE  i - 1 \in 0 .. k /\ q[i - 1] \in Nat
    <3>1. i - 1 \in 0 .. k
      OBVIOUS
    <3> QED
      BY <3>1
  <2>2. ASSUME NEW i \in 1 .. k
        PROVE  /\ q[i - 1] % Base \in Nat
               /\ q[i - 1] = (q[i] * Base) + (q[i - 1] % Base)
               /\ \A c \in Nat : q[i - 1] < Base * c => q[i] < c
    <3>1. q[i - 1] \in Nat /\ q[i] = q[i - 1] \div Base
      BY <1>1, <2>1
    <3> DEFINE a == q[i - 1]
    <3> HIDE DEF a
    <3>2. a \in Nat
      BY <3>1 DEF a
    <3>3. /\ a % Base \in 0 .. Base - 1 /\ a = ((a \div Base) * Base) + (a % Base)
          /\ \A c \in Nat : a < Base * c => a \div Base < c
      BY <1>0, <3>2, Division
    <3>4. a % Base \in Nat
      BY <1>0, <3>3
    <3> QED
      BY <3>1, <3>3, <3>4 DEF a
  <2> QED
    BY <2>1, <2>2
<1>3. q[k] = 0
  <2> DEFINE P1 == Base
             P2 == Base * P1
             P3 == Base * P2
             P4 == Base * P3
             P5 == Base * P4
             P6 == Base * P5
             P7 == Base * P6
             P8 == Base * P7
  <2>1. P1 \in Nat /\ P2 \in Nat /\ P3 \in Nat /\ P4 \in Nat
    BY <1>0
  <2>2. P5 \in Nat /\ P6 \in Nat /\ P7 \in Nat
    <3> HIDE DEF P4
    <3>1. P5 \in Nat
      BY <1>0, <2>1
    <3> HIDE DEF P5
    <3>2. P6 \in Nat
      BY <1>0, <3>1
    <3> HIDE DEF P6
    <3> QED
      BY <1>0, <3>1, <3>2
  <2>3. Medium = P2
    BY <1>0 DEF Medium
  <2>4. Long = P8
    <3> DEFINE M == Medium
    <3>1. M \in Nat /\ Medium = Base * Base
      BY <1>0 DEF Medium
    <3>2. \A x \in Nat : Base * (Base * x) = M * x
      BY <1>0, <3>1
    <3> HIDE DEF M, P2
    <3>3. P4 = M * P2
      BY <2>1, <3>2
    <3> HIDE DEF P3, P4
    <3>4. P6 = M * P4
      BY <2>1, <3>2
    <3> HIDE DEF P5, P6
    <3>5. P8 = M * P6
      BY <2>2, <3>2
    <3> HIDE DEF P7, P8
    <3>6. P8 = M * (M * (M * M))
      BY <2>3, <3>3, <3>4, <3>5 DEF M
    <3>7. Long = M * M * M * M
      BY DEF Long, M
    <3> QED
      BY <3>1, <3>6, <3>7
  <2> HIDE DEF P1, P2, P3, P4, P5, P6, P7, P8
  <2>5. CASE k = 2
    <3>1. q[0] < Base * P1
      BY <1>1, <2>3, <2>5 DEF P2
    <3>2. q[1] < P1
      BY <1>2, <2>1, <2>5, <3>1
    <3>3. q[1] < Base * 1
      BY <1>0, <3>2 DEF P1
    <3>4. q[2] < 1 /\ q[2] \in Nat
      BY <1>2, <2>5, <3>3
    <3> QED
      BY <2>5, <3>4
  <2>6. CASE k = 8
    <3>0. \A i \in 1 .. 8 : \A c \in Nat : q[i - 1] < Base * c => q[i] < c
      BY <1>2, <2>6
    <3>1. q[0] < Base * P7
      BY <1>1, <2>4, <2>6 DEF P8
    <3>2. q[1] < Base * P6
      BY <2>2, <3>0, <3>1 DEF P7
    <3>3. q[2] < Base * P5
      BY <2>2, <3>0, <3>2 DEF P6
    <3>4. q[3] < Base * P4
      BY <2>2, <3>0, <3>3 DEF P5
    <3>5. q[4] < Base * P3
      BY <2>1, <3>0, <3>4 DEF P4
    <3>6. q[5] < Base * P2
      BY <2>1, <3>0, <3>5 DEF P3
    <3>7. q[6] < Base * P1
      BY <2>1, <3>0, <3>6 DEF P2
    <3>8. q[7] < P1
      BY <2>1, <3>0, <3>7
    <3>9. q[7] < Base * 1
      BY <1>0, <3>8 DEF P1
    <3>10. q[8] < 1 /\ q[8] \in Nat
      BY <2>6, <3>0, <3>9
    <3> QED
      BY <2>6, <3>10
  <2> QED
    BY <2>5, <2>6
<1> DEFINE B == Bytes(n, k)
<1>4. \A i \in 1 .. k : k - i \in 0 .. k /\ (k - i) + 1 \in 1 .. k /\ q[k - i] % Base \in Nat
  <2>1. \A i \in 1 .. k : k - i \in 0 .. k /\ (k - i) + 1 \in 1 .. k /\ ((k - i) + 1) - 1 = k - i
    OBVIOUS
  <2> QED
    BY <1>2, <2>1
<1>5. B \in [1 .. k -> Nat] /\ \A i \in 1 .. k : B[i] = q[k - i] % Base
  BY <1>1, <1>4
<1> HIDE DEF B
<1>6. B \in Seq(Nat) /\ Len(B) = k
  BY <1>5
<1>7. PICK v : /\ v[0] = 0 /\ \A i \in 1 .. k : v[i] = (v[i - 1] * Base) + B[i]
               /\ Value(B) = v[k]
  BY <1>6, Values
<1>8. \A i \in 0 .. k : v[i] = q[k - i]
  <2> DEFINE P == {i \in Nat : i <= k => v[i] = q[k - i]}
  <2>1. 0 \in P
    BY <1>3, <1>7
  <2>2. ASSUME NEW i \in 0 .. k - 1, i \in P PROVE i + 1 \in P
    <3>1. /\ i + 1 \in 1 .. k /\ (i + 1) - 1 = i /\ i \in Nat
          /\ k - i \in 1 .. k /\ (k - i) - 1 = k - (i + 1)
          /\ v[i] = q[k - i]
      BY <2>2
    <3>2. v[i + 1] = (q[k - i] * Base) + B[i + 1]
      BY <1>7, <3>1
    <3>3. q[k - (i + 1)] = (q[k - i] * Base) + (q[k - (i + 1)] % Base)
      BY <1>2, <3>1
    <3>4. B[i + 1] = q[k - (i + 1)] % Base
      BY <1>5, <3>1
    <3> QED
      BY <3>1, <3>2, <3>3, <3>4
  <2>3. \A i \in 0 .. k : i \in P
    <3> HIDE DEF P
    <3> QED
      BY <2>1, <2>2, UpTo
  <2> QED
    BY <2>3
<1> QED
  BY <1>1, <1>6, <1>7, <1>8 DEF B

-----------------------------------------------------------------------------
(* The head of a frame, and the frame that is read behind it. *)

HeadLength(n) == IF n <= SmallMax THEN 2 ELSE IF n < Medium THEN 4 ELSE 10
HeadCode(n) == IF n <= SmallMax THEN n ELSE IF n < Medium THEN Code16 ELSE Code64

\* An opcode, a length byte and the bytes that follow it.
LEMMA HeadWith ==
    ASSUME NEW op \in Nat, NEW r \in Units, NEW B \in Seq(Nat)
    PROVE  LET H == <<op>> \o (<<r>> \o B)
           IN  /\ H \in Seq(Units) /\ Len(H) = 2 + Len(B) /\ H[1] = op /\ H[2] = r
               /\ SubSeq(H, 3, Len(H)) = B
<1> DEFINE T == <<r>> \o B
           H == <<op>> \o T
<1>1. Len(B) \in Nat /\ B \in Seq(Units) /\ op \in Units
  BY DEF Units
<1>2. /\ T \in Seq(Units) /\ Len(T) = 1 + Len(B) /\ T[1] = r
      /\ \A i \in 1 .. Len(B) : T[1 + i] = B[i]
  BY <1>1
<1> HIDE DEF T
<1>3. /\ H \in Seq(Units) /\ Len(H) = 2 + Len(B) /\ H[1] = op
      /\ \A i \in 1 .. Len(T) : H[1 + i] = T[i]
  BY <1>1, <1>2
<1> HIDE DEF H
<1>4. H[2] = r
  BY <1>1, <1>2, <1>3
<1>5. \A i \in 1 .. Len(B) : H[2 + i] = B[i]
  <2>1. ASSUME NEW i \in 1 .. Len(B) PROVE H[2 + i] = B[i]
    <3>1. 1 + i \in 1 .. Len(T) /\ 1 + (1 + i) = 2 + i
      BY <1>1, <1>2
    <3> QED
      BY <1>2, <1>3, <3>1
  <2> QED
    BY <2>1
<1>6. SubSeq(H, 3, Len(H)) = B
  <2> DEFINE S == SubSeq(H, 3, Len(H))
  <2>1. S = [i \in 1 .. Len(B) |-> H[3 + i - 1]]
    BY <1>1, <1>3
  <2>2. \A i \in 1 .. Len(B) : H[3 + i - 1] = B[i]
    BY <1>1, <1>5
  <2>3. B = [i \in 1 .. Len(B) |-> B[i]]
    BY <1>1
  <2> QED
    BY <2>1, <2>2, <2>3
<1> QED
  BY <1>3, <1>4, <1>6 DEF H, T

LEMMA HeaderBytes ==
    ASSUME NEW op \in Nat, NEW mask \in BOOLEAN, NEW n \in Nat, n < Long
    PROVE  LET H == Header(op, mask, n)
               m == HeadLength(n)
           IN  /\ H \in Seq(Units) /\ Len(H) = m /\ H[1] = op
               /\ H[2] = [masked |-> mask, length |-> HeadCode(n)]
               /\ m # 2 => Value(SubSeq(H, 3, m)) = n
               /\ HeadCode(n) = Code16 <=> m = 4
               /\ HeadCode(n) = Code64 <=> m = 10
               /\ m = 2 => HeadCode(n) = n
<1> DEFINE r == [masked |-> mask, length |-> HeadCode(n)]
           H == Header(op, mask, n)
           m == HeadLength(n)
<1>0. SmallMax \in Nat /\ Medium \in Nat
  BY FrameParameters DEF Medium
<1>1. r \in Units
  BY <1>0 DEF Units, HeadCode, Code16, Code64
<1>2. /\ HeadCode(n) = Code16 <=> m = 4
      /\ HeadCode(n) = Code64 <=> m = 10
      /\ m = 2 => HeadCode(n) = n
  BY <1>0 DEF HeadCode, HeadLength, Code16, Code64
<1>3. CASE n <= SmallMax
  <2>1. H = <<op, r>>
    <3>1. r = [masked |-> mask, length |-> n]
      BY <1>3 DEF HeadCode
    <3>2. H = <<op>> \o <<r>>
      BY <1>3, <3>1 DEF Header
    <3>3. <<op>> \o <<r>> = <<op, r>>
      <4>1. op \in Units
        BY DEF Units
      <4> HIDE DEF r
      <4> QED
        BY <1>1, <4>1, Pair
    <3> QED
      BY <3>2, <3>3
  <2>2. m = 2 /\ op \in Units
    BY <1>0, <1>3 DEF HeadLength, Units
  <2> HIDE DEF r, m
  <2>3. H \in Seq(Units) /\ Len(H) = 2 /\ H[1] = op /\ H[2] = r
    <3> HIDE DEF H
    <3> QED
      BY <1>1, <2>1, <2>2
  <2> QED
    BY <1>2, <2>2, <2>3 DEF r, m
<1>4. CASE n > SmallMax
  <2> DEFINE k == IF n < Medium THEN 2 ELSE 8
             B == Bytes(n, k)
  <2>1. k \in Nat /\ ((k = 2 /\ n < Medium) \/ (k = 8 /\ n < Long)) /\ m = 2 + k
    BY <1>0, <1>4 DEF HeadLength
  <2>2. H = <<op>> \o (<<r>> \o B)
    BY <1>0, <1>4 DEF Header, HeadCode
  <2> HIDE DEF k, r, m, H
  <2>3. B \in Seq(Nat) /\ Len(B) = k /\ Value(B) = n
    BY <2>1, BytesReadBack
  <2> HIDE DEF B
  <2>4. /\ H \in Seq(Units) /\ Len(H) = 2 + Len(B) /\ H[1] = op /\ H[2] = r
        /\ SubSeq(H, 3, Len(H)) = B
    BY <1>1, <2>2, <2>3, HeadWith
  <2> QED
    BY <1>2, <2>1, <2>3, <2>4 DEF r, m, H
<1> QED
  BY <1>0, <1>3, <1>4

\* Equal bytes, equal pieces.
LEMMA SamePieces ==
    ASSUME NEW s \in Seq(Units), NEW t \in Seq(Units), NEW a \in Nat \ {0}, NEW b \in Nat,
           b <= Len(s), b <= Len(t), \A i \in a .. b : s[i] = t[i]
    PROVE  SubSeq(s, a, b) = SubSeq(t, a, b)
<1>1. /\ SubSeq(s, a, b) = [i \in 1 .. b - a + 1 |-> s[a + i - 1]]
      /\ SubSeq(t, a, b) = [i \in 1 .. b - a + 1 |-> t[a + i - 1]]
  OBVIOUS
<1>2. \A i \in 1 .. b - a + 1 : a + i - 1 \in a .. b
  OBVIOUS
<1> QED
  BY <1>1, <1>2

DecodedAs(op, mask, n, buf) ==
    LET m == HeadLength(n)
        start == IF mask THEN m + 4 ELSE m
        data == SubSeq(buf, start + 1, start + n)
    IN  /\ Len(buf) < start + n => DecodeFrame(buf) = NoFrame
        /\ Len(buf) >= start + n =>
             DecodeFrame(buf) =
                [opcode |-> op, end |-> start + n,
                 payload |-> IF mask
                             THEN [i \in 1 .. n |-> Xor(data[i], buf[m + ((i - 1) % 4) + 1])]
                             ELSE data]

\* What _decodeFrame makes of the beginning of a frame and of a complete one.
LEMMA Decoding ==
    ASSUME NEW op \in Nat, NEW mask \in BOOLEAN, NEW n \in Nat, n < Long,
           NEW buf \in Seq(Units), Len(buf) >= 2,
           \A i \in 1 .. Len(buf) :
              i <= HeadLength(n) => buf[i] = Header(op, mask, n)[i]
    PROVE  DecodedAs(op, mask, n, buf)
<1> DEFINE H == Header(op, mask, n)
           m == HeadLength(n)
           start == IF mask THEN m + 4 ELSE m
           code == buf[2].length
           size == IF m = 2 THEN code ELSE Value(SubSeq(buf, 3, m))
           data == SubSeq(buf, start + 1, start + n)
<1>0. Len(buf) \in Nat /\ m \in {2, 4, 10}
  BY DEF HeadLength
<1>1. /\ H \in Seq(Units) /\ Len(H) = m /\ H[1] = op
      /\ H[2] = [masked |-> mask, length |-> HeadCode(n)]
      /\ m # 2 => Value(SubSeq(H, 3, m)) = n
      /\ HeadCode(n) = Code16 <=> m = 4
      /\ HeadCode(n) = Code64 <=> m = 10
      /\ m = 2 => HeadCode(n) = n
  BY HeaderBytes
<1> HIDE DEF H, m
<1>2. \A i \in 1 .. Len(buf) : i <= m => buf[i] = H[i]
  BY DEF H, m
<1>3. buf[1] = op /\ buf[2] = [masked |-> mask, length |-> HeadCode(n)]
  BY <1>0, <1>1, <1>2
<1>4. code = HeadCode(n) /\ buf[2].masked = mask
  BY <1>3
<1>5. m = IF code = Code16 THEN 4 ELSE IF code = Code64 THEN 10 ELSE 2
  BY <1>0, <1>1, <1>4
<1>6. DecodeFrame(buf) =
        IF Len(buf) < m THEN NoFrame
        ELSE IF Len(buf) < start + size THEN NoFrame
        ELSE [opcode |-> buf[1], end |-> start + size,
              payload |-> IF mask
                          THEN [i \in 1 .. size |-> Xor(SubSeq(buf, start + 1, start + size)[i],
                                                        buf[m + ((i - 1) % 4) + 1])]
                          ELSE SubSeq(buf, start + 1, start + size)]
  BY <1>4, <1>5 DEF DecodeFrame
<1> HIDE DEF code
<1>7. ASSUME Len(buf) >= m PROVE size = n
  <2>1. CASE m = 2
    BY <1>1, <1>4, <2>1
  <2>2. CASE m # 2
    <3>1. SubSeq(buf, 3, m) = SubSeq(H, 3, m)
      <4>1. m \in Nat /\ 3 \in Nat \ {0} /\ m <= Len(buf) /\ m <= Len(H)
        BY <1>0, <1>1, <1>7
      <4>2. \A i \in 3 .. m : buf[i] = H[i]
        BY <1>0, <1>2, <1>7
      <4> QED
        BY <1>1, <4>1, <4>2, SamePieces
    <3> QED
      BY <1>1, <2>2, <3>1
  <2> QED
    BY <2>1, <2>2
<1> HIDE DEF size
<1>8. ASSUME Len(buf) < start + n PROVE DecodeFrame(buf) = NoFrame
  <2>1. CASE Len(buf) < m
    BY <1>6, <2>1
  <2>2. CASE Len(buf) >= m
    BY <1>6, <1>7, <1>8, <2>2
  <2> QED
    BY <1>0, <2>1, <2>2
<1>9. ASSUME Len(buf) >= start + n
      PROVE  DecodeFrame(buf) =
                      [opcode |-> op, end |-> start + n,
                       payload |-> IF mask
                                   THEN [i \in 1 .. n |-> Xor(SubSeq(buf, start + 1, start + n)[i],
                                                              buf[m + ((i - 1) % 4) + 1])]
                                   ELSE SubSeq(buf, start + 1, start + n)]
  <2>1. ~(Len(buf) < m) /\ Len(buf) >= m /\ ~(Len(buf) < start + n)
    BY <1>0, <1>9
  <2>2. size = n
    BY <1>7, <2>1
  <2> QED
    BY <1>3, <1>6, <2>1, <2>2
<1> QED
  BY <1>8, <1>9 DEF m, DecodedAs

\* The bytes of a browser's frame.
LEMMA BrowserBytes ==
    ASSUME NEW frame \in Messages
    PROVE  LET n == Len(frame.payload)
               m == HeadLength(n)
               F == BrowserFrame(frame)
           IN  /\ n \in Nat /\ n < Long /\ m \in Nat /\ m >= 2
               /\ F \in Seq(Units) /\ Len(F) = m + 4 + n
               /\ \A i \in 1 .. m : F[i] = Header(frame.opcode, TRUE, n)[i]
               /\ \A i \in 1 .. 4 : F[m + i] = Mask[i]
               /\ \A i \in 1 .. n : F[m + 4 + i] = Xor(frame.payload[i], Mask[((i - 1) % 4) + 1])
<1> DEFINE n == Len(frame.payload)
           m == HeadLength(n)
           H == Header(frame.opcode, TRUE, n)
           D == Masked(frame.payload)
           F == BrowserFrame(frame)
<1>1. /\ frame.opcode \in Nat /\ frame.payload \in Seq({0, 1})
      /\ n \in Nat /\ n < Long
  BY DEF Messages, Payloads
<1>2. H \in Seq(Units) /\ Len(H) = m /\ m \in Nat /\ m >= 2
  <2>1. m \in Nat /\ m >= 2
    BY DEF HeadLength
  <2> HIDE DEF n, m, H
  <2>2. Header(frame.opcode, TRUE, n) \in Seq(Units) /\ Len(Header(frame.opcode, TRUE, n)) = HeadLength(n)
    BY <1>1, HeaderBytes
  <2> QED
    BY <2>1, <2>2 DEF H, m
<1>3. Mask \in Seq(Units) /\ Len(Mask) = 4
  <2>1. Mask \in [1 .. 4 -> Units]
    BY FrameParameters DEF Units
  <2> QED
    BY <2>1, AsSequence
<1>4. /\ D \in Seq(Units) /\ Len(D) = n
      /\ \A i \in 1 .. n : D[i] = Xor(frame.payload[i], Mask[((i - 1) % 4) + 1])
  <2>1. ASSUME NEW i \in 1 .. n
        PROVE  Xor(frame.payload[i], Mask[((i - 1) % 4) + 1]) \in Units
    <3>1. frame.payload[i] \in {0, 1}
      BY <1>1
    <3>2. ((i - 1) % 4) + 1 \in 1 .. 4
      BY <1>1
    <3>3. Mask[((i - 1) % 4) + 1] \in {0, 1}
      BY <3>2, FrameParameters
    <3> QED
      BY <3>1, <3>3 DEF Xor, Units
  <2>2. D \in [1 .. n -> Units]
    BY <2>1 DEF Masked
  <2>3. \A i \in 1 .. n : D[i] = Xor(frame.payload[i], Mask[((i - 1) % 4) + 1])
    BY DEF Masked
  <2> HIDE DEF D, n
  <2>4. D \in Seq(Units) /\ Len(D) = n
    BY <1>1, <2>2, AsSequence
  <2> QED
    BY <2>3, <2>4
<1>5. F = (H \o Mask) \o D
  BY DEF BrowserFrame
<1> HIDE DEF n, m, H, D, F
<1> DEFINE G == H \o Mask
<1>6. /\ G \in Seq(Units) /\ Len(G) = m + 4
      /\ \A i \in 1 .. m : G[i] = H[i]
      /\ \A i \in 1 .. 4 : G[m + i] = Mask[i]
  <2>1. Joins(Units, H, Mask)
    BY <1>2, <1>3, Concatenated
  <2> QED
    BY <1>2, <1>3, <2>1 DEF Joins
<1> HIDE DEF G
<1>7. /\ F \in Seq(Units) /\ Len(F) = m + 4 + n
      /\ \A i \in 1 .. m + 4 : F[i] = G[i]
      /\ \A i \in 1 .. n : F[m + 4 + i] = D[i]
  <2>0. F = G \o D
    BY <1>5 DEF G
  <2> QED
    <3>1. Joins(Units, G, D)
      BY <1>4, <1>6, Concatenated
    <3> QED
      BY <1>4, <1>6, <2>0, <3>1 DEF Joins
<1>8. \A i \in 1 .. m : F[i] = H[i]
  BY <1>2, <1>6, <1>7
<1>9. \A i \in 1 .. 4 : F[m + i] = Mask[i]
  <2>1. \A i \in 1 .. 4 : m + i \in 1 .. m + 4
    BY <1>2
  <2> QED
    BY <1>6, <1>7, <2>1
<1> QED
  BY <1>1, <1>2, <1>4, <1>7, <1>8, <1>9 DEF n, m, H, F

\* Masked twice is not masked.
LEMMA Unmasked ==
    ASSUME NEW a \in {0, 1}, NEW b \in {0, 1}
    PROVE  Xor(Xor(a, b), b) = a
  BY DEF Xor

\* _decodeFrame of a buffer that begins with a browser's frame, or with a part
\* of one.
LEMMA BrowserDecoded ==
    ASSUME NEW frame \in Messages, NEW buf \in Seq(Units), Len(buf) >= 2,
           \A i \in 1 .. Len(buf) : i <= Len(BrowserFrame(frame)) => buf[i] = BrowserFrame(frame)[i]
    PROVE  /\ Len(buf) < Len(BrowserFrame(frame)) => DecodeFrame(buf) = NoFrame
           /\ Len(buf) >= Len(BrowserFrame(frame)) =>
                DecodeFrame(buf) = [opcode |-> frame.opcode, payload |-> frame.payload,
                                    end |-> Len(BrowserFrame(frame))]
<1> DEFINE p == frame.payload
           op == frame.opcode
           n == Len(p)
           m == HeadLength(n)
           F == BrowserFrame(frame)
<1>1. /\ n \in Nat /\ n < Long /\ m \in Nat /\ m >= 2
      /\ F \in Seq(Units) /\ Len(F) = m + 4 + n
      /\ \A i \in 1 .. m : F[i] = Header(op, TRUE, n)[i]
      /\ \A i \in 1 .. 4 : F[m + i] = Mask[i]
      /\ \A i \in 1 .. n : F[m + 4 + i] = Xor(p[i], Mask[((i - 1) % 4) + 1])
  BY BrowserBytes
<1>2. op \in Nat /\ p \in Seq({0, 1})
  BY DEF Messages, Payloads
<1>0. Len(buf) \in Nat /\ \A i \in 1 .. Len(buf) : i <= Len(F) => buf[i] = F[i]
  OBVIOUS
<1> HIDE DEF F, op, p
<1>3. \A i \in 1 .. Len(buf) : i <= HeadLength(n) => buf[i] = Header(op, TRUE, n)[i]
  <2> HIDE DEF n, m
  <2>1. ASSUME NEW i \in 1 .. Len(buf), i <= m PROVE buf[i] = Header(op, TRUE, n)[i]
    <3>1. i \in 1 .. m /\ i <= Len(F)
      BY <1>1, <2>1
    <3> QED
      BY <1>0, <1>1, <3>1
  <2> QED
    BY <2>1 DEF m
<1> DEFINE start == m + 4
           data == SubSeq(buf, start + 1, start + n)
<1>4. /\ Len(buf) < start + n => DecodeFrame(buf) = NoFrame
      /\ Len(buf) >= start + n =>
            DecodeFrame(buf) =
               [opcode |-> op, end |-> start + n,
                payload |-> [i \in 1 .. n |-> Xor(data[i], buf[m + ((i - 1) % 4) + 1])]]
  <2> HIDE DEF n
  <2> QED
    <3>1. DecodedAs(op, TRUE, n, buf)
      BY <1>1, <1>2, <1>3, Decoding
    <3> QED
      BY <3>1 DEF DecodedAs
<1>5. ASSUME Len(buf) >= start + n
      PROVE  [i \in 1 .. n |-> Xor(data[i], buf[m + ((i - 1) % 4) + 1])] = p
  <2>1. ASSUME NEW i \in 1 .. n PROVE Xor(data[i], buf[m + ((i - 1) % 4) + 1]) = p[i]
    <3> DEFINE j == ((i - 1) % 4) + 1
    <3>1. j \in 1 .. 4 /\ m + ((i - 1) % 4) + 1 = m + j /\ i \in Nat
      BY <1>1
    <3>2. data[i] = buf[start + i]
      <4>1. start \in Nat /\ n \in Nat /\ start + n <= Len(buf)
        BY <1>0, <1>1, <1>5
      <4> HIDE DEF start, n
      <4> QED
        BY <4>1, Piece
    <3>3. buf[start + i] = F[m + 4 + i]
      <4>1. start + i \in 1 .. Len(buf) /\ start + i <= Len(F) /\ start + i = m + 4 + i
        BY <1>0, <1>1, <1>5
      <4> QED
        BY <1>0, <4>1
    <3> HIDE DEF j
    <3>4. buf[m + j] = Mask[j]
      <4>1. m + j \in 1 .. Len(buf) /\ m + j <= Len(F)
        BY <1>0, <1>1, <1>5, <3>1
      <4> QED
        BY <1>0, <1>1, <3>1, <4>1
    <3>5. data[i] = Xor(p[i], Mask[j])
      BY <1>1, <3>2, <3>3 DEF j
    <3>6. p[i] \in {0, 1} /\ Mask[j] \in {0, 1}
      BY <1>2, <3>1, FrameParameters
    <3>7. buf[m + ((i - 1) % 4) + 1] = Mask[j]
      BY <3>1, <3>4
    <3> HIDE DEF data, start, m
    <3> QED
      BY <3>5, <3>6, <3>7, Unmasked
  <2>2. p = [i \in 1 .. n |-> p[i]]
    BY <1>2
  <2> HIDE DEF data
  <2> QED
    BY <2>1, <2>2
<1> QED
  <2> HIDE DEF data
  <2>1. Len(F) = start + n
    BY <1>1
  <2> HIDE DEF start, m, n
  <2> QED
    BY <1>4, <1>5, <2>1 DEF F, op, p

\* A reader of frames gets back what _sendFrame wrote.
LEMMA SentDecoded ==
    ASSUME NEW op \in Nat, NEW p \in Payloads
    PROVE  DecodeFrame(SendFrame(op, p)) =
              [opcode |-> op, payload |-> p, end |-> Len(SendFrame(op, p))]
<1> DEFINE n == Len(p)
           m == HeadLength(n)
           H == Header(op, FALSE, n)
           S == SendFrame(op, p)
<1>1. n \in Nat /\ n < Long /\ p \in Seq({0, 1}) /\ p \in Seq(Units)
  BY DEF Payloads, Units
<1>2. H \in Seq(Units) /\ Len(H) = m /\ m \in Nat /\ m >= 2
  <2>1. m \in Nat /\ m >= 2
    BY DEF HeadLength
  <2> HIDE DEF n, m, H
  <2>2. Header(op, FALSE, n) \in Seq(Units) /\ Len(Header(op, FALSE, n)) = HeadLength(n)
    BY <1>1, HeaderBytes
  <2> QED
    BY <2>1, <2>2 DEF H, m
<1>3. S = H \o p
  <2>1. (n < Code16) <=> (n <= SmallMax)
    BY <1>1, FrameParameters DEF Code16
  <2>2. CASE n <= SmallMax
    <3> DEFINE l == [masked |-> FALSE, length |-> n]
    <3>1. S = <<op, l>> \o p
      BY <2>1, <2>2 DEF SendFrame
    <3>2. H = <<op>> \o <<l>>
      BY <2>2 DEF Header
    <3>4. op \in Units /\ l \in Units
      BY <1>1 DEF Units
    <3> HIDE DEF l
    <3>3. <<op>> \o <<l>> = <<op, l>>
      BY <3>4, Pair
    <3> QED
      BY <3>1, <3>2, <3>3
  <2>3. CASE ~(n <= SmallMax)
    <3> DEFINE k == IF n < Medium THEN 2 ELSE 8
               l == [masked |-> FALSE, length |-> IF n < Medium THEN Code16 ELSE Code64]
               B == Bytes(n, k)
    <3>1. S = (<<op, l>> \o B) \o p
      BY <2>1, <2>3 DEF SendFrame
    <3>2. H = <<op>> \o (<<l>> \o B)
      BY <2>3 DEF Header
    <3>3. B \in Seq(Nat)
      <4>1. k \in Nat /\ ((k = 2 /\ n < Medium) \/ (k = 8 /\ n < Long))
        BY <1>1
      <4> HIDE DEF k, n
      <4> QED
        BY <1>1, <4>1, BytesReadBack
    <3> HIDE DEF l, B, S, H
    <3>4. <<op>> \o (<<l>> \o B) = <<op, l>> \o B
      BY <3>3
    <3> QED
      BY <3>1, <3>2, <3>4
  <2> QED
    BY <2>2, <2>3
<1> HIDE DEF n, m, H, S
<1>4. /\ S \in Seq(Units) /\ Len(S) = m + n /\ Len(S) \in Nat
      /\ \A i \in 1 .. m : S[i] = H[i]
      /\ \A i \in 1 .. n : S[m + i] = p[i]
  <2>1. n = Len(p)
    BY DEF n
  <2> QED
    <3>1. Joins(Units, H, p)
      BY <1>1, <1>2, Concatenated
    <3> QED
      BY <1>1, <1>2, <1>3, <2>1, <3>1 DEF Joins
<1>5. \A i \in 1 .. Len(S) : i <= HeadLength(n) => S[i] = Header(op, FALSE, n)[i]
  <2>1. ASSUME NEW i \in 1 .. Len(S), i <= m PROVE S[i] = H[i]
    <3>1. i \in 1 .. m
      BY <1>2, <1>4, <2>1
    <3> QED
      BY <1>4, <3>1
  <2> QED
    BY <2>1 DEF m, H
<1>6. Len(S) >= 2
  BY <1>1, <1>2, <1>4
<1>7. DecodeFrame(S) = [opcode |-> op, end |-> m + n, payload |-> SubSeq(S, m + 1, m + n)]
  <2>1. ~(Len(S) < m + n) /\ Len(S) >= m + n
    BY <1>1, <1>2, <1>4
  <2> QED
    <3>1. DecodedAs(op, FALSE, n, S)
      BY <1>1, <1>4, <1>5, <1>6, Decoding
    <3> QED
      BY <1>4, <2>1, <3>1 DEF DecodedAs, m
<1>8. SubSeq(S, m + 1, m + n) = p
  <2> DEFINE D == SubSeq(S, m + 1, m + n)
  <2>1. m + n <= Len(S)
    BY <1>1, <1>2, <1>4
  <2>2. D \in Seq(Units) /\ Len(D) = n /\ \A i \in 1 .. n : D[i] = S[m + i]
    BY <1>1, <1>2, <1>4, <2>1, Piece
  <2>3. Len(p) = n
    BY DEF n
  <2> HIDE DEF D
  <2>4. D = p
    BY <1>1, <1>4, <2>2, <2>3
  <2> QED
    BY <2>4 DEF D
<1> QED
  BY <1>4, <1>7, <1>8 DEF S

-----------------------------------------------------------------------------
(* The frames of a browser one after the other. *)

BrowserFrames(frames) == [i \in 1 .. Len(frames) |-> BrowserFrame(frames[i])]
IsStream(S, frames) ==
    S = [n \in 0 .. Len(frames) |-> IF n = 0 THEN <<>> ELSE S[n - 1] \o BrowserFrame(frames[n])]

LEMMA FramesChain ==
    ASSUME NEW frames \in Seq(Messages)
    PROVE  IsChain(Units, FrameStream(frames), BrowserFrames(frames), Len(frames))
<1> DEFINE k == Len(frames)
           P == BrowserFrames(frames)
           T == CHOOSE S : IsStream(S, frames)
<1>1. k \in Nat /\ P \in [1 .. k -> Seq(Units)]
  <2>1. k \in Nat /\ \A i \in 1 .. k : frames[i] \in Messages
    OBVIOUS
  <2>2. \A i \in 1 .. k : BrowserFrame(frames[i]) \in Seq(Units)
    BY <2>1, BrowserBytes
  <2> QED
    BY <2>1, <2>2 DEF BrowserFrames
<1>2. \A n \in 0 .. k : n # 0 => P[n] = BrowserFrame(frames[n])
  BY <1>1 DEF BrowserFrames
<1>3. FrameStream(frames) = T
  BY DEF FrameStream, IsStream
<1> HIDE DEF P, k
<1>4. PICK S : Chain(S, P, k)
  BY <1>1, ChainExists
<1>5. ASSUME NEW R PROVE Chain(R, P, k) <=> IsStream(R, frames)
  <2>1. [n \in 0 .. k |-> IF n = 0 THEN <<>> ELSE R[n - 1] \o P[n]]
        = [n \in 0 .. k |-> IF n = 0 THEN <<>> ELSE R[n - 1] \o BrowserFrame(frames[n])]
    BY <1>2
  <2> QED
    BY <2>1 DEF Chain, IsStream, k
<1>6. IsStream(T, frames)
  BY <1>4, <1>5
<1> HIDE DEF T
<1>7. IsChain(Units, T, P, k)
  BY <1>1, <1>5, <1>6, ChainSteps
<1> QED
  BY <1>3, <1>7 DEF P, k

\* Where the frame after the first h begins and ends.
LEMMA NextFrame ==
    ASSUME NEW frames \in Seq(Messages), NEW h \in Nat, h < Len(frames)
    PROVE  LET S == FrameStream(frames)
               F == BrowserFrame(frames[h + 1])
               stream == S[Len(frames)]
           IN  /\ frames[h + 1] \in Messages /\ F \in Seq(Units) /\ Len(F) \in Nat /\ Len(F) >= 6
               /\ Len(S[h]) \in Nat /\ Len(S[h + 1]) = Len(S[h]) + Len(F)
               /\ Len(S[h + 1]) <= Len(stream)
               /\ \A i \in 1 .. Len(F) : stream[Len(S[h]) + i] = F[i]
<1> DEFINE S == FrameStream(frames)
           F == BrowserFrame(frames[h + 1])
           k == Len(frames)
           P == BrowserFrames(frames)
<1>1. k \in Nat /\ h + 1 \in 1 .. k /\ frames[h + 1] \in Messages
  OBVIOUS
<1>2. F \in Seq(Units) /\ Len(F) \in Nat /\ Len(F) >= 6
  <2> DEFINE n == Len(frames[h + 1].payload)
             m == HeadLength(n)
  <2>1. n \in Nat /\ m \in Nat /\ m >= 2 /\ F \in Seq(Units) /\ Len(F) = m + 4 + n
    BY <1>1, BrowserBytes
  <2> HIDE DEF n, m, F
  <2> QED
    BY <2>1
<1>3. P[h + 1] = F
  BY <1>1 DEF BrowserFrames
<1>4. IsChain(Units, S, P, k)
  BY FramesChain
<1> HIDE DEF S, F, P
<1>5. Next1(Units, S, P, k, h)
  BY <1>1, <1>4, ChainNext
<1> QED
  BY <1>1, <1>2, <1>3, <1>5 DEF Next1, S, F

-----------------------------------------------------------------------------
(* The frames of some kinds among the first. *)

Pick(r, frame, opcodes) == IF frame.opcode \in opcodes THEN Append(r, frame) ELSE r

IsSelected(g, frames, opcodes) ==
    g = [n \in 0 .. Len(frames) |-> IF n = 0 THEN <<>> ELSE Pick(g[n - 1], frames[n], opcodes)]

LEMMA SelectedSteps ==
    ASSUME NEW frames \in Seq(Messages), NEW opcodes
    PROVE  /\ Selected(frames, opcodes)[0] = <<>>
           /\ \A n \in 1 .. Len(frames) :
                 Selected(frames, opcodes)[n] = Pick(Selected(frames, opcodes)[n - 1], frames[n], opcodes)
           /\ \A n \in 0 .. Len(frames) : Selected(frames, opcodes)[n] \in Seq(Messages)
<1> DEFINE k == Len(frames)
           X == Seq(Messages)
           F == [x \in X \X (1 .. k) |-> Pick(x[1], frames[x[2]], opcodes)]
<1>0. k \in Nat /\ \A i \in 1 .. k : frames[i] \in Messages
  OBVIOUS
<1>a. ASSUME NEW r \in X, NEW i \in 1 .. k PROVE Pick(r, frames[i], opcodes) \in X
  <2>1. frames[i] \in Messages
    BY <1>0
  <2> QED
    BY <2>1 DEF Pick
<1>1. F \in Steps(k, X)
  <2> HIDE DEF X, k
  <2> QED
    BY <1>a DEF Steps
<1>2. ASSUME NEW v \in X, NEW i \in 1 .. k PROVE F[<<v, i>>] = Pick(v, frames[i], opcodes)
  OBVIOUS
<1> HIDE DEF F
<1>3. PICK g : Follows(g, k, X, <<>>, F)
  <2>1. <<>> \in X
    OBVIOUS
  <2> HIDE DEF k, X
  <2> QED
    BY <1>0, <1>1, <2>1, Recursion, Zenon
<1>4. g \in [0 .. k -> X] /\ g[0] = <<>> /\ \A i \in 1 .. k : g[i] = F[<<g[i - 1], i>>]
  BY <1>3 DEF Follows
<1>5. ASSUME NEW i \in 1 .. k PROVE g[i] = Pick(g[i - 1], frames[i], opcodes)
  <2> HIDE DEF k, X
  <2>1. i - 1 \in 0 .. k
    BY <1>0
  <2>2. g[i - 1] \in X
    BY <1>4, <2>1
  <2> QED
    BY <1>2, <1>4, <2>2
<1>6. IsSelected(g, frames, opcodes)
  <2>1. g = [i \in 0 .. k |-> g[i]]
    BY <1>4
  <2>2. \A i \in 0 .. k : i # 0 => i \in 1 .. k
    BY <1>0
  <2> HIDE DEF X
  <2> QED
    BY <1>4, <1>5, <2>1, <2>2 DEF IsSelected
<1> DEFINE S == CHOOSE g1 : IsSelected(g1, frames, opcodes)
<1>7. IsSelected(S, frames, opcodes)
  BY <1>6
<1>8. Selected(frames, opcodes) = S
  BY DEF Selected, IsSelected, Pick
<1> HIDE DEF S
<1>9. S[0] = <<>> /\ \A n \in 1 .. k : S[n] = Pick(S[n - 1], frames[n], opcodes)
  BY <1>7 DEF IsSelected
<1>10. \A n \in 0 .. k : S[n] \in X
  <2> DEFINE P == {n \in Nat : n <= k => S[n] \in X}
  <2>1. 0 \in P
    <3>1. <<>> \in X
      OBVIOUS
    <3> QED
      BY <1>9, <3>1
  <2>2. ASSUME NEW n \in 0 .. k - 1, n \in P PROVE n + 1 \in P
    <3>1. S[n] \in X /\ n + 1 \in 1 .. k /\ (n + 1) - 1 = n
      BY <1>0, <2>2
    <3>2. S[n + 1] = Pick(S[n], frames[n + 1], opcodes)
      BY <1>9, <3>1
    <3>3. S[n + 1] \in X
      BY <1>a, <3>1, <3>2
    <3> QED
      BY <3>1, <3>3
  <2>3. \A n \in 0 .. k : n \in P
    <3> HIDE DEF P, k
    <3> QED
      BY <1>0, <2>1, <2>2, UpTo
  <2> QED
    BY <2>3
<1> QED
  BY <1>8, <1>9, <1>10

\* Every frame selected is of one of the kinds.
LEMMA SelectedKinds ==
    ASSUME NEW frames \in Seq(Messages), NEW opcodes
    PROVE  \A n \in 0 .. Len(frames) :
              \A i \in 1 .. Len(Selected(frames, opcodes)[n]) :
                 Selected(frames, opcodes)[n][i].opcode \in opcodes
<1> DEFINE k == Len(frames)
           S == Selected(frames, opcodes)
           Kinds(n) == \A i \in 1 .. Len(S[n]) : S[n][i].opcode \in opcodes
           P == {n \in Nat : n <= k => Kinds(n)}
<1>0. k \in Nat /\ \A i \in 1 .. k : frames[i] \in Messages
  OBVIOUS
<1>1. /\ S[0] = <<>>
      /\ \A n \in 1 .. k : S[n] = Pick(S[n - 1], frames[n], opcodes)
      /\ \A n \in 0 .. k : S[n] \in Seq(Messages)
  BY SelectedSteps
<1> HIDE DEF S
<1>2. 0 \in P
  BY <1>1
<1>3. ASSUME NEW n \in 0 .. k - 1, n \in P PROVE n + 1 \in P
  <2>1. n + 1 \in 1 .. k /\ (n + 1) - 1 = n /\ n \in 0 .. k
    BY <1>0
  <2>2. S[n + 1] = Pick(S[n], frames[n + 1], opcodes) /\ S[n] \in Seq(Messages)
    BY <1>1, <2>1
  <2>3. Kinds(n) /\ frames[n + 1] \in Messages
    BY <1>0, <1>3, <2>1
  <2>4. Kinds(n + 1)
    <3>1. CASE frames[n + 1].opcode \in opcodes
      <4> DEFINE T == Append(S[n], frames[n + 1])
      <4>1. /\ Len(T) = Len(S[n]) + 1 /\ Len(S[n]) \in Nat
            /\ \A i \in 1 .. Len(S[n]) : T[i] = S[n][i]
            /\ T[Len(S[n]) + 1] = frames[n + 1]
        BY <2>2, <2>3
      <4>2. S[n + 1] = T
        BY <2>2, <3>1 DEF Pick
      <4> HIDE DEF T
      <4> QED
        BY <2>3, <3>1, <4>1, <4>2
    <3>2. CASE frames[n + 1].opcode \notin opcodes
      BY <2>2, <2>3, <3>2 DEF Pick
    <3> QED
      BY <3>1, <3>2
  <2> QED
    BY <2>1, <2>4
<1>4. \A n \in 0 .. k : n \in P
  <2> HIDE DEF P, k
  <2> QED
    BY <1>0, <1>2, <1>3, UpTo
<1> QED
  BY <1>0, <1>4 DEF S

-----------------------------------------------------------------------------
(* The inductive invariant: the bridge has dealt with the first h frames,  *)
(* and its buffer holds what has arrived of the others.                    *)

Texts(frames) == [i \in 1 .. Len(frames) |-> frames[i].payload]
Given == {Answer(op, p) : op \in Nat, p \in Payloads}
TextOf(h) == Selected(fsent, {TextFrame})[h]
AskedOf(h) == Selected(fsent, {TextFrame, PingFrame})[h]

AnswersTo(answers, asked) ==
    /\ answers \in Seq(Given) /\ Len(answers) = Len(asked)
    /\ \A i \in 1 .. Len(asked) :
          asked[i].opcode = PingFrame =>
             answers[i].opcode = PongFrame /\ answers[i].payload = asked[i].payload

Buffered(from) ==
    /\ from \in Nat /\ from <= farrived
    /\ fbuffer \in Seq(Units) /\ Len(fbuffer) = farrived - from
    /\ \A i \in 1 .. Len(fbuffer) : fbuffer[i] = fstream[from + i]

Handled(h) ==
    /\ h \in 0 .. Len(fsent)
    /\ Buffered(Len(FrameStream(fsent)[h]))
    /\ \A i \in 1 .. h : fsent[i].opcode = CloseFrame <=> fdestroyed /\ i = h
    /\ fdestroyed => h > 0 /\ ~fbusy
    /\ ~fbusy /\ ~fdestroyed /\ h < Len(fsent) => Len(FrameStream(fsent)[h + 1]) > farrived
    /\ fmessages = Texts(TextOf(h))
    /\ AnswersTo(fanswers, AskedOf(h))

FTypeOK ==
    /\ fsent \in Seq(Messages)
    /\ fstream = FrameStream(fsent)[Len(fsent)] /\ fstream \in Seq(Units)
    /\ farrived \in 0 .. Len(fstream)
    /\ fbusy \in BOOLEAN /\ fdestroyed \in BOOLEAN
    /\ fbusy => fsent # <<>>

FramesInv == FTypeOK /\ \E h : Handled(h)

\* Nothing dealt with yet.
LEMMA Nothing ==
    ASSUME NEW frames \in Seq(Messages)
    PROVE  /\ FrameStream(frames)[0] = <<>>
           /\ \A ops : Selected(frames, ops)[0] = <<>>
           /\ Texts(<<>>) = <<>> /\ <<>> \in Seq(Given) /\ <<>> \in Seq(Units)
           /\ FrameStream(frames)[Len(frames)] \in Seq(Units)
<1>1. Len(frames) \in 0 .. Len(frames)
  OBVIOUS
<1>2. FrameStream(frames)[0] = <<>> /\ FrameStream(frames)[Len(frames)] \in Seq(Units)
  BY <1>1, FramesChain DEF IsChain
<1>3. ASSUME NEW ops PROVE Selected(frames, ops)[0] = <<>>
  BY SelectedSteps
<1>4. Texts(<<>>) = <<>>
  BY DEF Texts
<1> QED
  BY <1>2, <1>3, <1>4

\* The state of a connection over which nothing has come.
LEMMA Fresh ==
    ASSUME fsent' \in Seq(Messages), fstream' = FrameStream(fsent')[Len(fsent')],
           farrived' = 0, fbuffer' = <<>>, fbusy' = FALSE, fmessages' = <<>>,
           fanswers' = <<>>, fdestroyed' = FALSE
    PROVE  FramesInv'
<1>1. /\ FrameStream(fsent')[0] = <<>>
      /\ \A ops : Selected(fsent', ops)[0] = <<>>
      /\ Texts(<<>>) = <<>> /\ <<>> \in Seq(Given) /\ <<>> \in Seq(Units)
      /\ FrameStream(fsent')[Len(fsent')] \in Seq(Units)
  BY Nothing
<1>2. FTypeOK'
  <2>1. fstream' \in Seq(Units)
    BY <1>1
  <2>2. Len(fstream') \in Nat
    BY <2>1
  <2>3. farrived' \in 0 .. Len(fstream')
    BY <2>2
  <2> QED
    BY <2>1, <2>3 DEF FTypeOK
<1>3. Buffered(Len(FrameStream(fsent)[0]))'
  <2>1. Len(FrameStream(fsent')[0]) = 0 /\ Len(fbuffer') = 0
    BY <1>1
  <2> DEFINE E == Len(FrameStream(fsent')[0])
  <2>2. E \in Nat /\ E <= farrived' /\ Len(fbuffer') = farrived' - E
    BY <2>1
  <2>3. \A i \in 1 .. Len(fbuffer') : fbuffer'[i] = fstream'[E + i]
    BY <2>1
  <2>4. fbuffer' \in Seq(Units)
    BY <1>1
  <2> QED
    BY <2>2, <2>3, <2>4 DEF Buffered
<1>4. (fmessages = Texts(TextOf(0)))' /\ AnswersTo(fanswers, AskedOf(0))'
  BY <1>1 DEF TextOf, AskedOf, AnswersTo
<1>5. ASSUME 0 < Len(fsent') PROVE Len(FrameStream(fsent')[0 + 1]) > 0
  <2>1. LET S == FrameStream(fsent')
            F == BrowserFrame(fsent'[0 + 1])
        IN  Len(F) \in Nat /\ Len(F) >= 6 /\ Len(S[0]) \in Nat /\ Len(S[0 + 1]) = Len(S[0]) + Len(F)
    BY <1>5, NextFrame
  <2> DEFINE f == Len(BrowserFrame(fsent'[0 + 1]))
             e == Len(FrameStream(fsent')[0])
             g == Len(FrameStream(fsent')[0 + 1])
  <2>2. f \in Nat /\ f >= 6 /\ e \in Nat /\ g = e + f
    BY <2>1
  <2> HIDE DEF f, e, g
  <2>3. g > 0
    BY <2>2
  <2> QED
    BY <2>3 DEF g
<1>6. Handled(0)'
  BY <1>3, <1>4, <1>5 DEF Handled
<1> QED
  BY <1>2, <1>6 DEF FramesInv

\* Whether a frame of the stream is complete in the buffer.
LEMMA BufferedFrame ==
    ASSUME FTypeOK, NEW h \in Nat, h < Len(fsent), Buffered(Len(FrameStream(fsent)[h]))
    PROVE  LET F == BrowserFrame(fsent[h + 1])
           IN  /\ Len(FrameStream(fsent)[h + 1]) > farrived => FirstFrame = NoFrame
               /\ ~(Len(FrameStream(fsent)[h + 1]) > farrived) =>
                     /\ FirstFrame = [opcode |-> fsent[h + 1].opcode,
                                      payload |-> fsent[h + 1].payload, end |-> Len(F)]
                     /\ FirstFrame # NoFrame /\ Len(F) <= Len(fbuffer)
<1> DEFINE F == BrowserFrame(fsent[h + 1])
           E == Len(FrameStream(fsent)[h])
           G == Len(FrameStream(fsent)[h + 1])
<1>0. fsent \in Seq(Messages) /\ fstream = FrameStream(fsent)[Len(fsent)] /\ farrived \in Nat
  BY DEF FTypeOK
<1>1. /\ fsent[h + 1] \in Messages /\ F \in Seq(Units) /\ Len(F) \in Nat /\ Len(F) >= 6
      /\ E \in Nat /\ G = E + Len(F)
      /\ \A i \in 1 .. Len(F) : fstream[E + i] = F[i]
  BY <1>0, NextFrame
<1>2. /\ E <= farrived /\ fbuffer \in Seq(Units) /\ Len(fbuffer) = farrived - E
      /\ \A i \in 1 .. Len(fbuffer) : fbuffer[i] = fstream[E + i]
  BY DEF Buffered
<1> HIDE DEF E, G, F
<1>3. \A i \in 1 .. Len(fbuffer) : i <= Len(F) => fbuffer[i] = F[i]
  <2>1. ASSUME NEW i \in 1 .. Len(fbuffer), i <= Len(F) PROVE fbuffer[i] = F[i]
    <3>1. i \in 1 .. Len(F)
      BY <1>1, <2>1
    <3> QED
      BY <1>1, <1>2, <3>1
  <2> QED
    BY <2>1
<1>4. ASSUME Len(fbuffer) >= 2
      PROVE  /\ Len(fbuffer) < Len(F) => DecodeFrame(fbuffer) = NoFrame
             /\ Len(fbuffer) >= Len(F) =>
                  DecodeFrame(fbuffer) = [opcode |-> fsent[h + 1].opcode,
                                          payload |-> fsent[h + 1].payload, end |-> Len(F)]
  BY <1>1, <1>2, <1>3, <1>4, BrowserDecoded DEF F
<1>5. Len(fbuffer) \in Nat
  BY <1>0, <1>1, <1>2
<1>6. ASSUME G > farrived PROVE FirstFrame = NoFrame
  <2>1. Len(fbuffer) < Len(F)
    BY <1>0, <1>1, <1>2, <1>6
  <2> QED
    BY <1>4, <1>5, <2>1 DEF FirstFrame
<1>7. ASSUME ~(G > farrived)
      PROVE  /\ FirstFrame = [opcode |-> fsent[h + 1].opcode,
                              payload |-> fsent[h + 1].payload, end |-> Len(F)]
             /\ FirstFrame # NoFrame /\ Len(F) <= Len(fbuffer)
  <2>1. Len(fbuffer) >= Len(F) /\ Len(fbuffer) >= 2 /\ ~(Len(fbuffer) < 2)
    BY <1>0, <1>1, <1>2, <1>7
  <2>2. FirstFrame = [opcode |-> fsent[h + 1].opcode,
                      payload |-> fsent[h + 1].payload, end |-> Len(F)]
    BY <1>4, <2>1 DEF FirstFrame
  <2>3. FirstFrame.end # NoFrame.end
    BY <1>1, <2>2 DEF NoFrame
  <2> QED
    BY <1>1, <1>5, <2>1, <2>2, <2>3
<1> QED
  BY <1>6, <1>7 DEF G, F

\* All the frames dealt with: the buffer is empty.
LEMMA BufferEmpty ==
    ASSUME FTypeOK, Buffered(Len(FrameStream(fsent)[Len(fsent)]))
    PROVE  FirstFrame = NoFrame
<1>1. Len(fbuffer) = 0
  <2>1. /\ Len(fstream) \in Nat /\ farrived \in Nat /\ farrived <= Len(fstream)
        /\ Len(fstream) <= farrived /\ Len(fbuffer) = farrived - Len(fstream)
    BY DEF FTypeOK, Buffered
  <2> QED
    BY <2>1
<1> QED
  BY <1>1 DEF FirstFrame

LEMMA InitFrames == FInit => FramesInv
<1> SUFFICES ASSUME FInit PROVE FramesInv
  OBVIOUS
<1>0. /\ fsent = <<>> /\ fstream = <<>> /\ farrived = 0 /\ fbuffer = <<>> /\ fbusy = FALSE
      /\ fmessages = <<>> /\ fanswers = <<>> /\ fdestroyed = FALSE
  BY DEF FInit
<1>1. fsent \in Seq(Messages) /\ Len(fsent) = 0
  BY <1>0
<1>2. /\ FrameStream(fsent)[0] = <<>>
      /\ \A ops : Selected(fsent, ops)[0] = <<>>
      /\ Texts(<<>>) = <<>> /\ <<>> \in Seq(Given) /\ <<>> \in Seq(Units)
  BY <1>1, Nothing
<1>3. FTypeOK
  <2>1. fstream \in Seq(Units) /\ Len(fstream) = 0
    BY <1>0
  <2>2. farrived \in 0 .. Len(fstream)
    BY <1>0, <2>1
  <2> QED
    BY <1>0, <1>1, <1>2, <2>1, <2>2 DEF FTypeOK
<1>4. Buffered(Len(FrameStream(fsent)[0]))
  BY <1>0, <1>2 DEF Buffered
<1>5. fmessages = Texts(TextOf(0)) /\ AnswersTo(fanswers, AskedOf(0))
  BY <1>0, <1>2 DEF TextOf, AskedOf, AnswersTo
<1>6. Handled(0)
  BY <1>0, <1>1, <1>4, <1>5 DEF Handled
<1> QED
  BY <1>3, <1>6 DEF FramesInv

LEMMA OpenStep ==
    ASSUME FramesInv, NEW frames \in Dialogues, FOpen(frames)
    PROVE  FramesInv'
<1>1. FTypeOK /\ fsent = <<>>
  BY DEF FramesInv, FOpen
<1>2. PICK h : Handled(h)
  BY DEF FramesInv
<1>3. h = 0
  BY <1>1, <1>2 DEF Handled
<1>4. fsent \in Seq(Messages) /\ Len(fsent) = 0
  BY <1>1
<1>5. /\ FrameStream(fsent)[0] = <<>> /\ \A ops : Selected(fsent, ops)[0] = <<>>
      /\ Texts(<<>>) = <<>>
  BY <1>4, Nothing
<1>6. farrived = 0
  <2>1. Len(fstream) = 0
    BY <1>1, <1>4, <1>5 DEF FTypeOK
  <2> QED
    BY <1>1, <2>1 DEF FTypeOK
<1>7. fbuffer = <<>>
  <2>1. fbuffer \in Seq(Units) /\ Len(fbuffer) = 0
    <3>1. Buffered(Len(FrameStream(fsent)[0]))
      BY <1>2, <1>3 DEF Handled
    <3>2. Len(FrameStream(fsent)[0]) = 0
      BY <1>5
    <3> QED
      BY <1>6, <3>1, <3>2 DEF Buffered
  <2> QED
    BY <2>1
<1>8. fbusy = FALSE /\ fdestroyed = FALSE
  BY <1>1, <1>2, <1>3 DEF FTypeOK, Handled
<1>9. fmessages = <<>>
  BY <1>2, <1>3, <1>5 DEF Handled, TextOf
<1>10. fanswers = <<>>
  <2>1. fanswers \in Seq(Given) /\ Len(fanswers) = 0
    BY <1>2, <1>3, <1>5 DEF Handled, AskedOf, AnswersTo
  <2> QED
    BY <2>1
<1>11. fsent' \in Seq(Messages) /\ fstream' = FrameStream(fsent')[Len(fsent')]
  BY FrameParameters DEF FOpen
<1> QED
  BY <1>6, <1>7, <1>8, <1>9, <1>10, <1>11, Fresh DEF FOpen

LEMMA CloseStep ==
    ASSUME FramesInv, FClose
    PROVE  FramesInv'
<1>1. fsent' = <<>> /\ fsent' \in Seq(Messages) /\ Len(fsent') = 0
  BY DEF FClose
<1>2. FrameStream(fsent')[Len(fsent')] = <<>>
  BY <1>1, Nothing
<1>3. fbusy' = FALSE
  BY DEF FClose, FramesInv, FTypeOK
<1> QED
  BY <1>1, <1>2, <1>3, Fresh DEF FClose

LEMMA ReceiveStep ==
    ASSUME FramesInv, NEW n \in 1 .. FChunk, FReceive(n)
    PROVE  FramesInv'
<1>1. FTypeOK
  BY DEF FramesInv
<1>2. PICK h : Handled(h)
  BY DEF FramesInv
<1>3. /\ ~fbusy /\ ~fdestroyed /\ farrived + n <= Len(fstream) /\ farrived' = farrived + n
      /\ fbuffer' = fbuffer \o SubSeq(fstream, farrived + 1, farrived + n) /\ fbusy' = TRUE
      /\ fsent' = fsent /\ fstream' = fstream /\ fmessages' = fmessages
      /\ fanswers' = fanswers /\ fdestroyed' = fdestroyed
  BY DEF FReceive
<1>4. n \in Nat /\ n >= 1 /\ farrived \in Nat /\ fstream \in Seq(Units) /\ Len(fstream) \in Nat
  <2>1. n \in Nat /\ n >= 1
    BY FrameParameters
  <2>2. fstream \in Seq(Units)
    BY <1>1 DEF FTypeOK
  <2>3. Len(fstream) \in Nat
    BY <2>2
  <2>4. farrived \in Nat
    BY <1>1, <2>3 DEF FTypeOK
  <2> QED
    BY <2>1, <2>2, <2>3, <2>4
<1>5. fsent # <<>>
  <2>1. ASSUME fsent = <<>> PROVE FALSE
    <3>1. fsent \in Seq(Messages) /\ Len(fsent) = 0
      BY <2>1
    <3>2. FrameStream(fsent)[0] = <<>>
      BY <3>1, Nothing
    <3>3. Len(fstream) = 0
      BY <1>1, <3>1, <3>2 DEF FTypeOK
    <3> QED
      BY <1>3, <1>4, <3>3
  <2> QED
    BY <2>1
<1>6. FTypeOK'
  <2>1. farrived' \in 0 .. Len(fstream')
    BY <1>3, <1>4
  <2> QED
    BY <1>1, <1>3, <1>5, <2>1 DEF FTypeOK
<1> DEFINE from == Len(FrameStream(fsent)[h])
           D == SubSeq(fstream, farrived + 1, farrived + n)
<1>7. Buffered(from)
  BY <1>2 DEF Handled
<1>8. Buffered(from)'
  <2> HIDE DEF D, from
  <2>1. /\ from \in Nat /\ from <= farrived
        /\ fbuffer \in Seq(Units) /\ Len(fbuffer) = farrived - from
        /\ \A i \in 1 .. Len(fbuffer) : fbuffer[i] = fstream[from + i]
    BY <1>7 DEF Buffered
  <2>2. D \in Seq(Units) /\ Len(D) = n /\ \A i \in 1 .. n : D[i] = fstream[farrived + i]
    BY <1>3, <1>4, Piece DEF D
  <2>3. Joins(Units, fbuffer, D)
    BY <2>1, <2>2, Concatenated
  <2>4. fbuffer' = fbuffer \o D
    BY <1>3 DEF D
  <2>5. /\ fbuffer' \in Seq(Units) /\ Len(fbuffer') = Len(fbuffer) + n
        /\ \A i \in 1 .. Len(fbuffer) : fbuffer'[i] = fbuffer[i]
        /\ \A i \in 1 .. n : fbuffer'[Len(fbuffer) + i] = D[i]
    BY <2>2, <2>3, <2>4 DEF Joins
  <2> DEFINE b == Len(fbuffer)
  <2>6. b \in Nat /\ b = farrived - from
    BY <1>4, <2>1
  <2>7. ASSUME NEW i \in 1 .. b + n PROVE fbuffer'[i] = fstream[from + i]
    <3>1. CASE i <= b
      <4>1. i \in 1 .. b
        BY <2>6, <3>1
      <4> QED
        BY <2>1, <2>5, <4>1
    <3>2. CASE i > b
      <4> DEFINE j == i - b
      <4>1. j \in 1 .. n /\ i = b + j /\ from + i = farrived + j
        BY <1>4, <2>1, <2>6, <3>2
      <4> HIDE DEF j, b
      <4>2. fbuffer'[b + j] = D[j]
        BY <2>5, <4>1 DEF b
      <4> QED
        BY <2>2, <4>1, <4>2
    <3> QED
      BY <2>6, <3>1, <3>2
  <2>8. from' = from
    BY <1>3 DEF from
  <2>9. Len(fbuffer') = farrived' - from /\ from <= farrived'
    BY <1>3, <1>4, <2>1, <2>5, <2>6
  <2>10. \A i \in 1 .. Len(fbuffer') : fbuffer'[i] = fstream'[from + i]
    BY <1>3, <2>5, <2>7
  <2> QED
    BY <2>1, <2>5, <2>8, <2>9, <2>10 DEF Buffered
<1>9. Handled(h)'
  <2>1. (fmessages = Texts(TextOf(h)))' /\ AnswersTo(fanswers, AskedOf(h))'
    BY <1>2, <1>3 DEF Handled, TextOf, AskedOf, AnswersTo
  <2> QED
    BY <1>2, <1>3, <1>8, <2>1 DEF Handled
<1> QED
  BY <1>6, <1>9 DEF FramesInv

LEMMA EndStep ==
    ASSUME FramesInv, FramesEnd
    PROVE  FramesInv'
<1>1. FTypeOK
  BY DEF FramesInv
<1>2. PICK h : Handled(h)
  BY DEF FramesInv
<1>3. /\ fbusy /\ FirstFrame = NoFrame /\ fbusy' = FALSE
      /\ fsent' = fsent /\ fstream' = fstream /\ farrived' = farrived /\ fbuffer' = fbuffer
      /\ fmessages' = fmessages /\ fanswers' = fanswers /\ fdestroyed' = fdestroyed
  BY DEF FramesEnd
<1>4. FTypeOK'
  BY <1>1, <1>3 DEF FTypeOK
<1>5. ~fdestroyed
  BY <1>2, <1>3 DEF Handled
<1>6. ASSUME h < Len(fsent) PROVE Len(FrameStream(fsent)[h + 1]) > farrived
  <2>1. h \in Nat /\ Buffered(Len(FrameStream(fsent)[h]))
    BY <1>2 DEF Handled
  <2> QED
    BY <1>1, <1>3, <1>6, <2>1, BufferedFrame
<1>7. Handled(h)'
  <2>1. (fmessages = Texts(TextOf(h)))' /\ AnswersTo(fanswers, AskedOf(h))'
    BY <1>2, <1>3 DEF Handled, TextOf, AskedOf, AnswersTo
  <2>2. Buffered(Len(FrameStream(fsent)[h]))'
    BY <1>2, <1>3 DEF Handled, Buffered
  <2> QED
    BY <1>2, <1>3, <1>5, <1>6, <2>1, <2>2 DEF Handled
<1> QED
  BY <1>4, <1>7 DEF FramesInv

LEMMA TextsAppend ==
    ASSUME NEW T \in Seq(Messages), NEW m \in Messages
    PROVE  Texts(Append(T, m)) = Append(Texts(T), m.payload)
<1> DEFINE U == Append(T, m)
           V == Append(Texts(T), m.payload)
           k == Len(T)
<1>1. /\ k \in Nat /\ Len(U) = k + 1 /\ \A i \in 1 .. k : U[i] = T[i]
      /\ U[k + 1] = m /\ \A i \in 1 .. k : T[i] \in Messages
  OBVIOUS
<1>2. Texts(T) \in Seq(Payloads) /\ Len(Texts(T)) = k /\ m.payload \in Payloads
  <2>1. Texts(T) \in [1 .. k -> Payloads]
    BY <1>1 DEF Texts, Messages
  <2>2. m.payload \in Payloads
    BY DEF Messages
  <2> HIDE DEF k
  <2> QED
    BY <1>1, <2>1, <2>2, AsSequence
<1>3. \A i \in 1 .. k : Texts(T)[i] = T[i].payload
  BY DEF Texts
<1>4. /\ Len(V) = k + 1 /\ \A i \in 1 .. k : V[i] = Texts(T)[i]
      /\ V[k + 1] = m.payload /\ V = [i \in 1 .. k + 1 |-> V[i]]
  BY <1>2
<1>5. Texts(U) = [i \in 1 .. k + 1 |-> U[i].payload]
  BY <1>1 DEF Texts
<1> HIDE DEF U, V, k
<1>6. \A i \in 1 .. k + 1 : U[i].payload = V[i]
  <2>1. \A i \in 1 .. k + 1 : i \in 1 .. k \/ i = k + 1
    BY <1>1
  <2> QED
    BY <1>1, <1>3, <1>4, <2>1
<1> QED
  BY <1>4, <1>5, <1>6 DEF U, V

\* One more answer for one more frame.
LEMMA OneMoreAnswer ==
    ASSUME NEW answers, NEW asked \in Seq(Messages), AnswersTo(answers, asked),
           NEW m \in Messages, NEW a \in Given,
           m.opcode = PingFrame => a.opcode = PongFrame /\ a.payload = m.payload
    PROVE  AnswersTo(Append(answers, a), Append(asked, m))
<1> DEFINE k == Len(asked)
           more == Append(asked, m)
           b == Append(answers, a)
<1>1. /\ k \in Nat /\ Len(more) = k + 1 /\ \A i \in 1 .. k : more[i] = asked[i]
      /\ more[k + 1] = m
  OBVIOUS
<1>2. /\ answers \in Seq(Given) /\ Len(answers) = k
      /\ \A i \in 1 .. k :
            asked[i].opcode = PingFrame =>
               answers[i].opcode = PongFrame /\ answers[i].payload = asked[i].payload
  BY DEF AnswersTo
<1> HIDE DEF k, more
<1>3. /\ b \in Seq(Given) /\ Len(b) = k + 1
      /\ \A i \in 1 .. k : b[i] = answers[i]
      /\ b[k + 1] = a
  BY <1>2
<1> HIDE DEF b
<1>4. \A i \in 1 .. k + 1 : i \in 1 .. k \/ i = k + 1
  BY <1>1
<1>5. ASSUME NEW i \in 1 .. k + 1, more[i].opcode = PingFrame
      PROVE  b[i].opcode = PongFrame /\ b[i].payload = more[i].payload
  BY <1>1, <1>2, <1>3, <1>4, <1>5
<1>6. AnswersTo(b, more)
  BY <1>1, <1>3, <1>5 DEF AnswersTo
<1> QED
  BY <1>6 DEF b, more

LEMMA HandleStep ==
    ASSUME FramesInv, NEW reply \in Replies, HandleFrame(reply)
    PROVE  FramesInv'
<1>1. FTypeOK
  BY DEF FramesInv
<1>2. PICK h : Handled(h)
  BY DEF FramesInv
<1>0. h \in 0 .. Len(fsent) /\ Len(fsent) \in Nat /\ fsent \in Seq(Messages)
  BY <1>1, <1>2 DEF Handled, FTypeOK
<1> DEFINE from == Len(FrameStream(fsent)[h])
           F == BrowserFrame(fsent[h + 1])
           next == Len(FrameStream(fsent)[h + 1])
           m == fsent[h + 1]
<1>3. fbusy /\ ~fdestroyed /\ FirstFrame # NoFrame /\ Buffered(from)
  BY <1>2 DEF Handled, HandleFrame
<1>4. h \in Nat /\ h < Len(fsent)
  <2>1. ASSUME h = Len(fsent) PROVE FALSE
    BY <1>1, <1>3, <2>1, BufferEmpty
  <2> QED
    BY <1>0, <2>1
<1>5. /\ m \in Messages /\ F \in Seq(Units) /\ Len(F) \in Nat /\ from \in Nat
      /\ next = from + Len(F)
  BY <1>0, <1>4, NextFrame
<1>6. /\ FirstFrame = [opcode |-> m.opcode, payload |-> m.payload, end |-> Len(F)]
      /\ Len(F) <= Len(fbuffer)
  BY <1>1, <1>3, <1>4, BufferedFrame
<1>7. /\ m.opcode \in Nat /\ m.payload \in Payloads /\ reply \in Payloads
  BY <1>5, FrameParameters DEF Messages
<1> HIDE DEF from, F, next, m
<1>8. /\ fbuffer' = SubSeq(fbuffer, Len(F) + 1, Len(fbuffer))
      /\ fdestroyed' = (m.opcode = CloseFrame) /\ fbusy' = ~fdestroyed'
      /\ fmessages' = IF m.opcode = TextFrame THEN Append(fmessages, m.payload) ELSE fmessages
      /\ fanswers' = CASE m.opcode = PingFrame -> Append(fanswers, Answer(PongFrame, m.payload))
                       [] m.opcode = TextFrame -> Append(fanswers, Answer(TextFrame, reply))
                       [] OTHER -> fanswers
      /\ fsent' = fsent /\ fstream' = fstream /\ farrived' = farrived
  BY <1>6 DEF HandleFrame
<1>9. FTypeOK'
  <2>1. fsent' # <<>>
    BY <1>0, <1>4, <1>8
  <2>2. fdestroyed' \in BOOLEAN /\ fbusy' \in BOOLEAN
    BY <1>8
  <2> QED
    BY <1>1, <1>8, <2>1, <2>2 DEF FTypeOK
<1>10. Buffered(next)'
  <2>1. /\ from \in Nat /\ from <= farrived
        /\ fbuffer \in Seq(Units) /\ Len(fbuffer) = farrived - from
        /\ \A i \in 1 .. Len(fbuffer) : fbuffer[i] = fstream[from + i]
    BY <1>3 DEF Buffered
  <2>2. farrived \in Nat
    <3>1. fstream \in Seq(Units) /\ farrived \in 0 .. Len(fstream)
      BY <1>1 DEF FTypeOK
    <3> QED
      BY <3>1
  <2> DEFINE l == Len(F)
             b == Len(fbuffer)
             r == b - l
  <2>3. l \in Nat /\ b \in Nat /\ r \in Nat /\ l + r = b
    BY <1>5, <1>6, <2>1
  <2> HIDE DEF l
  <2>4. fbuffer' = SubSeq(fbuffer, l + 1, b)
    BY <1>8 DEF l
  <2> HIDE DEF r
  <2>5. fbuffer' = SubSeq(fbuffer, l + 1, l + r) /\ l + r <= Len(fbuffer)
    BY <2>3, <2>4
  <2>6. /\ fbuffer' \in Seq(Units) /\ Len(fbuffer') = r
        /\ \A i \in 1 .. r : fbuffer'[i] = fbuffer[l + i]
    <3> DEFINE D == SubSeq(fbuffer, l + 1, l + r)
    <3>1. D \in Seq(Units) /\ Len(D) = r /\ \A i \in 1 .. r : D[i] = fbuffer[l + i]
      BY <2>1, <2>3, <2>5, Piece
    <3> HIDE DEF D
    <3>2. fbuffer' = D
      BY <2>5 DEF D
    <3> QED
      BY <3>1, <3>2
  <2>7. next \in Nat /\ next <= farrived /\ r = farrived - next
    BY <1>5, <2>1, <2>2, <2>3 DEF l
  <2>8. ASSUME NEW i \in 1 .. r PROVE fbuffer'[i] = fstream[next + i]
    <3>1. l + i \in 1 .. Len(fbuffer) /\ from + (l + i) = next + i
      BY <1>5, <2>3 DEF l
    <3>2. fbuffer[l + i] = fstream[from + (l + i)]
      BY <2>1, <3>1
    <3> QED
      BY <2>6, <3>1, <3>2
  <2>9. next' = next
    BY <1>8 DEF next
  <2> HIDE DEF next
  <2> QED
    BY <1>8, <2>6, <2>7, <2>8, <2>9 DEF Buffered
<1>11. /\ h + 1 \in 1 .. Len(fsent) /\ (h + 1) - 1 = h /\ h + 1 \in 0 .. Len(fsent)
       /\ h \in 0 .. Len(fsent)
  BY <1>0, <1>4
<1>12. ASSUME NEW i \in 1 .. h + 1
       PROVE  fsent[i].opcode = CloseFrame <=> fdestroyed' /\ i = h + 1
  <2>1. CASE i = h + 1
    BY <1>8, <2>1 DEF m
  <2>2. CASE i # h + 1
    <3>1. i \in 1 .. h
      BY <1>4, <2>2
    <3> QED
      BY <1>2, <1>3, <2>2, <3>1 DEF Handled
  <2> QED
    BY <2>1, <2>2
<1>13. (fmessages = Texts(TextOf(h + 1)))'
  <2> DEFINE T == TextOf(h)
  <2>1. Selected(fsent, {TextFrame})[h + 1] = Pick(T, m, {TextFrame}) /\ T \in Seq(Messages)
    BY <1>0, <1>11, SelectedSteps DEF TextOf, m
  <2>2. fmessages = Texts(T)
    BY <1>2 DEF Handled
  <2> HIDE DEF T
  <2>3. CASE m.opcode = TextFrame
    <3>1. fmessages' = Append(Texts(T), m.payload)
      BY <1>8, <2>2, <2>3
    <3>2. Selected(fsent, {TextFrame})[h + 1] = Append(T, m)
      BY <2>1, <2>3 DEF Pick
    <3>3. Texts(Append(T, m)) = Append(Texts(T), m.payload)
      BY <1>5, <2>1, TextsAppend
    <3> QED
      BY <1>8, <3>1, <3>2, <3>3 DEF TextOf
  <2>4. CASE m.opcode # TextFrame
    BY <1>8, <2>1, <2>2, <2>4 DEF Pick, TextOf
  <2> QED
    BY <2>3, <2>4
<1>14. AnswersTo(fanswers, AskedOf(h + 1))'
  <2> DEFINE A == AskedOf(h)
             B == Selected(fsent, {TextFrame, PingFrame})[h + 1]
  <2>1. B = Pick(A, m, {TextFrame, PingFrame}) /\ A \in Seq(Messages)
    BY <1>0, <1>11, SelectedSteps DEF AskedOf, m
  <2>2. AnswersTo(fanswers, A)
    BY <1>2 DEF Handled
  <2>3. AskedOf(h + 1)' = B
    BY <1>8 DEF AskedOf
  <2> HIDE DEF A, B
  <2>4. AnswersTo(fanswers', B)
    <3>1. CASE m.opcode = PingFrame
      <4> DEFINE a == Answer(PongFrame, m.payload)
      <4>1. a \in Given /\ a.opcode = PongFrame /\ a.payload = m.payload
        BY <1>7 DEF Given, Answer, PongFrame
      <4>2. m.opcode # TextFrame
        BY <3>1 DEF TextFrame, PingFrame
      <4>3. fanswers' = Append(fanswers, a)
        BY <1>8, <3>1, <4>2
      <4>4. B = Append(A, m)
        BY <2>1, <3>1 DEF Pick
      <4> HIDE DEF a
      <4>5. AnswersTo(Append(fanswers, a), Append(A, m))
        BY <1>5, <2>1, <2>2, <4>1, OneMoreAnswer
      <4> QED
        BY <4>3, <4>4, <4>5
    <3>2. CASE m.opcode = TextFrame
      <4> DEFINE a == Answer(TextFrame, reply)
      <4>1. a \in Given /\ m.opcode # PingFrame
        BY <1>7, <3>2 DEF Given, TextFrame, PingFrame
      <4>2. fanswers' = Append(fanswers, a)
        BY <1>8, <3>2, <4>1
      <4>3. B = Append(A, m)
        BY <2>1, <3>2 DEF Pick
      <4> HIDE DEF a
      <4>4. AnswersTo(Append(fanswers, a), Append(A, m))
        BY <1>5, <2>1, <2>2, <4>1, OneMoreAnswer
      <4> QED
        BY <4>2, <4>3, <4>4
    <3>3. CASE m.opcode # PingFrame /\ m.opcode # TextFrame
      <4>1. fanswers' = fanswers /\ B = A
        BY <1>8, <2>1, <3>3 DEF Pick
      <4> QED
        BY <2>2, <4>1
    <3> QED
      BY <3>1, <3>2, <3>3
  <2> QED
    BY <2>3, <2>4
<1>15. Handled(h + 1)'
  <2>1. Buffered(Len(FrameStream(fsent)[h + 1]))'
    BY <1>10 DEF next
  <2>2. (\A i \in 1 .. h + 1 : fsent[i].opcode = CloseFrame <=> fdestroyed /\ i = h + 1)'
    BY <1>8, <1>12
  <2>3. h + 1 \in 0 .. Len(fsent') /\ h + 1 > 0
    BY <1>8, <1>11, <1>4
  <2> QED
    BY <1>8, <1>13, <1>14, <2>1, <2>2, <2>3 DEF Handled
<1> QED
  BY <1>9, <1>15 DEF FramesInv

LEMMA FramesStep == FramesInv /\ [FNext]_fvars => FramesInv'
<1> SUFFICES ASSUME FramesInv, [FNext]_fvars PROVE FramesInv'
  OBVIOUS
<1>1. ASSUME NEW frames \in Dialogues, FOpen(frames) PROVE FramesInv'
  BY <1>1, OpenStep
<1>2. ASSUME NEW n \in 1 .. FChunk, FReceive(n) PROVE FramesInv'
  BY <1>2, ReceiveStep
<1>3. ASSUME NEW reply \in Replies, HandleFrame(reply) PROVE FramesInv'
  BY <1>3, HandleStep
<1>4. CASE FramesEnd
  BY <1>4, EndStep
<1>5. CASE FClose
  BY <1>5, CloseStep
<1>6. CASE UNCHANGED fvars
  <2>1. /\ fsent' = fsent /\ fstream' = fstream /\ farrived' = farrived /\ fbuffer' = fbuffer
        /\ fbusy' = fbusy /\ fmessages' = fmessages /\ fanswers' = fanswers
        /\ fdestroyed' = fdestroyed
    BY <1>6 DEF fvars
  <2>2. FTypeOK'
    BY <2>1 DEF FramesInv, FTypeOK
  <2>3. PICK h : Handled(h)
    BY DEF FramesInv
  <2>4. (fmessages = Texts(TextOf(h)))' /\ AnswersTo(fanswers, AskedOf(h))'
    BY <2>1, <2>3 DEF Handled, TextOf, AskedOf, AnswersTo
  <2>5. Buffered(Len(FrameStream(fsent)[h]))'
    BY <2>1, <2>3 DEF Handled, Buffered
  <2>6. Handled(h)'
    BY <2>1, <2>3, <2>4, <2>5 DEF Handled
  <2> QED
    BY <2>2, <2>6 DEF FramesInv
<1> QED
  BY <1>1, <1>2, <1>3, <1>4, <1>5, <1>6 DEF FNext

-----------------------------------------------------------------------------
(* The two properties. *)

\* What ArrivedFrames selects from is what the bridge has dealt with.
LEMMA AllHandled ==
    ASSUME FTypeOK, NEW h, Handled(h), ~fbusy, NEW ops
    PROVE  ArrivedFrames(ops) = Selected(fsent, ops)[h]
<1> DEFINE S == FrameStream(fsent)
           k == Len(fsent)
           C == {n \in 0 .. k : Len(S[n]) <= farrived}
           c == Max(C)
           closes == {i \in 1 .. c : fsent[i].opcode = CloseFrame}
           upTo == IF closes = {} THEN c ELSE Min(closes)
<1>1. fsent \in Seq(Messages) /\ k \in Nat /\ h \in 0 .. k /\ Len(S[h]) <= farrived
      /\ farrived \in Nat
  <2>1. fstream \in Seq(Units) /\ farrived \in 0 .. Len(fstream) /\ fsent \in Seq(Messages)
    BY DEF FTypeOK
  <2> QED
    BY <2>1 DEF Handled, Buffered
<1>2. ArrivedFrames(ops) = Selected(fsent, ops)[upTo]
  BY DEF ArrivedFrames
<1>3. \A n \in 0 .. k : S[n] \in Seq(Units) /\ Len(S[n]) \in Nat
  <2>1. \A n \in 0 .. k : S[n] \in Seq(Units)
    BY <1>1, FramesChain DEF IsChain
  <2> HIDE DEF S
  <2> QED
    BY <2>1
<1>4. h \in C /\ C \in SUBSET (0 .. k)
  BY <1>1
<1>5. c \in C /\ \A y \in C : c >= y
  <2> HIDE DEF C, k
  <2> QED
    BY <1>1, <1>4, Greatest
<1>6. c \in 0 .. k /\ c >= h /\ Len(S[c]) <= farrived
  <2> HIDE DEF c
  <2> QED
    BY <1>4, <1>5
<1>7. \A i \in 1 .. h : fsent[i].opcode = CloseFrame <=> fdestroyed /\ i = h
  BY DEF Handled
<1> HIDE DEF c
<1>8. CASE fdestroyed
  <2>1. h \in 1 .. c
    BY <1>1, <1>6, <1>8 DEF Handled
  <2>2. h \in closes
    BY <1>7, <1>8, <2>1
  <2>3. \A i \in closes : h <= i
    <3>1. ASSUME NEW i \in closes, ~(h <= i) PROVE FALSE
      <4>1. i \in 1 .. h /\ i # h /\ fsent[i].opcode = CloseFrame
        BY <1>1, <1>6, <3>1
      <4> QED
        BY <1>7, <4>1
    <3> QED
      BY <3>1
  <2>4. closes \in SUBSET Nat /\ closes # {}
    BY <1>6, <2>2
  <2> HIDE DEF closes
  <2>5. Min(closes) = h
    <3>1. \A x \in closes : (\A y \in closes : x <= y) => x = h
      BY <1>1, <2>2, <2>3, <2>4
    <3>2. \E x \in closes : \A y \in closes : x <= y
      BY <2>2, <2>3
    <3> QED
      BY <3>1, <3>2 DEF Min
  <2> QED
    BY <1>2, <2>4, <2>5
<1>9. CASE ~fdestroyed
  <2>1. c = h
    <3>1. ASSUME c # h PROVE FALSE
      <4>1. h < k /\ h + 1 \in 0 .. k /\ c >= h + 1
        BY <1>1, <1>6, <3>1
      <4>2. Len(S[h + 1]) > farrived
        BY <1>9, <4>1 DEF Handled
      <4>3. Len(S[c]) >= Len(S[h + 1])
        <5>1. IsChain(Units, S, BrowserFrames(fsent), k)
          BY <1>1, FramesChain
        <5>2. Begins(S[h + 1], S[c])
          <6> HIDE DEF S, k
          <6> QED
            BY <1>1, <1>6, <4>1, <5>1, ChainGrows
        <5>3. Len(S[h + 1]) \in Nat /\ Len(S[c]) \in Nat
          BY <1>3, <1>6, <4>1
        <5> HIDE DEF S
        <5> QED
          BY <5>2, <5>3 DEF Begins
      <4>4. Len(S[c]) \in Nat /\ Len(S[h + 1]) \in Nat
        BY <1>3, <1>6, <4>1
      <4> HIDE DEF S
      <4> QED
        BY <1>1, <1>6, <4>2, <4>3, <4>4
    <3> QED
      BY <3>1
  <2>2. closes = {}
    BY <1>7, <1>9, <2>1
  <2> QED
    BY <1>2, <2>1, <2>2
<1> QED
  BY <1>8, <1>9

LEMMA InvTexts == FramesInv => TextsAsSent
<1> SUFFICES ASSUME FramesInv, ~fbusy PROVE TextsAsSent
  BY DEF TextsAsSent
<1>1. FTypeOK
  BY DEF FramesInv
<1>2. PICK h : Handled(h)
  BY DEF FramesInv
<1>3. ArrivedFrames({TextFrame}) = TextOf(h)
  BY <1>1, <1>2, AllHandled DEF TextOf
<1>4. fmessages = Texts(TextOf(h))
  BY <1>2 DEF Handled
<1> QED
  BY <1>3, <1>4 DEF TextsAsSent, Texts

LEMMA InvAnswers == FramesInv => AnswersReadBack
<1> SUFFICES ASSUME FramesInv, ~fbusy PROVE AnswersReadBack
  BY DEF AnswersReadBack
<1>1. FTypeOK
  BY DEF FramesInv
<1>2. PICK h : Handled(h)
  BY DEF FramesInv
<1> DEFINE asked == ArrivedFrames({TextFrame, PingFrame})
<1>3. asked = AskedOf(h)
  BY <1>1, <1>2, AllHandled DEF AskedOf
<1>4. AnswersTo(fanswers, asked)
  BY <1>2, <1>3 DEF Handled
<1> HIDE DEF asked
<1>5. /\ fanswers \in Seq(Given) /\ Len(fanswers) = Len(asked)
      /\ \A i \in 1 .. Len(asked) :
            asked[i].opcode = PingFrame =>
               fanswers[i].opcode = PongFrame /\ fanswers[i].payload = asked[i].payload
  BY <1>4 DEF AnswersTo
<1>6. ASSUME NEW a \in Given
      PROVE  /\ DecodeFrame(a.frame).opcode = a.opcode /\ DecodeFrame(a.frame).payload = a.payload
             /\ DecodeFrame(a.frame).end = Len(a.frame)
  <2>1. PICK op \in Nat, p \in Payloads : a = Answer(op, p)
    BY DEF Given
  <2>2. a.opcode = op /\ a.payload = p /\ a.frame = SendFrame(op, p)
    BY <2>1 DEF Answer
  <2>3. DecodeFrame(SendFrame(op, p)) = [opcode |-> op, payload |-> p, end |-> Len(SendFrame(op, p))]
    BY SentDecoded
  <2> QED
    BY <2>2, <2>3
<1>7. \A i \in 1 .. Len(asked) : fanswers[i] \in Given
  BY <1>5
<1> QED
  BY <1>5, <1>6, <1>7 DEF AnswersReadBack, asked

\* However the bytes arrive, between two steps of _onWsData the connection is
\* where some number of complete frames have brought it: their texts handled,
\* their answers written, and the bytes after them in client.buffer
\* (bridge.js:149-173).
THEOREM FramesInvariant == FSpec => []FramesInv
<1> QED
  BY InitFrames, FramesStep, PTL DEF FSpec

\* For any mask, any payloads of less than 2^64 bytes and any chunks, the texts
\* _onWsData hands on are those of the frames that have arrived, unmasked, each
\* once and in order, and none after a close frame (bridge.js:149-214).
THEOREM TextsArriveAsSent == FSpec => []TextsAsSent
<1> QED
  BY FramesInvariant, InvTexts, PTL

\* Each text and each ping has one answer, in the order they came, and what
\* _sendFrame wrote is read back complete, in all three forms of the length
\* (bridge.js:161-171, 216-242).
THEOREM AnswersAreReadBack == FSpec => []AnswersReadBack
<1> QED
  BY FramesInvariant, InvAnswers, PTL
=============================================================================
