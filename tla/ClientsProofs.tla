---------------------------- MODULE ClientsProofs --------------------------
(***************************************************************************)
(* Theorems about the clients: who hears what is published, and what the   *)
(* page of the dashboard shows.                                            *)
(*                                                                         *)
(* About PubSub, for any number of connections, channels and patterns: the *)
(* three invariants the run checks are inductive together.  A connection   *)
(* that closes leaves the topics of its own sets, and NoStaleSubscriber is *)
(* what says that there are no others.                                     *)
(*                                                                         *)
(* About Dashboard, for any number of sockets and requests: what makes the *)
(* theorems true is that message ids are never used twice, and that the    *)
(* page has one socket at a time unless it overlaps two.                   *)
(***************************************************************************)
EXTENDS PubSub, Dashboard, TLAPS

-----------------------------------------------------------------------------
(* Publish/subscribe. *)

IInv == TypeOK /\ SubscribersKnown /\ NoStaleSubscriber

LEMMA InitInv == Init => IInv
  BY DEF Init, IInv, TypeOK, SubscribersKnown, NoStaleSubscriber, Topics

\* What c leaves on both sides keeps the two sides in agreement.
LEMMA LeaveKeeps ==
    ASSUME IInv, NEW c \in Clients, NEW T \in SUBSET Topics, Leave(c, T)
    PROVE  /\ broker' \in [Topics -> SUBSET Clients]
           /\ subs' \in [Clients -> SUBSET Topics]
           /\ SubscribersKnown'
           /\ \A e \in Clients : subs'[e] = IF e = c THEN subs[c] \ T ELSE subs[e]
           /\ \A t \in Topics :
                 broker'[t] = IF t \in T THEN broker[t] \ {c} ELSE broker[t]
           /\ delivered' = {}
<1>1. /\ broker \in [Topics -> SUBSET Clients]
      /\ subs \in [Clients -> SUBSET Topics]
  BY DEF IInv, TypeOK
<1>2. \A e \in Clients : subs'[e] = IF e = c THEN subs[c] \ T ELSE subs[e]
  BY <1>1 DEF Leave
<1>3. \A t \in Topics : broker'[t] = IF t \in T THEN broker[t] \ {c} ELSE broker[t]
  BY DEF Leave
<1>4. broker' \in [Topics -> SUBSET Clients] /\ subs' \in [Clients -> SUBSET Topics]
  BY <1>1 DEF Leave
<1>5. SubscribersKnown'
  BY <1>1, <1>2, <1>3, <1>4 DEF SubscribersKnown, IInv
<1> QED
  BY <1>2, <1>3, <1>4, <1>5 DEF Leave

LEMMA ConnectionSteps ==
    ASSUME IInv, NEW c \in Clients, Open(c) \/ Quit(c) \/ Reset(c)
    PROVE  IInv'
<1>1. CASE Open(c)
  BY <1>1 DEF Open, IInv, TypeOK, SubscribersKnown, NoStaleSubscriber
<1>2. CASE Quit(c)
  BY <1>2 DEF Quit, Served, IInv, TypeOK, SubscribersKnown, NoStaleSubscriber
<1>3. CASE Reset(c)
  <2>1. \A e \in Clients : subs'[e] = IF e = c THEN subs[c] \ Channels ELSE subs[e]
    BY <1>3 DEF Reset, IInv, TypeOK
  <2>2. TypeOK'
    BY <1>3, <2>1 DEF Reset, Served, IInv, TypeOK
  <2> QED
    BY <1>3, <2>1, <2>2 DEF Reset, IInv, TypeOK, SubscribersKnown, NoStaleSubscriber
<1> QED
  BY <1>1, <1>2, <1>3

LEMMA SubscribeStep ==
    ASSUME IInv, NEW c \in Clients, NEW t \in Topics, Subscribe(c, t)
    PROVE  IInv'
<1>1. \A e \in Clients : subs'[e] = IF e = c THEN subs[c] \cup {t} ELSE subs[e]
  BY DEF Subscribe, IInv, TypeOK
<1>2. \A u \in Topics : broker'[u] = IF u = t THEN broker[t] \cup {c} ELSE broker[u]
  BY DEF Subscribe, IInv, TypeOK
<1>3. TypeOK'
  BY <1>1 DEF Subscribe, Served, IInv, TypeOK
<1>4. SubscribersKnown'
  BY <1>1, <1>2, <1>3 DEF IInv, TypeOK, SubscribersKnown
<1>5. NoStaleSubscriber'
  BY <1>1, <1>2 DEF Subscribe, Served, IInv, NoStaleSubscriber
<1> QED
  BY <1>3, <1>4, <1>5 DEF IInv

\* Every way of leaving topics: one, all of a kind, or all for good.
LEMMA LeaveSteps ==
    ASSUME IInv, NEW c \in Clients, NEW T \in SUBSET Topics, Leave(c, T),
           UNCHANGED <<up, reset>>, Served(c),
           \/ UNCHANGED status
           \/ T = subs[c] /\ status' = [status EXCEPT ![c] = "gone"]
    PROVE  IInv'
<1>1. /\ broker' \in [Topics -> SUBSET Clients] /\ subs' \in [Clients -> SUBSET Topics]
      /\ SubscribersKnown' /\ delivered' = {}
      /\ \A e \in Clients : subs'[e] = IF e = c THEN subs[c] \ T ELSE subs[e]
      /\ \A t \in Topics : broker'[t] = IF t \in T THEN broker[t] \ {c} ELSE broker[t]
  BY LeaveKeeps
<1>2. /\ status' \in [Clients -> {"new", "open", "ending", "gone"}]
      /\ \A e \in Clients : status'[e] = status[e] \/ (e = c /\ T = subs[c])
  BY DEF IInv, TypeOK
<1>3. ASSUME NEW e \in Clients \ Bridged, status'[e] \in {"new", "gone"}
      PROVE  subs'[e] = {}
  BY <1>1, <1>2, <1>3 DEF Served, IInv, TypeOK
<1>4. TypeOK'
  BY <1>1, <1>2, <1>3 DEF IInv, TypeOK
<1>5. NoStaleSubscriber'
  BY <1>1, <1>2 DEF IInv, NoStaleSubscriber
<1> QED
  BY <1>1, <1>4, <1>5 DEF IInv

LEMMA CloseStep ==
    ASSUME IInv, NEW c \in Clients, Close(c)
    PROVE  IInv'
<1>1. CASE c \in Bridged
  BY <1>1 DEF Close, IInv, TypeOK, SubscribersKnown, NoStaleSubscriber
<1>2. CASE c \notin Bridged
  BY <1>2, LeaveSteps DEF Close, IInv, TypeOK
<1> QED
  BY <1>1, <1>2

LEMMA PublishSteps ==
    ASSUME IInv, NEW c \in Clients, NEW ch \in Channels,
           Publish(c, ch) \/ PublishThrows(c, ch)
    PROVE  IInv'
<1>1. PatternsOf(ch) \subseteq Topics /\ ch \in Topics
  BY DEF PatternsOf, Topics
<1>2. delivered' \subseteq Clients \X Topics
  <2>1. CASE Publish(c, ch)
    BY <1>1, <2>1 DEF Publish, Receives, Reached
  <2>2. CASE PublishThrows(c, ch)
    BY <1>1, <2>2 DEF PublishThrows, Receives, Reached
  <2> QED
    BY <2>1, <2>2
<1>3. up' \in BOOLEAN /\ UNCHANGED <<status, broker, subs, reset>>
  BY DEF Publish, PublishThrows, IInv, TypeOK
<1> QED
  BY <1>2, <1>3 DEF IInv, TypeOK, SubscribersKnown, NoStaleSubscriber

LEMMA StepInv == IInv /\ [Next]_vars => IInv'
<1> SUFFICES ASSUME IInv, [Next]_vars
             PROVE  IInv'
  OBVIOUS
<1>1. CASE UNCHANGED vars
  BY <1>1 DEF vars, IInv, TypeOK, SubscribersKnown, NoStaleSubscriber
<1>2. ASSUME NEW c \in Clients,
             \/ Open(c) \/ Quit(c) \/ Reset(c) \/ Close(c)
             \/ \E t \in Topics : Subscribe(c, t) \/ Unsubscribe(c, t)
             \/ UnsubscribeAll(c, Channels) \/ UnsubscribeAll(c, Patterns)
             \/ \E ch \in Channels : Publish(c, ch) \/ PublishThrows(c, ch)
      PROVE  IInv'
  <2>1. CASE Open(c) \/ Quit(c) \/ Reset(c)
    BY <2>1, ConnectionSteps
  <2>2. CASE Close(c)
    BY <2>2, CloseStep
  <2>3. CASE \E t \in Topics : Subscribe(c, t)
    BY <2>3, SubscribeStep
  <2>4. CASE \E t \in Topics : Unsubscribe(c, t)
    BY <2>4, LeaveSteps DEF Unsubscribe
  <2>5. ASSUME NEW K \in {Channels, Patterns}, UnsubscribeAll(c, K)
        PROVE  IInv'
    BY <2>5, LeaveSteps DEF UnsubscribeAll, Topics
  <2>6. CASE \E ch \in Channels : Publish(c, ch) \/ PublishThrows(c, ch)
    BY <2>6, PublishSteps
  <2> QED
    BY <1>2, <2>1, <2>2, <2>3, <2>4, <2>5, <2>6
<1> QED
  BY <1>1, <1>2 DEF Next

LEMMA Invariance == Spec => []IInv
  BY InitInv, StepInv, PTL DEF Spec

\* The broker's maps and the connections' own sets keep their types, and a
\* TCP connection that is gone is subscribed to nothing.
THEOREM BrokerTyped == Spec => []TypeOK
<1>1. IInv => TypeOK
  BY DEF IInv
<1> QED
  BY <1>1, Invariance, PTL

\* No connection loses a subscription it believes it has.
THEOREM NoSubscriptionLost == Spec => []SubscribersKnown
<1>1. IInv => SubscribersKnown
  BY DEF IInv
<1> QED
  BY <1>1, Invariance, PTL

\* Only RESET and the bridge leave subscribers behind.
THEOREM NoSubscriberLeftBehind == Spec => []NoStaleSubscriber
<1>1. IInv => NoStaleSubscriber
  BY DEF IInv
<1> QED
  BY <1>1, Invariance, PTL

\* A message reaches the subscribers of its channel and of the patterns that
\* match it, and nobody else.
THEOREM MessagesReachSubscribers == Spec => PublishReachesSubscribers
<1> DEFINE Delivers ==
        \A c \in Clients, ch \in Channels, e \in Clients \ (Bridged \cup reset), t \in Topics :
            Publish(c, ch) =>
                (<<e, t>> \in delivered'
                 <=> /\ status[e] = "open" /\ t \in subs[e]
                     /\ t = ch \/ <<t, ch>> \in Matches)
<1>1. ASSUME IInv
      PROVE  Delivers
  <2> SUFFICES ASSUME NEW c \in Clients, NEW ch \in Channels,
                      NEW e \in Clients \ (Bridged \cup reset), NEW t \in Topics,
                      Publish(c, ch)
               PROVE  <<e, t>> \in delivered'
                      <=> /\ status[e] = "open" /\ t \in subs[e]
                          /\ t = ch \/ <<t, ch>> \in Matches
    OBVIOUS
  <2>1. e \in broker[t] <=> t \in subs[e]
    BY <1>1 DEF IInv, TypeOK, SubscribersKnown, NoStaleSubscriber
  <2>2. t \in {ch} \cup PatternsOf(ch) <=> t = ch \/ <<t, ch>> \in Matches
    BY PubSubParameters DEF PatternsOf
  <2>3. <<e, t>> \in delivered'
        <=> status[e] = "open" /\ t \in {ch} \cup PatternsOf(ch) /\ e \in broker[t]
    BY DEF Publish, Reached, Receives
  <2> QED
    BY <2>1, <2>2, <2>3
<1>2. IInv => [Delivers]_vars
  BY <1>1
<1> QED
  BY <1>2, Invariance, PTL DEF PublishReachesSubscribers

-----------------------------------------------------------------------------
(* The page and its requests. *)

Names == Typed \cup {"select"}
Request == [id : Nat, name : Names, db : Dbs]
States == {"unused", "connecting", "open", "closing", "closed"}
Queues == [Sockets -> Seq(Request)]

DTypeOK ==
    /\ dws \in Sockets \cup {NoSocket} /\ dstate \in [Sockets -> States]
    /\ dshown \in BOOLEAN /\ dstats \in BOOLEAN /\ dpolls \in Int
    /\ doverlapped \in BOOLEAN
    /\ dmsgId \in Nat /\ dpending \in SUBSET Request
    /\ dup \in Queues /\ ddown \in Queues
    /\ dselected \in Dbs /\ dserverDb \in [Sockets -> Dbs]
    /\ dserverTx \in [Sockets -> Dbs \cup {NoQueue}]
    /\ dtold \in Sockets \cup {NoSocket}

-----------------------------------------------------------------------------
(* Queues of requests and replies; a reply to no command has the id 0. *)

In(q) == {m \in {q[i] : i \in 1 .. Len(q)} : m.id # 0}
OneEach(q) == \A i, j \in 1 .. Len(q) : q[i].id = q[j].id /\ q[i].id # 0 => i = j
Apart(A, B) == \A m \in A, n \in B : m.id # n.id

\* A queue holds requests.
LEMMA InRequests ==
    ASSUME NEW q \in Seq(Request)
    PROVE  \A m \in In(q) : m \in Request /\ m.id \in Nat
<1>1. \A i \in 1 .. Len(q) : q[i] \in Request
  OBVIOUS
<1> QED
  BY <1>1 DEF In, Request

\* A request joins a queue.
LEMMA Joined ==
    ASSUME NEW q \in Seq(Request), NEW r \in Request
    PROVE  /\ Append(q, r) \in Seq(Request)
           /\ In(Append(q, r)) = In(q) \cup {m \in {r} : m.id # 0}
           /\ OneEach(q) /\ Apart(In(q), {r}) => OneEach(Append(q, r))
<1>1. /\ Append(q, r) \in Seq(Request) /\ Len(Append(q, r)) = Len(q) + 1
      /\ \A i \in 1 .. Len(q) : Append(q, r)[i] = q[i]
      /\ Append(q, r)[Len(q) + 1] = r
      /\ Len(q) \in Nat
  OBVIOUS
<1>2. In(Append(q, r)) = In(q) \cup {m \in {r} : m.id # 0}
  BY <1>1 DEF In
<1>3. ASSUME OneEach(q), Apart(In(q), {r})
      PROVE  OneEach(Append(q, r))
  <2>1. \A i \in 1 .. Len(q) : q[i].id # 0 => q[i].id # r.id
    BY <1>3 DEF Apart, In
  <2> QED
    BY <1>1, <1>3, <2>1 DEF OneEach
<1> QED
  BY <1>1, <1>2, <1>3

\* The first request leaves a queue.
LEMMA Taken ==
    ASSUME NEW q \in Seq(Request), q # <<>>
    PROVE  /\ Head(q) \in Request /\ Tail(q) \in Seq(Request)
           /\ In(q) = In(Tail(q)) \cup {m \in {Head(q)} : m.id # 0}
           /\ OneEach(q) => OneEach(Tail(q)) /\ Apart(In(Tail(q)), {Head(q)})
<1>1. /\ Head(q) = q[1] /\ Len(q) \in Nat /\ Len(q) >= 1
      /\ Tail(q) \in Seq(Request) /\ Len(Tail(q)) = Len(q) - 1
      /\ \A i \in 1 .. Len(q) - 1 : Tail(q)[i] = q[i + 1]
      /\ q[1] \in Request
  OBVIOUS
<1>2. In(q) = In(Tail(q)) \cup {m \in {Head(q)} : m.id # 0}
  <2>1. \A i \in 1 .. Len(q) : i = 1 \/ (i - 1 \in 1 .. Len(q) - 1 /\ Tail(q)[i - 1] = q[i])
    BY <1>1
  <2>2. \A i \in 1 .. Len(q) - 1 : i + 1 \in 1 .. Len(q) /\ Tail(q)[i] = q[i + 1]
    BY <1>1
  <2>3. ASSUME NEW m \in In(q)
        PROVE  m \in In(Tail(q)) \/ (m = Head(q) /\ m.id # 0)
    <3>1. PICK i \in 1 .. Len(q) : m = q[i] /\ m.id # 0
      BY DEF In
    <3> QED
      BY <1>1, <2>1, <3>1 DEF In
  <2>4. In(Tail(q)) \subseteq In(q) /\ (Head(q).id # 0 => Head(q) \in In(q))
    BY <1>1, <2>2 DEF In
  <2> QED
    BY <2>3, <2>4
<1>3. ASSUME OneEach(q)
      PROVE  OneEach(Tail(q)) /\ Apart(In(Tail(q)), {Head(q)})
  BY <1>1, <1>3 DEF OneEach, Apart, In
<1> QED
  BY <1>1, <1>2, <1>3

-----------------------------------------------------------------------------
(* The types. *)

\* What a command leaves of the requests has its type.
LEMMA SendType ==
    ASSUME DTypeOK, NEW name \in Names, NEW db \in Dbs,
           NEW state, NEW done, SendCommand(name, db, state, done)
    PROVE  dmsgId' \in Nat /\ dpending' \in SUBSET Request /\ dup' \in Queues
<1> DEFINE request == [id |-> dmsgId + 1, name |-> name, db |-> db]
<1>1. CASE dws = NoSocket \/ state[dws] # "open"
  BY <1>1 DEF SendCommand, DTypeOK
<1>2. CASE ~(dws = NoSocket \/ state[dws] # "open")
  <2>1. /\ dmsgId' = dmsgId + 1
        /\ dpending' = (dpending \cup {request}) \ done
        /\ dup' = [dup EXCEPT ![dws] = Append(@, request)]
    BY <1>2 DEF SendCommand
  <2>2. request \in Request /\ dws \in Sockets
    BY <1>2 DEF DTypeOK, Request
  <2>3. Append(dup[dws], request) \in Seq(Request)
    BY <2>2, Joined DEF DTypeOK, Queues
  <2> QED
    BY <2>1, <2>2, <2>3 DEF DTypeOK, Queues
<1> QED
  BY <1>1, <1>2

\* The variables of the page and of the bridge begin in their types.
LEMMA DTypeInit == DInit => DTypeOK
<1> SUFFICES ASSUME DInit
             PROVE  DTypeOK
  OBVIOUS
<1>1. <<>> \in Seq(Request)
  OBVIOUS
<1>2. dup \in Queues /\ ddown \in Queues
  BY <1>1 DEF DInit, Queues
<1>3. /\ dselected \in Dbs /\ dserverDb \in [Sockets -> Dbs] /\ dstate \in [Sockets -> States]
      /\ dserverTx \in [Sockets -> Dbs \cup {NoQueue}] /\ dtold \in Sockets \cup {NoSocket}
  BY DashboardParameters DEF DInit, States
<1>4. dshown \in BOOLEAN /\ dstats \in BOOLEAN /\ doverlapped \in BOOLEAN
  BY DEF DInit
<1>5. dws \in Sockets \cup {NoSocket} /\ dpolls \in Int /\ dmsgId \in Nat /\ dpending \in SUBSET Request
  BY DEF DInit
<1> QED
  BY <1>2, <1>3, <1>4, <1>5 DEF DTypeOK

\* Every event keeps the types.
LEMMA DTypeStep == DTypeOK /\ [DNext]_dvars => DTypeOK'
<1> SUFFICES ASSUME DTypeOK, [DNext]_dvars
             PROVE  DTypeOK'
  OBVIOUS
<1>1. ASSUME NEW s \in Sockets, DoConnect(s), UNCHANGED dauto \/ dauto' = FALSE
      PROVE  DTypeOK'
  BY <1>1 DEF DTypeOK, DoConnect, States, shownVars, sendVars, serverVars
<1>2. ASSUME NEW s \in Sockets, Opened(s)
      PROVE  DTypeOK'
  <2>1. dmsgId' \in Nat /\ dpending' \in SUBSET Request /\ dup' \in Queues
    BY <1>2, SendType, DashboardParameters DEF Opened, Names, Typed
  <2> QED
    BY <1>2, <2>1 DEF DTypeOK, Opened, States, serverVars
<1>3. ASSUME NEW s \in Sockets, Closed(s)
      PROVE  DTypeOK'
  <2>1. <<>> \in Seq(Request)
    OBVIOUS
  <2>2. dup' \in Queues /\ ddown' \in Queues
    BY <1>3, <2>1 DEF DTypeOK, Closed, Queues
  <2>3. dstate' \in [Sockets -> States] /\ dpolls' \in Int
    BY <1>3 DEF DTypeOK, Closed, SetDisconnected, States
  <2>4. dshown' \in BOOLEAN /\ dstats' \in BOOLEAN /\ doverlapped' \in BOOLEAN
    BY <1>3 DEF DTypeOK, Closed, SetDisconnected
  <2>5. dws' \in Sockets \cup {NoSocket} /\ dmsgId' \in Nat /\ dpending' \in SUBSET Request
    BY <1>3 DEF DTypeOK, Closed, SetDisconnected
  <2>6. /\ dselected' \in Dbs /\ dserverDb' \in [Sockets -> Dbs]
        /\ dserverTx' \in [Sockets -> Dbs \cup {NoQueue}] /\ dtold' \in Sockets \cup {NoSocket}
    BY <1>3 DEF DTypeOK, Closed, serverVars
  <2> QED
    BY <2>2, <2>3, <2>4, <2>5, <2>6 DEF DTypeOK
<1>4. CASE UserDisconnects
  <2>1. dstate' \in [Sockets -> States] /\ dpolls' \in Int
    BY <1>4 DEF DTypeOK, UserDisconnects, SetDisconnected, States
  <2>2. dshown' \in BOOLEAN /\ dstats' \in BOOLEAN /\ doverlapped' \in BOOLEAN
    BY <1>4 DEF DTypeOK, UserDisconnects, SetDisconnected
  <2>3. /\ dws' \in Sockets \cup {NoSocket} /\ dselected' \in Dbs /\ dserverDb' \in [Sockets -> Dbs]
        /\ dserverTx' \in [Sockets -> Dbs \cup {NoQueue}] /\ dtold' \in Sockets \cup {NoSocket}
    BY <1>4 DEF DTypeOK, UserDisconnects, SetDisconnected, serverVars
  <2>4. dmsgId' \in Nat /\ dpending' \in SUBSET Request /\ dup' \in Queues /\ ddown' \in Queues
    BY <1>4 DEF DTypeOK, UserDisconnects, sendVars
  <2> QED
    BY <2>1, <2>2, <2>3, <2>4 DEF DTypeOK
<1>5. ASSUME NEW name \in Typed, NEW db \in Dbs, UserSends(name, db)
      PROVE  DTypeOK'
  <2>1. dmsgId' \in Nat /\ dpending' \in SUBSET Request /\ dup' \in Queues
    BY <1>5, SendType DEF UserSends, Names
  <2> QED
    BY <1>5, <2>1 DEF DTypeOK, UserSends, shownVars, serverVars
<1>6. ASSUME NEW db \in Dbs, UserSelects(db)
      PROVE  DTypeOK'
  <2>1. dmsgId' \in Nat /\ dpending' \in SUBSET Request /\ dup' \in Queues
    BY <1>6, SendType DEF UserSelects, Names
  <2> QED
    BY <1>6, <2>1 DEF DTypeOK, UserSelects, shownVars, serverVars
<1>7. ASSUME NEW s \in Sockets, BridgeReplies(s)
      PROVE  DTypeOK'
  <2>1. PICK r \in {Head(dup[s]), [Head(dup[s]) EXCEPT !.id = 0]} :
           /\ BridgeDispatch(s, Head(dup[s]))
           /\ ddown' = [ddown EXCEPT ![s] = Append(@, r)] /\ dup' = [dup EXCEPT ![s] = Tail(@)]
    BY <1>7 DEF BridgeReplies
  <2>2. Head(dup[s]) \in Request /\ Tail(dup[s]) \in Seq(Request)
    BY <1>7, Taken DEF DTypeOK, Queues, BridgeReplies
  <2>3. r \in Request
    BY <2>2 DEF Request
  <2>4. Append(ddown[s], r) \in Seq(Request)
    BY <2>3, Joined DEF DTypeOK, Queues
  <2>5. dup' \in Queues /\ ddown' \in Queues
    BY <2>1, <2>2, <2>4 DEF DTypeOK, Queues
  <2>6. dserverDb' \in [Sockets -> Dbs] /\ dserverTx' \in [Sockets -> Dbs \cup {NoQueue}]
    <3>1. /\ dserverDb \in [Sockets -> Dbs] /\ dserverTx \in [Sockets -> Dbs \cup {NoQueue}]
          /\ Head(dup[s]).db \in Dbs
      BY <2>2 DEF DTypeOK, Request
    <3>2. \E db \in Dbs : dserverDb' = dserverDb \/ dserverDb' = [dserverDb EXCEPT ![s] = db]
      BY <2>1, <3>1, DashboardParameters DEF BridgeDispatch, serverVars, NoQueue
    <3>3. \E db \in Dbs \cup {NoQueue} : dserverTx' = dserverTx \/ dserverTx' = [dserverTx EXCEPT ![s] = db]
      BY <2>1, <3>1, DashboardParameters DEF BridgeDispatch, serverVars, NoQueue
    <3> QED
      BY <3>1, <3>2, <3>3
  <2> QED
    BY <1>7, <2>5, <2>6 DEF DTypeOK, BridgeReplies, shownVars
<1>8. ASSUME NEW s \in Sockets, Message(s)
      PROVE  DTypeOK'
  <2>1. Tail(ddown[s]) \in Seq(Request)
    BY <1>8, Taken DEF DTypeOK, Queues, Message
  <2>2. dmsgId' \in Nat /\ dpending' \in SUBSET Request /\ dup' \in Queues
    <3> DEFINE waiting == {r \in dpending : r.id = Head(ddown[s]).id}
    <3>1. \/ SendCommand("other", 0, dstate, waiting)
          \/ dpending' = dpending \ waiting /\ UNCHANGED <<dmsgId, dup>>
      BY <1>8 DEF Message
    <3>2. CASE SendCommand("other", 0, dstate, waiting)
      BY <3>2, SendType, DashboardParameters DEF Names, Typed
    <3> QED
      BY <3>1, <3>2 DEF DTypeOK
  <2> QED
    BY <1>8, <2>1, <2>2 DEF DTypeOK, Queues, Message, shownVars, serverVars
<1>9. CASE UNCHANGED dvars
  BY <1>9 DEF DTypeOK, dvars
<1> QED
  BY <1>1, <1>2, <1>3, <1>4, <1>5, <1>6, <1>7, <1>8, <1>9
  DEF DNext, AutoConnect, UserConnects

-----------------------------------------------------------------------------
(* Requests and replies.  Ids grow, so two requests have different ones; a *)
(* request under way is in one place of one queue, and while its socket is *)
(* open its callback waits.                                                *)

\* One socket in a state, with its queues; P are the requests that wait and n
\* is the last id used.
Carries(state, P, out, down, n) ==
    /\ OneEach(out) /\ OneEach(down) /\ Apart(In(out), In(down))
    /\ \A m \in In(out) \cup In(down) : m.id <= n /\ \A r \in P : r.id = m.id => r = m
    /\ state = "open" => In(out) \cup In(down) \subseteq P
    /\ state \in {"unused", "connecting"} => In(out) = {} /\ In(down) = {}

Traffic(states, P, out, down, n) ==
    /\ \A r \in P : r.id <= n
    /\ \A s \in Sockets : Carries(states[s], P, out[s], down[s], n)
    /\ \A s, t \in Sockets :
           s # t => Apart(In(out[s]) \cup In(down[s]), In(out[t]) \cup In(down[t]))

\* A new request waits, and is under way on a socket that is open.
LEMMA Asked ==
    ASSUME NEW P \in SUBSET Request, NEW out \in Queues, NEW down \in Queues,
           NEW n \in Nat, NEW states, Traffic(states, P, out, down, n),
           NEW s \in Sockets, states[s] = "open",
           NEW r \in Request, r.id = n + 1
    PROVE  Traffic(states, P \cup {r}, [out EXCEPT ![s] = Append(@, r)], down, n + 1)
<1> DEFINE out1 == [out EXCEPT ![s] = Append(@, r)]
<1>1. /\ out[s] \in Seq(Request) /\ out1[s] = Append(out[s], r)
      /\ \A t \in Sockets \ {s} : out1[t] = out[t]
  BY DEF Queues
<1>2. In(out1[s]) = In(out[s]) \cup {r}
  <2>1. In(Append(out[s], r)) = In(out[s]) \cup {m \in {r} : m.id # 0}
    BY <1>1, Joined
  <2>2. r.id # 0
    OBVIOUS
  <2> QED
    BY <1>1, <2>1, <2>2
<1>3. \A t \in Sockets : \A m \in In(out[t]) \cup In(down[t]) : m \in Request /\ m.id \in Nat /\ m.id <= n
  BY InRequests DEF Traffic, Carries, Queues
<1>4. \A t \in Sockets : \A m \in In(out[t]) \cup In(down[t]) : m.id # r.id
  BY <1>3
<1>5. \A m \in P : m.id \in Nat /\ m.id <= n
  BY DEF Traffic, Request
<1> HIDE DEF out1
<1>6. Carries(states[s], P \cup {r}, out1[s], down[s], n + 1)
  <2>1. OneEach(out1[s])
    BY <1>1, <1>4, Joined DEF Traffic, Carries, Apart
  <2>2. Apart(In(out1[s]), In(down[s]))
    BY <1>2, <1>4 DEF Traffic, Carries, Apart
  <2>3. \A m \in In(out1[s]) \cup In(down[s]) : m.id <= n + 1 /\ \A w \in P \cup {r} : w.id = m.id => w = m
    BY <1>2, <1>3, <1>4, <1>5 DEF Traffic, Carries
  <2> QED
    BY <1>2, <2>1, <2>2, <2>3 DEF Traffic, Carries
<1>7. ASSUME NEW t \in Sockets \ {s}
      PROVE  Carries(states[t], P \cup {r}, out1[t], down[t], n + 1)
  <2>1. \A m \in In(out[t]) \cup In(down[t]) : m.id <= n + 1 /\ \A w \in P \cup {r} : w.id = m.id => w = m
    BY <1>3, <1>4 DEF Traffic, Carries
  <2> QED
    BY <1>1, <2>1 DEF Traffic, Carries
<1>8. ASSUME NEW t \in Sockets, NEW w \in Sockets, t # w
      PROVE  Apart(In(out1[t]) \cup In(down[t]), In(out1[w]) \cup In(down[w]))
  BY <1>1, <1>2, <1>4, <1>8 DEF Traffic, Apart
<1>9. \A m \in P \cup {r} : m.id <= n + 1
  BY <1>5
<1> QED
  BY <1>6, <1>7, <1>8, <1>9 DEF Traffic, out1

\* The bridge turns a request into its reply, or into one without an id.
LEMMA Replied ==
    ASSUME NEW P \in SUBSET Request, NEW out \in Queues, NEW down \in Queues,
           NEW n \in Nat, NEW states, Traffic(states, P, out, down, n),
           NEW s \in Sockets, states[s] \in {"open", "closing"}, out[s] # <<>>,
           NEW r \in Request, r = Head(out[s]) \/ r.id = 0
    PROVE  Traffic(states, P, [out EXCEPT ![s] = Tail(@)],
                   [down EXCEPT ![s] = Append(@, r)], n)
<1> DEFINE out1 == [out EXCEPT ![s] = Tail(@)]
           down1 == [down EXCEPT ![s] = Append(@, r)]
<1>1. /\ out[s] \in Seq(Request) /\ out1[s] = Tail(out[s])
      /\ down[s] \in Seq(Request) /\ down1[s] = Append(down[s], r)
      /\ \A t \in Sockets \ {s} : out1[t] = out[t] /\ down1[t] = down[t]
  BY DEF Queues
<1>2. /\ In(out[s]) = In(out1[s]) \cup {m \in {Head(out[s])} : m.id # 0}
      /\ OneEach(out1[s]) /\ Apart(In(out1[s]), {Head(out[s])})
  BY <1>1, Taken DEF Traffic, Carries
<1>3. \A m \in In(out1[s]) \cup In(down[s]) : m.id # 0 /\ m.id # r.id
  <2>1. \A m \in In(out1[s]) \cup In(down[s]) : m.id # 0
    BY DEF In
  <2>2. CASE r.id = 0
    BY <2>1, <2>2
  <2>3. CASE r.id # 0
    <3>1. r \in In(out[s])
      BY <1>2, <2>3
    <3>2. Apart(In(out[s]), In(down[s])) /\ Apart(In(out1[s]), {r})
      BY <1>2, <2>3 DEF Traffic, Carries
    <3> QED
      BY <2>1, <3>1, <3>2 DEF Apart
  <2> QED
    BY <2>2, <2>3
<1>4. In(down1[s]) = In(down[s]) \cup {m \in {r} : m.id # 0} /\ OneEach(down1[s])
  <2>1. Apart(In(down[s]), {r}) /\ OneEach(down[s])
    BY <1>3 DEF Traffic, Carries, Apart
  <2> QED
    BY <1>1, <2>1, Joined
<1>5. In(out1[s]) \cup In(down1[s]) \subseteq In(out[s]) \cup In(down[s])
  BY <1>2, <1>4
<1> HIDE DEF out1, down1
<1>6. Apart(In(out1[s]), In(down1[s]))
  <2>1. Apart(In(out1[s]), In(down[s]))
    BY <1>2 DEF Traffic, Carries, Apart
  <2> QED
    BY <1>3, <1>4, <2>1 DEF Apart
<1>7. Carries(states[s], P, out1[s], down1[s], n)
  BY <1>2, <1>4, <1>5, <1>6 DEF Traffic, Carries
<1>8. \A t \in Sockets : In(out1[t]) \cup In(down1[t]) \subseteq In(out[t]) \cup In(down[t])
  BY <1>1, <1>5
<1>9. \A t \in Sockets \ {s} : Carries(states[t], P, out1[t], down1[t], n)
  BY <1>1 DEF Traffic
<1>10. \A t, w \in Sockets :
           t # w => Apart(In(out1[t]) \cup In(down1[t]), In(out1[w]) \cup In(down1[w]))
  BY <1>8 DEF Traffic, Apart
<1> QED
  BY <1>7, <1>9, <1>10 DEF Traffic, out1, down1

\* A reply is read on a socket that is open: its own request no longer waits.
LEMMA Answered ==
    ASSUME NEW P \in SUBSET Request, NEW out \in Queues, NEW down \in Queues,
           NEW n \in Nat, NEW states, Traffic(states, P, out, down, n),
           NEW s \in Sockets, states[s] = "open", down[s] # <<>>,
           NEW done \in SUBSET P, \A r \in P : r \in done <=> r.id = Head(down[s]).id
    PROVE  Traffic(states, P \ done, out, [down EXCEPT ![s] = Tail(@)], n)
<1> DEFINE down1 == [down EXCEPT ![s] = Tail(@)]
           reply == Head(down[s])
           P1 == P \ done
<1>1. /\ down[s] \in Seq(Request) /\ down1[s] = Tail(down[s])
      /\ \A t \in Sockets \ {s} : down1[t] = down[t]
  BY DEF Queues
<1>2. /\ reply \in Request
      /\ In(down[s]) = In(down1[s]) \cup {m \in {reply} : m.id # 0}
      /\ OneEach(down1[s]) /\ Apart(In(down1[s]), {reply})
  BY <1>1, Taken DEF Traffic, Carries
<1>3. P1 \subseteq P /\ \A r \in P : r.id # reply.id => r \in P1
  OBVIOUS
<1> HIDE DEF down1, reply, P1
<1>4. \A m \in In(out[s]) \cup In(down1[s]) : m.id # reply.id
  <2>1. \A m \in In(out[s]) : m.id # 0
    BY DEF In
  <2>2. Apart(In(out[s]), In(down[s]))
    BY DEF Traffic, Carries
  <2> QED
    BY <1>2, <2>1, <2>2 DEF Apart
<1>5. Carries(states[s], P1, out[s], down1[s], n)
  BY <1>2, <1>3, <1>4 DEF Traffic, Carries, Apart
<1>6. ASSUME NEW t \in Sockets \ {s}
      PROVE  Carries(states[t], P1, out[t], down1[t], n)
  <2>1. \A m \in In(out[t]) \cup In(down[t]) : m.id # reply.id
    <3>1. \A m \in In(out[t]) \cup In(down[t]) : m.id # 0
      BY DEF In
    <3>2. Apart(In(out[t]) \cup In(down[t]), In(out[s]) \cup In(down[s]))
      BY DEF Traffic
    <3> QED
      BY <1>2, <3>1, <3>2 DEF Apart
  <2> QED
    BY <1>1, <1>3, <2>1 DEF Traffic, Carries
<1>7. \A t \in Sockets : In(down1[t]) \subseteq In(down[t])
  BY <1>1, <1>2
<1>8. \A t, w \in Sockets :
          t # w => Apart(In(out[t]) \cup In(down1[t]), In(out[w]) \cup In(down1[w]))
  BY <1>7 DEF Traffic, Apart
<1> QED
  BY <1>3, <1>5, <1>6, <1>8 DEF Traffic, down1, reply, P1

\* A socket changes its state: the queues of one that fails or ends are lost.
LEMMA Changed ==
    ASSUME NEW P \in SUBSET Request, NEW out \in Queues, NEW down \in Queues, NEW n \in Nat,
           NEW states \in [Sockets -> States], Traffic(states, P, out, down, n),
           NEW s \in Sockets
    PROVE  /\ Traffic([states EXCEPT ![s] = "closed"], P,
                      [out EXCEPT ![s] = <<>>], [down EXCEPT ![s] = <<>>], n)
           /\ states[s] \in {"connecting", "open"} =>
                  Traffic([states EXCEPT ![s] = "closing"], P, out, down, n)
           /\ states[s] = "unused" =>
                  Traffic([states EXCEPT ![s] = "connecting"], P, out, down, n)
           /\ states[s] = "connecting" =>
                  Traffic([states EXCEPT ![s] = "open"], P, out, down, n)
<1>1. Traffic([states EXCEPT ![s] = "closed"], P,
              [out EXCEPT ![s] = <<>>], [down EXCEPT ![s] = <<>>], n)
  <2> DEFINE states1 == [states EXCEPT ![s] = "closed"]
             out1 == [out EXCEPT ![s] = <<>>]
             down1 == [down EXCEPT ![s] = <<>>]
  <2>1. /\ states1[s] = "closed" /\ out1[s] = <<>> /\ down1[s] = <<>>
        /\ \A t \in Sockets \ {s} :
               states1[t] = states[t] /\ out1[t] = out[t] /\ down1[t] = down[t]
    BY DEF Queues
  <2>2. In(<<>>) = {} /\ OneEach(<<>>)
    BY DEF In, OneEach
  <2> HIDE DEF states1, out1, down1
  <2>3. Carries(states1[s], P, out1[s], down1[s], n)
    BY <2>1, <2>2 DEF Carries, Apart
  <2>4. \A t \in Sockets \ {s} : Carries(states1[t], P, out1[t], down1[t], n)
    BY <2>1 DEF Traffic
  <2>5. \A t \in Sockets : In(out1[t]) \subseteq In(out[t]) /\ In(down1[t]) \subseteq In(down[t])
    BY <2>1, <2>2
  <2>6. \A t, w \in Sockets :
            t # w => Apart(In(out1[t]) \cup In(down1[t]), In(out1[w]) \cup In(down1[w]))
    BY <2>5 DEF Traffic, Apart
  <2> QED
    BY <2>3, <2>4, <2>6 DEF Traffic, states1, out1, down1
<1>2. ASSUME NEW state \in {"closing", "connecting", "open"},
             Carries(state, P, out[s], down[s], n)
      PROVE  Traffic([states EXCEPT ![s] = state], P, out, down, n)
  BY <1>2 DEF Traffic
<1>3. Carries(states[s], P, out[s], down[s], n)
  BY DEF Traffic
<1> QED
  BY <1>1, <1>2, <1>3 DEF Carries

\* What sendCommand does, after the callbacks of done are gone.
LEMMA Sent ==
    ASSUME DTypeOK, NEW name \in Names, NEW db \in Dbs,
           NEW states, NEW done \in SUBSET dpending, NEW down \in Queues,
           \A r \in done : r.id <= dmsgId,
           Traffic(states, dpending \ done, dup, down, dmsgId),
           SendCommand(name, db, states, done)
    PROVE  Traffic(states, dpending', dup', down, dmsgId')
<1> DEFINE request == [id |-> dmsgId + 1, name |-> name, db |-> db]
<1>1. CASE dws = NoSocket \/ states[dws] # "open"
  BY <1>1 DEF SendCommand
<1>2. CASE ~(dws = NoSocket \/ states[dws] # "open")
  <2>1. /\ dmsgId' = dmsgId + 1
        /\ dpending' = (dpending \cup {request}) \ done
        /\ dup' = [dup EXCEPT ![dws] = Append(@, request)]
    BY <1>2 DEF SendCommand
  <2>2. /\ request \in Request /\ request.id = dmsgId + 1
        /\ dws \in Sockets /\ states[dws] = "open"
    BY <1>2 DEF DTypeOK, Request
  <2>3. request \notin done
    BY <2>2 DEF DTypeOK
  <2>4. dpending' = (dpending \ done) \cup {request}
    BY <2>1, <2>3
  <2> HIDE DEF request
  <2>5. dmsgId \in Nat /\ dup \in Queues /\ dpending \ done \in SUBSET Request
    BY DEF DTypeOK
  <2>6. Traffic(states, (dpending \ done) \cup {request},
                [dup EXCEPT ![dws] = Append(@, request)], down, dmsgId + 1)
    BY <2>2, <2>5, Asked
  <2> QED
    BY <2>1, <2>4, <2>6
<1> QED
  BY <1>1, <1>2

\* The page and its sockets as they are.
Sound == Traffic(dstate, dpending, dup, ddown, dmsgId)

\* Every event keeps requests, replies and callbacks matched.
LEMMA SoundStep == DTypeOK /\ Sound /\ [DNext]_dvars => Sound'
<1> SUFFICES ASSUME DTypeOK, Sound, [DNext]_dvars
             PROVE  Sound'
  OBVIOUS
<1> USE DEF Sound
<1>0. /\ dstate \in [Sockets -> States] /\ dpending \in SUBSET Request
      /\ dup \in Queues /\ ddown \in Queues /\ dmsgId \in Nat
  BY DEF DTypeOK
<1>1. ASSUME NEW s \in Sockets, DoConnect(s)
      PROVE  Sound'
  BY <1>0, <1>1, Changed DEF DoConnect, sendVars
<1>2. ASSUME NEW s \in Sockets, Opened(s)
      PROVE  Sound'
  <2>1. Traffic(dstate', dpending, dup, ddown, dmsgId)
    BY <1>0, <1>2, Changed DEF Opened
  <2>2. dpending \ {} = dpending
    OBVIOUS
  <2> QED
    BY <1>0, <1>2, <2>1, <2>2, Sent, DashboardParameters DEF Opened, Names, Typed
<1>3. ASSUME NEW s \in Sockets, Closed(s)
      PROVE  Sound'
  BY <1>0, <1>3, Changed DEF Closed
<1>4. CASE UserDisconnects
  <2>1. Traffic(dstate', dpending, dup, ddown, dmsgId)
    BY <1>0, <1>4, Changed DEF UserDisconnects, DTypeOK
  <2> QED
    BY <1>4, <2>1 DEF UserDisconnects, sendVars
<1>5. ASSUME NEW name \in Typed, NEW db \in Dbs, UserSends(name, db)
      PROVE  Sound'
  <2>1. dpending \ {} = dpending
    OBVIOUS
  <2> QED
    BY <1>0, <1>5, <2>1, Sent DEF UserSends, Names
<1>6. ASSUME NEW db \in Dbs, UserSelects(db)
      PROVE  Sound'
  <2>1. dpending \ {} = dpending
    OBVIOUS
  <2> QED
    BY <1>0, <1>6, <2>1, Sent DEF UserSelects, Names
<1>7. ASSUME NEW s \in Sockets, BridgeReplies(s)
      PROVE  Sound'
  <2>1. PICK r \in {Head(dup[s]), [Head(dup[s]) EXCEPT !.id = 0]} :
           /\ ddown' = [ddown EXCEPT ![s] = Append(@, r)] /\ dup' = [dup EXCEPT ![s] = Tail(@)]
    BY <1>7 DEF BridgeReplies
  <2>2. /\ dstate[s] \in {"open", "closing"} /\ dup[s] # <<>>
        /\ UNCHANGED <<dstate, dpending, dmsgId>>
    BY <1>7 DEF BridgeReplies
  <2>3. Head(dup[s]) \in Request
    BY <1>0, <2>2, Taken DEF Queues
  <2>4. r \in Request /\ (r = Head(dup[s]) \/ r.id = 0)
    BY <2>3 DEF Request
  <2>5. Traffic(dstate, dpending, dup', ddown', dmsgId)
    BY <1>0, <2>1, <2>2, <2>4, Replied
  <2> QED
    BY <2>2, <2>5
<1>8. ASSUME NEW s \in Sockets, Message(s)
      PROVE  Sound'
  <2> DEFINE waiting == {r \in dpending : r.id = Head(ddown[s]).id}
  <2>1. /\ dstate[s] = "open" /\ ddown[s] # <<>> /\ dstate' = dstate
        /\ ddown' = [ddown EXCEPT ![s] = Tail(@)]
        /\ \/ SendCommand("other", 0, dstate, waiting)
           \/ dpending' = dpending \ waiting /\ UNCHANGED <<dmsgId, dup>>
    BY <1>8 DEF Message
  <2>2. Traffic(dstate, dpending \ waiting, dup, ddown', dmsgId)
    <3>1. Traffic(dstate, dpending \ waiting, dup, [ddown EXCEPT ![s] = Tail(@)], dmsgId)
      <4>1. /\ waiting \in SUBSET dpending
            /\ \A r \in dpending : r \in waiting <=> r.id = Head(ddown[s]).id
        OBVIOUS
      <4> HIDE DEF waiting
      <4> QED
        BY <1>0, <2>1, <4>1, Answered
    <3> QED
      BY <2>1, <3>1
  <2>3. CASE SendCommand("other", 0, dstate, waiting)
    <3>1. ddown' \in Queues
      BY DTypeStep DEF DTypeOK
    <3>2. waiting \in SUBSET dpending /\ \A r \in waiting : r.id <= dmsgId
      BY DEF Traffic
    <3> HIDE DEF waiting
    <3>3. Traffic(dstate, dpending', dup', ddown', dmsgId')
      BY <2>2, <2>3, <3>1, <3>2, Sent, DashboardParameters DEF Names, Typed
    <3> QED
      BY <2>1, <3>3
  <2>4. CASE dpending' = dpending \ waiting /\ UNCHANGED <<dmsgId, dup>>
    BY <2>1, <2>2, <2>4
  <2> QED
    BY <2>1, <2>3, <2>4
<1>9. CASE UNCHANGED dvars
  BY <1>9 DEF dvars
<1> QED
  BY <1>1, <1>2, <1>3, <1>4, <1>5, <1>6, <1>7, <1>8, <1>9
  DEF DNext, AutoConnect, UserConnects

\* No request is under way at first.
LEMMA SoundInit == DInit => Sound
<1>1. In(<<>>) = {} /\ OneEach(<<>>)
  BY DEF In, OneEach
<1> QED
  BY <1>1 DEF DInit, Sound, Traffic, Carries, Apart

\* RepliesReachCallbacks for any number of connections and requests: the ids
\* of msgId, which no connection resets, keep the replies of all sockets apart
\* in the one table of callbacks (app.js:120-127, 173-179, bridge.js:289).
THEOREM RepliesTheorem == DSpec => []RepliesReachCallbacks
<1>1. DInit => DTypeOK /\ Sound
  BY DTypeInit, SoundInit
<1>2. DTypeOK /\ Sound /\ [DNext]_dvars => (DTypeOK /\ Sound)'
  BY DTypeStep, SoundStep
<1>3. DTypeOK /\ Sound => RepliesReachCallbacks
  <2> SUFFICES ASSUME DTypeOK, Sound
               PROVE  RepliesReachCallbacks
    OBVIOUS
  <2>1. \A s \in Sockets : UnderWay(s) = In(dup[s]) \cup In(ddown[s])
    BY DEF UnderWay, In
  <2>2. \A s, t \in Sockets : s # t => UnderWay(s) \cap UnderWay(t) = {}
    BY <2>1 DEF Sound, Traffic, Apart
  <2> QED
    BY <2>1, <2>2 DEF RepliesReachCallbacks, Sound, Traffic, Carries
<1> QED
  BY <1>1, <1>2, <1>3, PTL DEF DSpec

-----------------------------------------------------------------------------
(* What the page shows.  Unless it has overlapped two connections, one     *)
(* socket at most is in use, and it is that of the page until the page     *)
(* lets go of it.                                                          *)

InUse(s) == dstate[s] \in {"connecting", "open", "closing"}

InStep ==
    ~doverlapped =>
        /\ \A s, t \in Sockets : InUse(s) /\ InUse(t) => s = t
        /\ \A s \in Sockets : dstate[s] \in {"connecting", "open"} <=> dws = s
        /\ dshown <=> \E s \in Sockets : dstate[s] = "open"
        /\ dpolls = IF dshown THEN 1 ELSE 0
        /\ dstats <=> dshown

\* Every event keeps the page in step with its one socket.
LEMMA InStepStep == DTypeOK /\ InStep /\ [DNext]_dvars => InStep'
<1> SUFFICES ASSUME DTypeOK, InStep, [DNext]_dvars, ~doverlapped'
             PROVE  InStep'
  BY DEF InStep
<1>0. dstate \in [Sockets -> States] /\ NoSocket \notin Sockets
  BY DEF DTypeOK, NoSocket, Sockets
<1>a. ~doverlapped
  BY DEF DNext, AutoConnect, UserConnects, DoConnect, Opened, Closed, UserDisconnects, UserSends,
         UserSelects, BridgeReplies, Message, dvars
<1>b. /\ \A s, t \in Sockets : InUse(s) /\ InUse(t) => s = t
      /\ \A s \in Sockets : dstate[s] \in {"connecting", "open"} <=> dws = s
      /\ dshown <=> \E s \in Sockets : dstate[s] = "open"
      /\ dpolls = IF dshown THEN 1 ELSE 0
      /\ dstats <=> dshown
  BY <1>a DEF InStep
<1>1. ASSUME NEW s \in Sockets, DoConnect(s)
      PROVE  InStep'
  <2>1. /\ \A t \in Sockets : dstate[t] \in {"unused", "closed"}
        /\ dws' = s /\ dstate' = [dstate EXCEPT ![s] = "connecting"]
        /\ dshown' = dshown /\ dpolls' = dpolls /\ dstats' = dstats
    BY <1>1 DEF DoConnect, shownVars
  <2>2. ~dshown /\ ~dstats /\ dpolls = 0
    BY <1>b, <2>1
  <2>3. \A t \in Sockets \ {s} : dstate'[t] \in {"unused", "closed"}
    BY <1>0, <2>1
  <2>4. dstate'[s] = "connecting"
    BY <1>0, <2>1
  <2> QED
    BY <2>1, <2>2, <2>3, <2>4 DEF InStep, InUse
<1>2. ASSUME NEW s \in Sockets, Opened(s)
      PROVE  InStep'
  <2>1. /\ dws' = dws /\ dstate' = [dstate EXCEPT ![s] = "open"] /\ dstate[s] = "connecting"
        /\ dshown' = TRUE /\ dpolls' = dpolls + 1 /\ dstats' = TRUE
    BY <1>2 DEF Opened
  <2>2. \A t \in Sockets \ {s} : ~InUse(t)
    BY <1>b, <2>1 DEF InUse
  <2>3. dws = s /\ ~dshown /\ dpolls = 0
    BY <1>b, <2>1, <2>2 DEF InUse
  <2>4. dstate'[s] = "open" /\ \A t \in Sockets \ {s} : dstate'[t] = dstate[t]
    BY <1>0, <2>1
  <2> QED
    BY <1>b, <2>1, <2>2, <2>3, <2>4 DEF InStep, InUse
<1>3. ASSUME NEW s \in Sockets, Closed(s)
      PROVE  InStep'
  <2>1. /\ InUse(s) /\ dstate' = [dstate EXCEPT ![s] = "closed"]
        /\ dws' = NoSocket /\ ~dshown' /\ ~dstats' /\ dpolls' = IF dstats THEN dpolls - 1 ELSE dpolls
    BY <1>3 DEF Closed, SetDisconnected, InUse
  <2>2. \A t \in Sockets : dstate'[t] \notin {"connecting", "open", "closing"}
    BY <1>0, <1>b, <2>1 DEF InUse
  <2>3. dpolls' = 0
    BY <1>b, <2>1
  <2> QED
    BY <1>0, <2>1, <2>2, <2>3 DEF InStep, InUse
<1>4. CASE UserDisconnects
  <2>1. PICK s \in Sockets : dstate[s] = "open"
    BY <1>4, <1>b DEF UserDisconnects
  <2>2. dws = s /\ dws # NoSocket /\ \A t \in Sockets \ {s} : ~InUse(t)
    BY <1>0, <1>b, <2>1 DEF InUse
  <2>3. /\ dstate' = [dstate EXCEPT ![s] = "closing"]
        /\ dws' = NoSocket /\ ~dshown' /\ ~dstats' /\ dpolls' = IF dstats THEN dpolls - 1 ELSE dpolls
    BY <1>4, <2>1, <2>2 DEF UserDisconnects, SetDisconnected
  <2>4. dstate'[s] = "closing" /\ \A t \in Sockets \ {s} : dstate'[t] = dstate[t]
    BY <1>0, <2>3
  <2>5. dpolls' = 0
    BY <1>b, <1>4, <2>3 DEF UserDisconnects
  <2> QED
    BY <1>0, <2>2, <2>3, <2>4, <2>5 DEF InStep, InUse
<1>5. ASSUME UNCHANGED <<dws, dstate, shownVars>>
      PROVE  InStep'
  BY <1>5, <1>b DEF InStep, InUse, shownVars
<1>6. ASSUME NEW name, NEW db, UserSends(name, db)
      PROVE  InStep'
  BY <1>6, <1>5 DEF UserSends
<1>7. ASSUME NEW db, UserSelects(db)
      PROVE  InStep'
  BY <1>7, <1>5 DEF UserSelects
<1>8. ASSUME NEW s \in Sockets, BridgeReplies(s) \/ Message(s)
      PROVE  InStep'
  BY <1>8, <1>5 DEF BridgeReplies, Message
<1>9. CASE UNCHANGED dvars
  BY <1>9, <1>5 DEF dvars, shownVars
<1> QED
  BY <1>1, <1>2, <1>3, <1>4, <1>6, <1>7, <1>8, <1>9
  DEF DNext, AutoConnect, UserConnects

\* DashboardInStep for any number of connections: without an overlap the page
\* shows its dashboard exactly while its socket is open, and polls then and
\* then only (app.js:141-170).
THEOREM DashboardTheorem == DSpec => []DashboardInStep
<1>1. DInit => DTypeOK /\ InStep
  <2>1. DInit => InStep
    BY DEF DInit, InStep, InUse, NoSocket, Sockets
  <2> QED
    BY <2>1, DTypeInit
<1>2. DTypeOK /\ InStep /\ [DNext]_dvars => (DTypeOK /\ InStep)'
  BY DTypeStep, InStepStep
<1>3. DTypeOK /\ InStep => DashboardInStep
  <2>1. DTypeOK => dstats \in BOOLEAN /\ dshown \in BOOLEAN /\ dws \in Sockets \cup {NoSocket}
    BY DEF DTypeOK
  <2>2. NoSocket \notin Sockets
    BY DEF NoSocket, Sockets
  <2>3. DTypeOK /\ InStep /\ ~doverlapped => (dshown <=> dws # NoSocket /\ dstate[dws] = "open")
    BY <2>1, <2>2 DEF InStep
  <2>4. DTypeOK /\ InStep /\ ~doverlapped => dpolls = IF dshown THEN 1 ELSE 0
    BY DEF InStep
  <2>5. DTypeOK /\ InStep /\ ~doverlapped => dstats = dshown
    BY <2>1 DEF InStep
  <2> QED
    BY <2>3, <2>4, <2>5 DEF DashboardInStep
<1> QED
  BY <1>1, <1>2, <1>3, PTL DEF DSpec

-----------------------------------------------------------------------------
(* The database.  On the connection that was told of the database shown,   *)
(* either its SELECT is still under way, before any MULTI and any other    *)
(* change of the database, or the server has taken it.                     *)

Arrived(q, now, tx, shown) ==
    /\ now = shown /\ tx \in {NoQueue, shown}
    /\ \A i \in 1 .. Len(q) : q[i].name \notin {"select", "typed"}

Settled(q, now, tx, shown) ==
    \/ Arrived(q, now, tx, shown)
    \/ /\ tx = NoQueue
       /\ \E i \in 1 .. Len(q) :
             /\ q[i].name = "select" /\ q[i].db = shown
             /\ \A j \in 1 .. Len(q) : /\ j < i => q[j].name # "multi"
                                       /\ j > i => q[j].name \notin {"select", "typed"}

\* A request that changes no database joins the queue.
LEMMA SettledSent ==
    ASSUME NEW q \in Seq(Request), NEW r \in Request, NEW now, NEW tx, NEW shown,
           Settled(q, now, tx, shown), r.name \notin {"select", "typed"}
    PROVE  Settled(Append(q, r), now, tx, shown)
<1> DEFINE q1 == Append(q, r)
<1>1. /\ Len(q1) = Len(q) + 1 /\ Len(q) \in Nat
      /\ \A i \in 1 .. Len(q) : q1[i] = q[i]
      /\ q1[Len(q) + 1] = r
  OBVIOUS
<1> HIDE DEF q1
<1>2. \A j \in 1 .. Len(q1) : j \in 1 .. Len(q) \/ j = Len(q) + 1
  BY <1>1
<1>3. CASE Arrived(q, now, tx, shown)
  BY <1>1, <1>2, <1>3 DEF Arrived, Settled, q1
<1>4. CASE ~Arrived(q, now, tx, shown)
  <2>1. PICK i \in 1 .. Len(q) :
           /\ q[i].name = "select" /\ q[i].db = shown
           /\ \A j \in 1 .. Len(q) : /\ j < i => q[j].name # "multi"
                                     /\ j > i => q[j].name \notin {"select", "typed"}
    BY <1>4 DEF Settled
  <2>2. i \in 1 .. Len(q1) /\ ~(Len(q) + 1 < i)
    BY <1>1
  <2>3. \A j \in 1 .. Len(q1) : /\ j < i => q1[j].name # "multi"
                                /\ j > i => q1[j].name \notin {"select", "typed"}
    BY <1>1, <1>2, <2>1, <2>2
  <2> QED
    BY <1>1, <1>4, <2>1, <2>2, <2>3 DEF Settled, q1
<1> QED
  BY <1>3, <1>4

\* A SELECT joins a queue without MULTI.
LEMMA SettledChosen ==
    ASSUME NEW q \in Seq(Request), NEW r \in Request, NEW now, NEW shown,
           r.name = "select", r.db = shown,
           \A i \in 1 .. Len(q) : q[i].name # "multi"
    PROVE  Settled(Append(q, r), now, NoQueue, shown)
<1> DEFINE q1 == Append(q, r)
<1>1. /\ Len(q1) = Len(q) + 1 /\ Len(q) \in Nat
      /\ \A i \in 1 .. Len(q) : q1[i] = q[i]
      /\ q1[Len(q) + 1] = r
  OBVIOUS
<1> HIDE DEF q1
<1>2. Len(q) + 1 \in 1 .. Len(q1)
  BY <1>1
<1>3. \A j \in 1 .. Len(q1) : /\ j < Len(q) + 1 => q1[j].name # "multi"
                              /\ ~(j > Len(q) + 1)
  BY <1>1
<1> QED
  BY <1>1, <1>2, <1>3 DEF Settled, q1

\* What the client of the bridge makes of its database and its transaction.
After(request, now, tx, now1, tx1) ==
    \/ /\ request.name \in {"select", "typed"}
       /\ IF tx # NoQueue THEN tx1 = request.db /\ now1 = now
          ELSE now1 = request.db /\ tx1 = tx
    \/ request.name = "multi" /\ tx = NoQueue /\ tx1 = now /\ now1 = now
    \/ request.name = "exec" /\ tx # NoQueue /\ tx1 = NoQueue /\ now1 \in {now, tx}
    \/ /\ request.name \notin {"select", "typed"} /\ (request.name = "multi" => tx # NoQueue)
       /\ now1 = now /\ tx1 = tx

\* The first request leaves the queue, and the server carries it out.
LEMMA SettledTaken ==
    ASSUME NEW q \in Seq(Request), q # <<>>, NEW now, NEW tx, NEW now1, NEW tx1, NEW shown,
           Settled(q, now, tx, shown), After(Head(q), now, tx, now1, tx1)
    PROVE  Settled(Tail(q), now1, tx1, shown)
<1> DEFINE q1 == Tail(q)
<1>1. /\ Head(q) = q[1] /\ Len(q) \in Nat /\ Len(q) >= 1 /\ Len(q1) = Len(q) - 1
      /\ \A i \in 1 .. Len(q1) : q1[i] = q[i + 1]
  OBVIOUS
<1> HIDE DEF q1
<1>2. 1 \in 1 .. Len(q) /\ \A i \in 1 .. Len(q1) : i + 1 \in 1 .. Len(q) /\ i + 1 > 1
  BY <1>1
<1>3. CASE Arrived(q, now, tx, shown)
  <2>1. q[1].name \notin {"select", "typed"} /\ now = shown /\ tx \in {NoQueue, shown}
    BY <1>2, <1>3 DEF Arrived
  <2>2. now1 = shown /\ tx1 \in {NoQueue, shown}
    BY <1>1, <2>1 DEF After
  <2>3. \A i \in 1 .. Len(q1) : q1[i].name \notin {"select", "typed"}
    BY <1>1, <1>2, <1>3 DEF Arrived
  <2> QED
    BY <2>2, <2>3 DEF Settled, Arrived, q1
<1>4. CASE ~Arrived(q, now, tx, shown)
  <2>1. tx = NoQueue
    BY <1>4 DEF Settled
  <2>2. PICK i \in 1 .. Len(q) :
           /\ q[i].name = "select" /\ q[i].db = shown
           /\ \A j \in 1 .. Len(q) : /\ j < i => q[j].name # "multi"
                                     /\ j > i => q[j].name \notin {"select", "typed"}
    BY <1>4 DEF Settled
  <2>3. CASE i = 1
    <3>1. now1 = shown /\ tx1 = NoQueue
      BY <1>1, <2>1, <2>2, <2>3 DEF After
    <3>2. \A j \in 1 .. Len(q1) : q1[j].name \notin {"select", "typed"}
      BY <1>1, <1>2, <2>2, <2>3
    <3> QED
      BY <3>1, <3>2 DEF Settled, Arrived, q1
  <2>4. CASE i # 1
    <3>1. i - 1 \in 1 .. Len(q1) /\ 1 < i /\ i - 1 + 1 = i
      BY <1>1, <2>4
    <3>2. q[1].name # "multi"
      BY <1>2, <2>2, <3>1
    <3>3. tx1 = NoQueue
      BY <1>1, <2>1, <3>2 DEF After
    <3>4. \A j \in 1 .. Len(q1) : /\ j < i - 1 => j + 1 < i
                                  /\ j > i - 1 => j + 1 > i
      BY <1>1
    <3>5. \A j \in 1 .. Len(q1) : /\ j < i - 1 => q1[j].name # "multi"
                                  /\ j > i - 1 => q1[j].name \notin {"select", "typed"}
      BY <1>1, <1>2, <2>2, <3>4
    <3>6. q1[i - 1].name = "select" /\ q1[i - 1].db = shown
      BY <1>1, <2>2, <3>1
    <3> QED
      BY <3>1, <3>3, <3>5, <3>6 DEF Settled, q1
  <2> QED
    BY <2>3, <2>4
<1> QED
  BY <1>3, <1>4

\* A socket that has not opened has carried nothing, so its server's client is
\* as it began.
Told ==
    /\ \A s \in Sockets :
           dstate[s] \in {"unused", "connecting"} =>
               dserverDb[s] = 0 /\ dserverTx[s] = NoQueue /\ dup[s] = <<>>
    /\ \A s \in Sockets :
           dtold = s /\ dstate[s] = "open" => Settled(dup[s], dserverDb[s], dserverTx[s], dselected)

\* What sendCommand adds to the queue of one socket.
LEMMA Queued ==
    ASSUME DTypeOK, NEW name \in Names, NEW db \in Dbs, NEW states, NEW done,
           SendCommand(name, db, states, done), NEW s \in Sockets
    PROVE  \/ dup'[s] = dup[s]
           \/ /\ dws = s /\ states[s] = "open"
              /\ \E r \in Request : r.name = name /\ r.db = db /\ dup'[s] = Append(dup[s], r)
<1> DEFINE request == [id |-> dmsgId + 1, name |-> name, db |-> db]
<1>1. CASE dws = NoSocket \/ states[dws] # "open"
  BY <1>1 DEF SendCommand
<1>2. CASE ~(dws = NoSocket \/ states[dws] # "open")
  <2>1. dup' = [dup EXCEPT ![dws] = Append(@, request)] /\ states[dws] = "open"
    BY <1>2 DEF SendCommand
  <2>2. request \in Request /\ request.name = name /\ request.db = db
    BY DEF DTypeOK, Request
  <2> HIDE DEF request
  <2> QED
    BY <2>1, <2>2 DEF DTypeOK, Queues
<1> QED
  BY <1>1, <1>2

\* A command that changes no database leaves every connection as it is told.
LEMMA ToldSends ==
    ASSUME DTypeOK, Told, NEW name \in Names, name \notin {"select", "typed"}, NEW db \in Dbs,
           NEW done, SendCommand(name, db, dstate, done),
           UNCHANGED <<dstate, dselected, dserverDb, dserverTx, dtold>>
    PROVE  Told'
<1>1. ASSUME NEW s \in Sockets, dstate[s] \in {"unused", "connecting"}
      PROVE  dup'[s] = dup[s]
  BY <1>1, Queued
<1>2. ASSUME NEW s \in Sockets, dtold = s, dstate[s] = "open"
      PROVE  Settled(dup'[s], dserverDb[s], dserverTx[s], dselected)
  <2>1. Settled(dup[s], dserverDb[s], dserverTx[s], dselected) /\ dup[s] \in Seq(Request)
    BY <1>2 DEF Told, DTypeOK, Queues
  <2>2. CASE dup'[s] = dup[s]
    BY <2>1, <2>2
  <2>3. CASE \E r \in Request : r.name = name /\ dup'[s] = Append(dup[s], r)
    BY <2>1, <2>3, SettledSent
  <2> QED
    BY <2>2, <2>3, Queued
<1> QED
  BY <1>1, <1>2 DEF Told

\* Every event keeps what each connection is told.
LEMMA ToldStep == DTypeOK /\ Told /\ [DNext]_dvars => Told'
<1> SUFFICES ASSUME DTypeOK, Told, [DNext]_dvars
             PROVE  Told'
  OBVIOUS
<1>0. /\ dstate \in [Sockets -> States] /\ dup \in Queues /\ NoSocket \notin Sockets
      /\ dserverDb \in [Sockets -> Dbs] /\ dserverTx \in [Sockets -> Dbs \cup {NoQueue}]
  BY DEF DTypeOK, NoSocket, Sockets
<1>a. "other" \in Names /\ "select" \in Names /\ Typed \subseteq Names /\ 0 \in Dbs
  BY DashboardParameters DEF Names, Typed
<1>1. ASSUME NEW s \in Sockets, DoConnect(s)
      PROVE  Told'
  <2>1. /\ dstate[s] = "unused" /\ dstate' = [dstate EXCEPT ![s] = "connecting"]
        /\ UNCHANGED <<dup, dselected, dserverDb, dserverTx, dtold>>
    BY <1>1 DEF DoConnect, sendVars, serverVars
  <2> QED
    BY <1>0, <2>1 DEF Told
<1>2. ASSUME NEW s \in Sockets, Opened(s)
      PROVE  Told'
  <2>1. /\ dstate[s] = "connecting" /\ dstate' = [dstate EXCEPT ![s] = "open"]
        /\ SendCommand("other", 0, dstate', {})
        /\ dtold' = (IF dselected = 0 THEN s ELSE NoSocket)
        /\ UNCHANGED <<dselected, dserverDb, dserverTx>>
    BY <1>2 DEF Opened, serverVars
  <2>2. ASSUME NEW t \in Sockets, dstate'[t] \in {"unused", "connecting"}
        PROVE  dserverDb'[t] = 0 /\ dserverTx'[t] = NoQueue /\ dup'[t] = <<>>
    <3>1. t # s /\ dstate[t] = dstate'[t]
      BY <1>0, <2>1, <2>2
    <3>2. dstate'[t] # "open" /\ SendCommand("other", 0, dstate', {})
      BY <2>1, <2>2
    <3>4. \/ dup'[t] = dup[t]
          \/ dws = t /\ dstate'[t] = "open"
      BY <1>a, <3>2, Queued
    <3> QED
      BY <2>1, <2>2, <3>1, <3>2, <3>4 DEF Told
  <2>3. ASSUME NEW t \in Sockets, dtold' = t
        PROVE  Settled(dup'[t], dserverDb'[t], dserverTx'[t], dselected')
    <3>1. t = s /\ dselected = 0
      BY <1>0, <2>1, <2>3
    <3>2. dserverDb[s] = 0 /\ dserverTx[s] = NoQueue /\ dup[s] = <<>>
      BY <2>1 DEF Told
    <3>3. Settled(dup[s], dserverDb[s], dserverTx[s], dselected) /\ dup[s] \in Seq(Request)
      BY <1>0, <3>1, <3>2 DEF Settled, Arrived, Queues
    <3>4. CASE dup'[s] = dup[s]
      BY <2>1, <3>1, <3>3, <3>4
    <3>5. CASE \E r \in Request : r.name = "other" /\ dup'[s] = Append(dup[s], r)
      BY <2>1, <3>1, <3>3, <3>5, SettledSent
    <3> QED
      BY <1>a, <2>1, <3>4, <3>5, Queued
  <2> QED
    BY <2>2, <2>3 DEF Told
<1>3. ASSUME NEW s \in Sockets, Closed(s)
      PROVE  Told'
  <2>1. /\ dstate' = [dstate EXCEPT ![s] = "closed"] /\ dup' = [dup EXCEPT ![s] = <<>>]
        /\ UNCHANGED <<dselected, dserverDb, dserverTx, dtold>>
    BY <1>3 DEF Closed, serverVars
  <2>2. dstate'[s] = "closed" /\ \A t \in Sockets \ {s} : dstate'[t] = dstate[t] /\ dup'[t] = dup[t]
    BY <1>0, <2>1 DEF Queues
  <2> QED
    BY <2>1, <2>2 DEF Told
<1>4. CASE UserDisconnects
  <2>1. /\ dstate' = IF dws # NoSocket /\ dstate[dws] \in {"connecting", "open"}
                     THEN [dstate EXCEPT ![dws] = "closing"] ELSE dstate
        /\ UNCHANGED <<dup, dselected, dserverDb, dserverTx, dtold>>
    BY <1>4 DEF UserDisconnects, sendVars, serverVars
  <2>2. \A t \in Sockets : dstate'[t] \in {dstate[t], "closing"}
    BY <1>0, <2>1
  <2> QED
    BY <2>1, <2>2 DEF Told
<1>5. ASSUME NEW name \in Typed, NEW db \in Dbs, UserSends(name, db)
      PROVE  Told'
  <2>1. /\ SendCommand(name, db, dstate, {})
        /\ dtold' = (IF name = "typed" /\ dtold = dws THEN NoSocket ELSE dtold)
        /\ UNCHANGED <<dstate, dselected, dserverDb, dserverTx>>
    BY <1>5 DEF UserSends, serverVars
  <2>2. CASE name # "typed"
    <3>1. name \notin {"select", "typed"} /\ dtold' = dtold
      BY <2>1, <2>2 DEF Typed
    <3> QED
      BY <1>a, <2>1, <3>1, ToldSends
  <2>3. CASE name = "typed"
    <3>1. ASSUME NEW s \in Sockets, dstate[s] \in {"unused", "connecting"} \/ dtold' = s
          PROVE  dup'[s] = dup[s] /\ (dtold' = s => dtold = s)
      <4>1. dtold' = s => dtold = s /\ dws # s
        BY <1>0, <2>1, <2>3
      <4> QED
        BY <1>a, <2>1, <3>1, <4>1, Queued
    <3> QED
      BY <2>1, <3>1 DEF Told
  <2> QED
    BY <2>2, <2>3
<1>6. ASSUME NEW db \in Dbs, UserSelects(db)
      PROVE  Told'
  <2>1. /\ SendCommand("select", db, dstate, {}) /\ dselected' = db
        /\ dtold' = (IF Direct THEN dws ELSE NoSocket)
        /\ UNCHANGED <<dstate, dserverDb, dserverTx>>
    BY <1>6 DEF UserSelects, serverVars
  <2>2. ASSUME NEW s \in Sockets, dstate[s] \in {"unused", "connecting"}
        PROVE  dup'[s] = dup[s]
    BY <1>a, <2>1, <2>2, Queued
  <2>3. ASSUME NEW s \in Sockets, dtold' = s
        PROVE  Settled(dup'[s], dserverDb[s], dserverTx[s], db)
    <3>1. /\ dws = s /\ dws # NoSocket /\ dstate[s] = "open" /\ dserverTx[s] = NoQueue
          /\ \A i \in 1 .. Len(dup[s]) : dup[s][i].name # "multi"
      BY <1>0, <2>1, <2>3 DEF Direct
    <3> DEFINE request == [id |-> dmsgId + 1, name |-> "select", db |-> db]
    <3>2. request \in Request /\ request.name = "select" /\ request.db = db
      BY <1>a DEF DTypeOK, Request
    <3>3. dup' = [dup EXCEPT ![s] = Append(@, request)]
      BY <2>1, <3>1 DEF SendCommand
    <3> HIDE DEF request
    <3>4. dup[s] \in Seq(Request) /\ dup'[s] = Append(dup[s], request)
      BY <1>0, <3>3 DEF Queues
    <3> QED
      BY <3>1, <3>2, <3>4, SettledChosen
  <2> QED
    BY <2>1, <2>2, <2>3 DEF Told
<1>7. ASSUME NEW s \in Sockets, BridgeReplies(s)
      PROVE  Told'
  <2>1. /\ dstate[s] \in {"open", "closing"} /\ dup[s] # <<>>
        /\ BridgeDispatch(s, Head(dup[s])) /\ dup' = [dup EXCEPT ![s] = Tail(@)]
        /\ UNCHANGED <<dstate, dselected, dtold>>
    BY <1>7 DEF BridgeReplies, shownVars
  <2>2. /\ After(Head(dup[s]), dserverDb[s], dserverTx[s], dserverDb'[s], dserverTx'[s])
        /\ \A t \in Sockets \ {s} : dserverDb'[t] = dserverDb[t] /\ dserverTx'[t] = dserverTx[t]
    BY <1>0, <2>1 DEF BridgeDispatch, After, serverVars
  <2>3. /\ dup[s] \in Seq(Request) /\ dup'[s] = Tail(dup[s])
        /\ \A t \in Sockets \ {s} : dup'[t] = dup[t]
    BY <1>0, <2>1 DEF Queues
  <2>4. dtold = s /\ dstate[s] = "open" => Settled(dup'[s], dserverDb'[s], dserverTx'[s], dselected)
    BY <2>1, <2>2, <2>3, SettledTaken DEF Told
  <2> QED
    BY <2>1, <2>2, <2>3, <2>4 DEF Told
<1>8. ASSUME NEW s \in Sockets, Message(s)
      PROVE  Told'
  <2> DEFINE waiting == {r \in dpending : r.id = Head(ddown[s]).id}
  <2>1. /\ UNCHANGED <<dstate, dselected, dserverDb, dserverTx, dtold>>
        /\ SendCommand("other", 0, dstate, waiting) \/ UNCHANGED dup
    BY <1>8 DEF Message, shownVars, serverVars
  <2> HIDE DEF waiting
  <2>2. CASE SendCommand("other", 0, dstate, waiting)
    BY <1>a, <2>1, <2>2, ToldSends
  <2>3. CASE UNCHANGED dup
    BY <2>1, <2>3 DEF Told
  <2> QED
    BY <2>1, <2>2, <2>3
<1>9. CASE UNCHANGED dvars
  BY <1>9 DEF dvars, Told
<1> QED
  BY <1>1, <1>2, <1>3, <1>4, <1>5, <1>6, <1>7, <1>8, <1>9
  DEF DNext, AutoConnect, UserConnects

\* DatabaseInStep for any number of connections, requests and databases: the
\* last choice wins on the connection that was told of it, whatever else is
\* typed, unless it names another database (app.js:183-199, 284-290,
\* bridge.js:257-275, registry.js:141-158, server_cmds.js:30-40, 218-219).
THEOREM DatabaseTheorem == DSpec => []DatabaseInStep
<1>1. DInit => DTypeOK /\ Told
  <2>1. DInit => Told
    <3> SUFFICES ASSUME DInit
                 PROVE  Told
      OBVIOUS
    <3>1. \A s \in Sockets : dstate[s] = "unused"
      BY DEF DInit
    <3> QED
      BY <3>1 DEF DInit, Told
  <2> QED
    BY <2>1, DTypeInit
<1>2. DTypeOK /\ Told /\ [DNext]_dvars => (DTypeOK /\ Told)'
  BY DTypeStep, ToldStep
<1>3. Told => DatabaseInStep
  <2> SUFFICES ASSUME Told, NEW s \in Sockets, dtold = s, dstate[s] = "open",
                      \A i \in 1 .. Len(dup[s]) : dup[s][i].name # "select"
               PROVE  dserverDb[s] = dselected
    BY DEF DatabaseInStep
  <2>1. Settled(dup[s], dserverDb[s], dserverTx[s], dselected)
    BY DEF Told
  <2> QED
    BY <2>1 DEF Settled, Arrived
<1> QED
  BY <1>1, <1>2, <1>3, PTL DEF DSpec
=============================================================================
