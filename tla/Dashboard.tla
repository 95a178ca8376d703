----------------------------- MODULE Dashboard -----------------------------
(***************************************************************************)
(* The browser front end (src/frontend/app.js) and the clients of the      *)
(* WebSocket bridge that it makes (src/src/bridge.js).  The page keeps one *)
(* variable for its socket, but nothing stops a second connection before   *)
(* the first has opened, failed or finished closing, and the handlers do   *)
(* not ask which socket their event is about.  Events of the sockets, of   *)
(* the user and of the timer interleave; each handler runs in one piece.   *)
(*                                                                         *)
(* What matters of a command is what the bridge's client and the page do   *)
(* with it: "select", the SELECT that db-select sends; "typed", a SELECT or *)
(* a RESET (SELECT 0 as far as the database goes) typed in the terminal;   *)
(* "multi"; "exec", EXEC or DISCARD, which runs as little as an EXEC that a *)
(* watched key stops; "empty", quotes with nothing between them, that parse *)
(* to no command at all; and "other", the SCAN of the page included.       *)
(* The reply to SCAN holds a nested array, at which _parseResp stops, so   *)
(* the page always takes the list of keys to be empty and goes on to ask   *)
(* for the type of none.                                                   *)
(***************************************************************************)
EXTENDS Integers, Sequences, FiniteSets

CONSTANTS
    MaxSockets,   \* bounds how often the page connects
    MaxRequests,  \* bounds msgId where the user sends a request; EXEC may be one more
    MaxUnderWay,  \* bounds what is under way on a socket when he does
    Dbs           \* the databases offered by db-select

ASSUME DashboardParameters ==
    MaxSockets \in Nat /\ MaxRequests \in Nat /\ MaxUnderWay \in Nat /\ 0 \in Dbs /\ Dbs \subseteq Nat

\* The sockets of the page in the order they are made.
Sockets == 1 .. MaxSockets
NoSocket == 0

\* No MULTI is open on a connection.
NoQueue == -1

\* What the user can type.
Typed == {"typed", "multi", "exec", "empty", "other"}

VARIABLES
    dauto,        \* is the timer of the automatic connection pending
    dws,          \* ws
    dstate,       \* readyState of each socket, "unused" before it is made
    dshown,       \* are the dashboard and "Connected" shown, or the overlay
    dpolls,       \* how many intervals of pollStats run
    dstats,       \* does statsInterval name one of them
    dmsgId,       \* msgId
    dpending,     \* the requests whose callbacks are in pendingCallbacks
    dselected,    \* db-select
    dup, ddown,   \* requests and replies under way on each socket
    dserverDb,    \* the database of the bridge's client at each socket
    dserverTx,    \* the database that EXEC would leave there, NoQueue outside MULTI
    \* History: has the page connected while an earlier socket was not closed.
    doverlapped,
    \* History: the connection that was told of the database now shown, chosen
    \* there outside MULTI, or 0 with which it began, and of no other since.
    dtold

dvars == <<dauto, dws, dstate, dshown, dpolls, dstats, dmsgId, dpending,
           dselected, dup, ddown, dserverDb, dserverTx, doverlapped, dtold>>

shownVars == <<dshown, dpolls, dstats>>
sendVars == <<dmsgId, dpending, dup>>
serverVars == <<dserverDb, dserverTx>>

DInit ==
    /\ dauto = TRUE
    /\ dws = NoSocket /\ dstate = [s \in Sockets |-> "unused"]
    /\ dshown = FALSE /\ dpolls = 0 /\ dstats = FALSE
    /\ dmsgId = 0 /\ dpending = {}
    /\ dselected = 0
    /\ dup = [s \in Sockets |-> <<>>] /\ ddown = [s \in Sockets |-> <<>>]
    /\ dserverDb = [s \in Sockets |-> 0]
    /\ dserverTx = [s \in Sockets |-> NoQueue]
    /\ doverlapped = FALSE /\ dtold = NoSocket

-----------------------------------------------------------------------------
\* sendCommand, after which the callback of the requests in done is deleted;
\* state is that of the sockets when it looks at readyState.
SendCommand(name, db, state, done) ==
    IF dws = NoSocket \/ state[dws] # "open"
    THEN dpending' = dpending \ done /\ UNCHANGED <<dmsgId, dup>>
    ELSE LET request == [id |-> dmsgId + 1, name |-> name, db |-> db]
         IN  /\ dmsgId' = dmsgId + 1
             /\ dpending' = (dpending \cup {request}) \ done
             /\ dup' = [dup EXCEPT ![dws] = Append(@, request)]

\* Mutant: every connection counts its requests from 1.
DoConnect_ResetsIds(s) ==
    /\ dstate[s] = "unused" /\ \A t \in 1 .. s - 1 : dstate[t] # "unused"
    /\ dws' = s
    /\ dstate' = [dstate EXCEPT ![s] = "connecting"]
    /\ dmsgId' = 0
    /\ doverlapped' = (doverlapped \/ \E t \in Sockets : dstate[t] \notin {"unused", "closed"})
    /\ UNCHANGED <<shownVars, dpending, dup, dselected, ddown, serverVars, dtold>>

\* doConnect with a valid URL.
DoConnect(s) ==
    /\ dstate[s] = "unused" /\ \A t \in 1 .. s - 1 : dstate[t] # "unused"
    /\ dws' = s
    /\ dstate' = [dstate EXCEPT ![s] = "connecting"]
    /\ doverlapped' = (doverlapped \/ \E t \in Sockets : dstate[t] \notin {"unused", "closed"})
    /\ UNCHANGED <<shownVars, sendVars, dselected, ddown, serverVars, dtold>>

\* The timer of the page; it fires although the user may have connected.
AutoConnect(s) == dauto /\ dauto' = FALSE /\ DoConnect(s)

\* Enter in the field of the URL, which unlike the button is never disabled.
UserConnects(s) == ~dshown /\ DoConnect(s) /\ UNCHANGED dauto

\* onopen: enterDashboard, whichever socket has opened.
Opened(s) ==
    /\ dstate[s] = "connecting"
    /\ dstate' = [dstate EXCEPT ![s] = "open"]
    /\ dshown' = TRUE
    /\ SendCommand("other", 0, dstate', {})
    /\ dpolls' = dpolls + 1 /\ dstats' = TRUE
    /\ dtold' = IF dselected = 0 THEN s ELSE NoSocket
    /\ UNCHANGED <<dauto, dws, dselected, ddown, serverVars, doverlapped>>

\* Mutant: the interval is forgotten and not cleared.
SetDisconnected_LeavesTimer ==
    /\ dshown' = FALSE
    /\ dstats' = FALSE /\ dpolls' = dpolls
    /\ dws' = NoSocket

\* setDisconnected
SetDisconnected ==
    /\ dshown' = FALSE
    /\ dstats' = FALSE /\ dpolls' = IF dstats THEN dpolls - 1 ELSE dpolls
    /\ dws' = NoSocket

\* onerror and onclose of a connection that fails, onclose of one that the
\* server or the network ends, and of one that the page has closed.  What was
\* under way is lost, and the callbacks that wait for it stay.
Closed(s) ==
    /\ dstate[s] \in {"connecting", "open", "closing"}
    /\ dstate' = [dstate EXCEPT ![s] = "closed"]
    /\ SetDisconnected
    /\ dup' = [dup EXCEPT ![s] = <<>>] /\ ddown' = [ddown EXCEPT ![s] = <<>>]
    /\ UNCHANGED <<dauto, dmsgId, dpending, dselected, serverVars, doverlapped, dtold>>

\* doDisconnect
UserDisconnects ==
    /\ dshown
    /\ dstate' = IF dws # NoSocket /\ dstate[dws] \in {"connecting", "open"}
                 THEN [dstate EXCEPT ![dws] = "closing"] ELSE dstate
    /\ SetDisconnected
    /\ UNCHANGED <<dauto, sendVars, dselected, ddown, serverVars, doverlapped, dtold>>

\* The dashboard is shown, so the user can send something, within the bounds.
UserMay(name) ==
    /\ dshown
    /\ dmsgId < MaxRequests + (IF name = "exec" THEN 1 ELSE 0)
    /\ \A s \in Sockets : Len(dup[s]) + Len(ddown[s]) < MaxUnderWay

\* A line of the terminal, whatever it says, or the button that refreshes the
\* keys ("other").
UserSends(name, db) ==
    /\ UserMay(name)
    /\ SendCommand(name, db, dstate, {})
    /\ dtold' = IF name = "typed" /\ dtold = dws THEN NoSocket ELSE dtold
    /\ UNCHANGED <<dauto, dws, dstate, shownVars, dselected, ddown, serverVars, doverlapped>>

\* Is the page's connection open, with no MULTI open or under way on it.
Direct ==
    /\ dws # NoSocket /\ dstate[dws] = "open" /\ dserverTx[dws] = NoQueue
    /\ \A i \in 1 .. Len(dup[dws]) : dup[dws][i].name # "multi"

\* onDbChange
UserSelects(db) ==
    /\ UserMay("select") /\ db # dselected
    /\ dselected' = db
    /\ SendCommand("select", db, dstate, {})
    /\ dtold' = IF Direct THEN dws ELSE NoSocket
    /\ UNCHANGED <<dauto, dws, dstate, shownVars, ddown, serverVars, doverlapped>>

\* Mutant: the bridge keeps one database for all its clients.
BridgeDispatch_OneDatabase(s, request) ==
    LET queueing == dserverTx[s] # NoQueue
        Use(db) == dserverDb' = [t \in Sockets |-> db]
        Queue(db) == dserverTx' = [dserverTx EXCEPT ![s] = db]
    IN  CASE request.name \in {"select", "typed"} ->
                IF queueing THEN Queue(request.db) /\ UNCHANGED dserverDb
                ELSE Use(request.db) /\ UNCHANGED dserverTx
          [] request.name = "multi" /\ ~queueing ->
                Queue(dserverDb[s]) /\ UNCHANGED dserverDb
          [] request.name = "exec" /\ queueing ->
                /\ Queue(NoQueue)
                /\ Use(dserverTx[s]) \/ UNCHANGED dserverDb
          [] OTHER -> UNCHANGED serverVars

\* What the bridge's client at s does with a command: it changes the database,
\* queues that in a transaction, opens one, or ends it and runs what is queued
\* or drops it.
BridgeDispatch(s, request) ==
    LET queueing == dserverTx[s] # NoQueue
        Use(db) == dserverDb' = [dserverDb EXCEPT ![s] = db]
        Queue(db) == dserverTx' = [dserverTx EXCEPT ![s] = db]
    IN  CASE request.name \in {"select", "typed"} ->
                IF queueing THEN Queue(request.db) /\ UNCHANGED dserverDb
                ELSE Use(request.db) /\ UNCHANGED dserverTx
          [] request.name = "multi" /\ ~queueing ->
                Queue(dserverDb[s]) /\ UNCHANGED dserverDb
          [] request.name = "exec" /\ queueing ->
                /\ Queue(NoQueue)
                /\ Use(dserverTx[s]) \/ UNCHANGED dserverDb
          [] OTHER -> UNCHANGED serverVars

\* _handleMessage of the bridge: the reply carries the id of the request, but
\* an empty command is refused by an error without one.
BridgeReplies(s) ==
    /\ dstate[s] \in {"open", "closing"} /\ dup[s] # <<>>
    /\ LET request == Head(dup[s])
           reply == IF request.name = "empty" THEN [request EXCEPT !.id = 0] ELSE request
       IN  /\ BridgeDispatch(s, request)
           /\ ddown' = [ddown EXCEPT ![s] = Append(@, reply)]
    /\ dup' = [dup EXCEPT ![s] = Tail(@)]
    /\ UNCHANGED <<dauto, dws, dstate, shownVars, dmsgId, dpending, dselected,
                   doverlapped, dtold>>

\* Mutant: the callback of a reply is kept.
Message_KeepsCallback(s) ==
    /\ dstate[s] = "open" /\ ddown[s] # <<>>
    /\ ddown' = [ddown EXCEPT ![s] = Tail(@)]
    /\ UNCHANGED <<dauto, dws, dstate, shownVars, sendVars, dselected, serverVars,
                   doverlapped, dtold>>

\* onmessage, on whichever socket: the callback with the id of the reply, if it
\* has an id and there is one; that of db-select asks for the keys, on the
\* socket of the page.
Message(s) ==
    /\ dstate[s] = "open" /\ ddown[s] # <<>>
    /\ LET waiting == {r \in dpending : r.id = Head(ddown[s]).id}
       IN  IF \E r \in waiting : r.name = "select"
           THEN SendCommand("other", 0, dstate, waiting)
           ELSE dpending' = dpending \ waiting /\ UNCHANGED <<dmsgId, dup>>
    /\ ddown' = [ddown EXCEPT ![s] = Tail(@)]
    /\ UNCHANGED <<dauto, dws, dstate, shownVars, dselected, serverVars, doverlapped, dtold>>

DNext ==
    \/ \E s \in Sockets : AutoConnect(s) \/ UserConnects(s)
    \/ \E s \in Sockets : Opened(s) \/ Closed(s)
    \/ UserDisconnects
    \/ \E name \in Typed, db \in Dbs : (name # "typed" => db = 0) /\ UserSends(name, db)
    \/ \E db \in Dbs : UserSelects(db)
    \/ \E s \in Sockets : BridgeReplies(s) \/ Message(s)

\* The bridge handles what arrives, the browser delivers the messages it has
\* received and ends a closing handshake.
DFairness ==
    \A s \in Sockets : /\ WF_dvars(BridgeReplies(s))
                       /\ WF_dvars(Message(s))
                       /\ WF_dvars(dstate[s] = "closing" /\ Closed(s))

DSpec == DInit /\ [][DNext]_dvars /\ DFairness

-----------------------------------------------------------------------------
\* The requests and replies on their way, but for replies without an id.
UnderWay(s) ==
    {m \in {dup[s][i] : i \in 1 .. Len(dup[s])} \cup {ddown[s][i] : i \in 1 .. Len(ddown[s])} :
        m.id # 0}

\* A callback is run with the reply to its own request, though one table
\* serves all sockets, and every request under way on a socket that can still
\* bring its reply has its callback; a reply without an id runs none
\* (app.js:122-129, 175-181, bridge.js:244-290).
RepliesReachCallbacks ==
    \A s \in Sockets :
        /\ \A m \in UnderWay(s), r \in dpending : r.id = m.id => r = m
        /\ dstate[s] = "open" => UnderWay(s) \subseteq dpending
        /\ \A t \in Sockets \ {s} : UnderWay(s) \cap UnderWay(t) = {}

\* Unless the page has connected while an earlier socket was not closed, what
\* it shows is true, and one interval polls while it is connected and none
\* while it is not (app.js:141-170).
DashboardInStep ==
    ~doverlapped =>
        /\ dshown <=> dws # NoSocket /\ dstate[dws] = "open"
        /\ dpolls = IF dshown THEN 1 ELSE 0
        /\ dstats = dshown

\* The last choice wins.  Of all the SELECTs that the page and its user have
\* under way, on one connection or on several, the server ends up on the
\* database shown, if it is the connection that was told of it outside MULTI
\* and nothing typed since names another; later MULTIs do not matter
\* (app.js:183-199, 284-290, bridge.js:257-275, registry.js:141-158,
\* server_cmds.js:30-40, 218-219).
DatabaseInStep ==
    \A s \in Sockets :
        /\ dtold = s /\ dstate[s] = "open"
        /\ \A i \in 1 .. Len(dup[s]) : dup[s][i].name # "select"
        => dserverDb[s] = dselected

\* A request that names a command is answered, unless the socket it was sent on
\* goes: its callback does not stay for ever while a socket that carries it is
\* open.  The callback of an empty command does (app.js:122-129,
\* bridge.js:253-290).
RequestsAnswered ==
    \A s \in Sockets, id \in 1 .. MaxRequests :
        (\E m \in UnderWay(s) : m.id = id /\ m.name # "empty") ~>
            dstate[s] = "closed" \/ ~\E r \in dpending : r.id = id
=============================================================================
