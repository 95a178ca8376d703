------------------------------- MODULE PubSub ------------------------------
(***************************************************************************)
(* Publish/subscribe (src/src/commands/pubsub.js): the broker's maps from  *)
(* channels and patterns to connections, and the sets every connection     *)
(* keeps of its own subscriptions.  Each operation updates both, but RESET *)
(* (server_cmds.js) and the end of a bridge client (bridge.js) touch only  *)
(* one of them or none.                                                    *)
(*                                                                         *)
(* _channels and _patterns are one map over topics here, and subscriptions *)
(* and patternSubs one set: an entry that is missing or null and one that  *)
(* is empty behave alike.  A client stands for one connection: it does not *)
(* come back once it is gone.                                              *)
(***************************************************************************)
EXTENDS FiniteSets

CONSTANTS
    Clients,
    Bridged,      \* the clients that come through the WebSocket bridge
    Channels,
    Patterns,
    Matches       \* the pairs <<pattern, channel>> that globMatch accepts

Topics == Channels \cup Patterns

ASSUME PubSubParameters ==
    /\ Bridged \subseteq Clients
    /\ Channels \cap Patterns = {}
    /\ Matches \subseteq Patterns \X Channels

VARIABLES
    up,           \* is the server process alive
    status,       \* of each connection; "ending" once QUIT has called socket.end()
    broker,       \* _channels and _patterns
    subs,         \* subscriptions and patternSubs of each connection
    \* History: the connections that have called RESET, and whom the last
    \* command delivered a message to, as <<client, topic>>.
    reset, delivered

vars == <<up, status, broker, subs, reset, delivered>>

Init ==
    /\ up = TRUE
    /\ status = [c \in Clients |-> "new"]
    /\ broker = [t \in Topics |-> {}]
    /\ subs = [c \in Clients |-> {}]
    /\ reset = {} /\ delivered = {}

-----------------------------------------------------------------------------
\* The connections whose input is still read: after QUIT a later chunk is
\* handled like any other.
Served(c) == up /\ status[c] \in {"open", "ending"}

Open(c) ==
    /\ up /\ status[c] = "new"
    /\ status' = [status EXCEPT ![c] = "open"]
    /\ delivered' = {}
    /\ UNCHANGED <<up, broker, subs, reset>>

Quit(c) ==
    /\ c \notin Bridged /\ Served(c)
    /\ status' = [status EXCEPT ![c] = "ending"]
    /\ delivered' = {}
    /\ UNCHANGED <<up, broker, subs, reset>>

\* Mutant: every SUBSCRIBE starts a new set of subscribers.
Subscribe_NewSet(c, t) ==
    /\ Served(c)
    /\ broker' = [broker EXCEPT ![t] = {c}]
    /\ subs' = [subs EXCEPT ![c] = @ \cup {t}]
    /\ delivered' = {}
    /\ UNCHANGED <<up, status, reset>>

\* SUBSCRIBE, PSUBSCRIBE with one argument; more arguments are repetitions.
Subscribe(c, t) ==
    /\ Served(c)
    /\ broker' = [broker EXCEPT ![t] = @ \cup {c}]
    /\ subs' = [subs EXCEPT ![c] = @ \cup {t}]
    /\ delivered' = {}
    /\ UNCHANGED <<up, status, reset>>

\* c leaves the topics T, on both sides.
Leave(c, T) ==
    /\ broker' = [t \in Topics |-> IF t \in T THEN broker[t] \ {c} ELSE broker[t]]
    /\ subs' = [subs EXCEPT ![c] = @ \ T]
    /\ delivered' = {}

\* UNSUBSCRIBE, PUNSUBSCRIBE with one argument: the broker forgets c even if
\* c's own set does not name the topic.
Unsubscribe(c, t) ==
    /\ Served(c)
    /\ Leave(c, {t})
    /\ UNCHANGED <<up, status, reset>>

\* Mutant: the connection forgets its subscriptions, the broker does not.
UnsubscribeAll_KeepsBroker(c, K) ==
    /\ Served(c)
    /\ subs' = [subs EXCEPT ![c] = @ \ K]
    /\ delivered' = {}
    /\ UNCHANGED <<up, status, broker, reset>>

\* Without arguments, K being all channels or all patterns: only what c's own
\* set names.
UnsubscribeAll(c, K) ==
    /\ Served(c)
    /\ Leave(c, subs[c] \cap K)
    /\ UNCHANGED <<up, status, reset>>

-----------------------------------------------------------------------------
\* The topics whose subscribers a message on ch is written to.
PatternsOf(ch) == {p \in Patterns : <<p, ch>> \in Matches}

Receives(b, T) == {ct \in Clients \X T : ct[1] \in b[ct[2]]}

\* A write to a TCP socket that is ending or destroyed reaches nobody; a
\* bridge client has no write method at all.
Reached(P) == {ct \in P : status[ct[1]] = "open" /\ ct[1] \notin Bridged}
Throws(P) == \E ct \in P : ct[1] \in Bridged

\* Mutant: the patterns are not consulted.
Publish_DirectOnly(c, ch) ==
    /\ Served(c)
    /\ ~Throws(Receives(broker, {ch}))
    /\ delivered' = Reached(Receives(broker, {ch}))
    /\ UNCHANGED <<up, status, broker, subs, reset>>

Publish(c, ch) ==
    LET P == Receives(broker, {ch} \cup PatternsOf(ch)) IN
    /\ Served(c)
    /\ ~Throws(P)
    /\ delivered' = Reached(P)
    /\ UNCHANGED <<up, status, broker, subs, reset>>

\* conn.write of a bridge client is a TypeError that nothing catches: it ends
\* the process, after the subscribers that came before it were written to.
PublishThrows(c, ch) ==
    LET direct == Receives(broker, {ch})
        matched == Receives(broker, PatternsOf(ch))
    IN  /\ Served(c)
        /\ up' = FALSE
        /\ \/ Throws(direct) /\ delivered' \in SUBSET Reached(direct)
           \/ /\ ~Throws(direct) /\ Throws(matched)
              /\ \E D \in SUBSET Reached(matched) : delivered' = Reached(direct) \cup D
        /\ UNCHANGED <<status, broker, subs, reset>>

\* RESET: subscriptions = null; patternSubs and the broker stay.
Reset(c) ==
    /\ Served(c)
    /\ subs' = [subs EXCEPT ![c] = @ \ Channels]
    /\ reset' = reset \cup {c}
    /\ delivered' = {}
    /\ UNCHANGED <<up, status, broker>>

\* Mutant: removeConnection clears the channels and forgets the patterns.
Close_KeepsPatterns(c) ==
    /\ Served(c)
    /\ status' = [status EXCEPT ![c] = "gone"]
    /\ IF c \in Bridged
       THEN UNCHANGED <<broker, subs>> /\ delivered' = {}
       ELSE Leave(c, subs[c] \cap Channels)
    /\ UNCHANGED <<up, reset>>

\* The end of a connection.  removeConnection visits the topics of c's own
\* sets; the bridge does not call it.
Close(c) ==
    /\ Served(c)
    /\ status' = [status EXCEPT ![c] = "gone"]
    /\ IF c \in Bridged
       THEN UNCHANGED <<broker, subs>> /\ delivered' = {}
       ELSE Leave(c, subs[c])
    /\ UNCHANGED <<up, reset>>

Next ==
    \E c \in Clients :
        \/ Open(c) \/ Quit(c) \/ Reset(c) \/ Close(c)
        \/ \E t \in Topics : Subscribe(c, t) \/ Unsubscribe(c, t)
        \/ UnsubscribeAll(c, Channels) \/ UnsubscribeAll(c, Patterns)
        \/ \E ch \in Channels : Publish(c, ch) \/ PublishThrows(c, ch)

Spec == Init /\ [][Next]_vars

-----------------------------------------------------------------------------
TypeOK ==
    /\ up \in BOOLEAN
    /\ status \in [Clients -> {"new", "open", "ending", "gone"}]
    /\ broker \in [Topics -> SUBSET Clients]
    /\ subs \in [Clients -> SUBSET Topics]
    /\ \A c \in Clients \ Bridged : status[c] \in {"new", "gone"} => subs[c] = {}
    /\ reset \subseteq Clients
    /\ delivered \subseteq Clients \X Topics

\* Whatever a connection believes it is subscribed to, the broker delivers to
\* it, RESET or not, over TCP or over the bridge (pubsub.js:12-73, 133-155).
SubscribersKnown ==
    \A c \in Clients : \A t \in subs[c] : c \in broker[t]

\* The broker holds no TCP connection that is gone, nor one that has left the
\* topic, unless the connection has called RESET (pubsub.js:133-155).
NoStaleSubscriber ==
    \A c \in Clients \ (Bridged \cup reset) : \A t \in Topics :
        c \in broker[t] => t \in subs[c] /\ status[c] \in {"open", "ending"}

\* A PUBLISH that returns has written to an open TCP connection once for the
\* channel if it is subscribed to it, and once for each matching pattern it
\* is subscribed to; nothing else (pubsub.js:108-131).
PublishReachesSubscribers ==
    [][ \A c \in Clients, ch \in Channels, e \in Clients \ (Bridged \cup reset), t \in Topics :
            Publish(c, ch) =>
                (<<e, t>> \in delivered'
                 <=> /\ status[e] = "open" /\ t \in subs[e]
                     /\ t = ch \/ <<t, ch>> \in Matches) ]_vars
=============================================================================
