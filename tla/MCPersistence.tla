--------------------------- MODULE MCPersistence ---------------------------
(* Small instances of Persistence for TLC. *)
EXTENDS Persistence

CONSTANTS db0, db1, k1, k2

Request(cmd, ttl) ==
    [cmd |-> cmd, key |-> k1, to |-> k2, val |-> CHOOSE v \in Strings : TRUE,
     elem |-> CHOOSE e \in Elems : TRUE, ttl |-> ttl, other |-> db1]

\* Two types that refuse each other's commands, deadlines, and every way a
\* value leaves a slot.
MCRequests ==
    {Request(cmd, 0) : cmd \in {"get", "set", "del", "persist", "rename", "sadd",
                                "flushall", "swapdb"}}
    \cup {Request("set", 1), Request("expire", 1)}

\* Transactions that undo themselves, or leave a deadline.
MCQueues ==
    {<<Request("set", 0), Request("rename", 0)>>,
     <<Request("get", 0), Request("del", 0)>>,
     <<Request("sadd", 0), Request("expire", 1)>>}

RdbConfigs == {[appendonly |-> FALSE, appendfsync |-> "everysec"]}
AofConfigs == {[appendonly |-> TRUE, appendfsync |-> "everysec"],
               [appendonly |-> TRUE, appendfsync |-> "always"]}
MCConfigs == RdbConfigs \cup AofConfigs
=============================================================================
