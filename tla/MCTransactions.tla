--------------------------- MODULE MCTransactions --------------------------
(* Small instances of Transactions for TLC. *)
EXTENDS Transactions, TLC

\* A request, with fixed values for the fields its command does not read.
Request(cmd, k, v, deadline, d) ==
    [cmd |-> cmd, key |-> k, to |-> k, val |-> v, elem |-> CHOOSE e \in Elems : TRUE,
     ex |-> deadline, db |-> d, other |-> FirstDb]

Some(S) == CHOOSE x \in S : TRUE
Plain(cmd) == Request(cmd, Some(Keys), Some(Strings), NoDeadline, FirstDb)

SecondDb == CHOOSE d \in DBs : d # FirstDb

\* WATCH and EXEC with different databases selected.
SelectRequests ==
    {Plain("set"), [Plain("select") EXCEPT !.db = SecondDb], Plain("unwatch"), Plain("reset"),
     [Plain("swapdb") EXCEPT !.db = SecondDb]}

\* Every command on keys, on two keys and two types, with a deadline that passes.
CommandRequests ==
    {Plain("set"), Plain("get"), Plain("del"), Plain("persist"), Plain("incr"),
     Plain("getdel"), Plain("sadd"), Plain("srem"), Plain("flushdb"), Plain("flushall"),
     [Plain("expire") EXCEPT !.ex = 2], [Plain("set") EXCEPT !.ex = 3]}
    \cup {[Plain("sadd") EXCEPT !.elem = e] : e \in Elems}
    \cup {[Plain(cmd) EXCEPT !.to = k] : cmd \in {"rename", "renamenx"}, k \in Keys}

Symmetry == Permutations(Clients)

FlushRequests == {Plain("set"), Plain("flushall")}
SetRequests == {Plain("set"), Plain("get")}
=============================================================================
