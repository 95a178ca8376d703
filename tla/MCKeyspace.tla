---------------------------- MODULE MCKeyspace -----------------------------
(* Small instances of Keyspace for TLC. *)
EXTENDS Keyspace, TLC

\* No definition of Keyspace singles out a database, key, string or member.
Symmetry == Permutations(DBs) \cup Permutations(Keys) \cup Permutations(Strings)
            \cup Permutations(Elems)
=============================================================================
