---------------------------- MODULE MCPrimaryKey ----------------------------
(* Instances of PrimaryKey for TLC. *)
EXTENDS PrimaryKey, TLC

\* Goroutines are interchangeable, and so are keys: no liveness is checked.
KeySymmetry == Permutations(Txn) \cup Permutations(Key)

\* Concurrent transactions that make two insertions each.
Inserts == {[ops |-> {"insert", "upsert", "query"}, serial |-> FALSE, size |-> 4]}

\* With deletions and failures, and with keys that change, one at a time.
AllWorkloads ==
  Inserts \cup
  {[ops |-> KeyOps \ {"setkey"}, serial |-> TRUE, size |-> 2],
   [ops |-> KeyOps \ {"delete"}, serial |-> TRUE, size |-> 1]}
=============================================================================
