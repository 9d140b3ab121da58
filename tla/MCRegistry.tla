----------------------------- MODULE MCRegistry -----------------------------
EXTENDS Registry, TLC

CONSTANTS a1, a2, price, title, rich, poor

\* Indexes beside each other and drops, with little room in the array; and
\* columns beside transactions that insert, fail and delete.
SomeWorkloads ==
  { [ops |-> Ops, total |-> 6, rows |-> 0, fails |-> FALSE, deletes |-> FALSE],
    [ops |-> {"createColumn", "dropColumn", "createIndex"}, total |-> 3, rows |-> 4, fails |-> TRUE, deletes |-> TRUE] }

Interchangeable ==
  Permutations({a1, a2}) \cup Permutations({price, title}) \cup Permutations({rich, poor})
=============================================================================
