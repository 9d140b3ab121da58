----------------------------- MODULE MCFillList -----------------------------
(* Instances of FillList for TLC. *)
EXTENDS FillList, TLC

\* Transactions are interchangeable: the constants and the properties treat
\* them alike and no liveness is checked.
TxnSymmetry == Permutations(Txn)

InsertOps == {"insert", "fail", "rollback"}
Inserts(n) == [ops |-> InsertOps, markers |-> 2, rows |-> 4, atOnce |-> n]

\* Anything, two at a time and one marker each; and only inserts.
AllWorkloads ==
  {[ops |-> AllOps, markers |-> 1, rows |-> 3, atOnce |-> 2], Inserts(3)}

FewInserts == {Inserts(2)}
=============================================================================
