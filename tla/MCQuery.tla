------------------------------ MODULE MCQuery ------------------------------
(* Instances of Query for TLC: rows of two chunks, one column and two indexes. *)
EXTENDS Query, TLC

WriterSymmetry == Permutations(Writer)

\* Values are 0 .. 3; one index has the even ones, the other one those above 1.
Rules == [even |-> {0, 2}, large |-> {2, 3}]
Small == {0, 1}
OneTwo == {1, 2}

C(op, names) == [op |-> op, names |-> names]

\* Known and unknown names, alone and together.
SomeCalls ==
  {C("With", <<"even">>), C("With", <<"value", "nothing">>), C("Without", <<"large", "nothing">>),
   C("Union", <<"even", "large">>), C("Union", <<"nothing", "large">>),
   C("WithUnion", <<"even", "large">>), C("WithUnion", <<"value", "nothing">>),
   C("WithInt", << >>), C("Aggregate", << >>)}

Inserts == {<<"insert", "none">>, <<"insert", "put">>, <<"insert", "merge">>}
Updates == {<<"none", "put">>, <<"none", "merge">>}
Deletes == {<<"delete", "none">>}

\* Two writers at a time that do not delete, and one at a time that does.
SomeWorkloads ==
  {[changes |-> Inserts \cup Updates, atOnce |-> 2, txns |-> 2, calls |-> 2],
   [changes |-> Inserts \cup Updates \cup Deletes, atOnce |-> 1, txns |-> 3, calls |-> 2]}
=============================================================================
