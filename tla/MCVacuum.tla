----------------------------- MODULE MCVacuum -----------------------------
(* Constants of the run of Vacuum. *)
EXTENDS Vacuum

Inserts == {"insert"} \X {{}, {"set"}}

\* Two clients at once, which set and extend; or one after the other, which also
\* delete; or both and the end of the collection.
SomeWorkloads ==
  { [changes |-> Inserts \cup ({"none"} \X {{"reset"}, {"extend"}}),
     atOnce |-> 2, txns |-> 3, closes |-> FALSE],
    [changes |-> Inserts \cup {<<"none", {"set", "extend"}>>, <<"delete", {}>>},
     atOnce |-> 1, txns |-> 3, closes |-> FALSE],
    [changes |-> Inserts \cup {<<"none", {"extend"}>>}, atOnce |-> 1, txns |-> 2, closes |-> TRUE] }
=============================================================================
