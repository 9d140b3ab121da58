------------------------------ MODULE MCBuffer ------------------------------
(* Instances of Buffer for TLC: rows of two chunks. *)
EXTENDS Buffer

\* Two kinds of values, so that an overwritten store is noticed.
Letters == {<<"a">>, <<"b">>}

\* Numbers in any order, and strings that are updated once per transaction.
InPlaceKinds == {[fixed |-> TRUE, repeats |-> TRUE], [fixed |-> FALSE, repeats |-> FALSE]}
=============================================================================
