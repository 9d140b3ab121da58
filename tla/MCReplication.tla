--------------------------- MODULE MCReplication ---------------------------
(* Instances of the commits, their refinement and a replica for TLC. *)
EXTENDS Replication, TLC

Touch(a, b) == (0 :> a @@ 1 :> b)
Touch3(a, b, c) == (0 :> a @@ 1 :> b @@ 2 :> c)

\* Three chunks on two latches: 0 and 2 have the same one.  Transactions on
\* one chunk, on two of one latch, and on two of different latches.
MixedPrograms ==
  {Touch3("merge", "none", "none"), Touch3("put", "none", "none"),
   Touch3("merge", "none", "put"), Touch3("none", "put", "merge")}

\* A transaction on both chunks besides one on the first.
SpanningPrograms == {Touch("put", "put"), Touch("put", "none")}
=============================================================================
