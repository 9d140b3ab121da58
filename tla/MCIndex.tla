------------------------------ MODULE MCIndex ------------------------------
(* Instances of Index for TLC. *)
EXTENDS Index

\* Anything, and unique values that are only overwritten.
SomeWorkloads ==
  {[ops |-> {"put", "delete"}, unique |-> FALSE], [ops |-> {"put"}, unique |-> TRUE]}
=============================================================================
