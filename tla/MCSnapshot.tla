----------------------------- MODULE MCSnapshot -----------------------------
(* Instances of Snapshot for TLC. *)
EXTENDS Snapshot, TLC

Touch(a, b) == (0 :> a @@ 1 :> b)

\* Two kinds of transactions, which meet on the first chunk; one leaves the second
\* chunk without a commit.
MeetingPrograms == {Touch("put", "merge"), Touch("put", "none")}

Interchangeable == Permutations(Txn) \cup Permutations(Snapper)
=============================================================================
