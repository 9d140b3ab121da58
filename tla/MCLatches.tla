----------------------------- MODULE MCLatches -----------------------------
(* Constants of the runs of Latches. *)
EXTENDS Latches, TLC

\* One program for each operation of the collection; chunks of clients differ.
AllOperations ==
  {Insertion(0, TRUE), FailedInsertion(0), UpdateAll, DeleteAt(1), AscendAndSet(1), Snapshot,
   CreateSortIndex}

ThreadSymmetry == Permutations(Thread)
=============================================================================
