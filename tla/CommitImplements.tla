-------------------------- MODULE CommitImplements --------------------------
(***************************************************************************)
(* The commit protocol implements atomic chunk commits.  A chunk commit    *)
(* takes effect when it is sent to the change stream.  From the moment the *)
(* cell is written until then, the abstract cell is still the one that     *)
(* Apply found; nobody can tell, since the latch is held.                  *)
(***************************************************************************)
EXTENDS Commit

Unpublished(c) == At(c, {"write", "index", "record", "append", "send"})

AbstractValue ==
  [c \in Chunk |-> IF Unpublished(c) = {} THEN value[c]
                   ELSE old[CHOOSE t \in Unpublished(c) : TRUE]]

AbstractPlan ==
  [t \in Txn |-> [c \in Chunk |->
     IF c \in todo[t] /\ ~(pc[t] = "unlock" /\ c = Current(t))
     THEN program[t][c] ELSE "none"]]

AbstractStream ==
  [i \in DOMAIN (received \o channel) |->
     LET m == (received \o channel)[i]
     IN  [txn |-> m.txn, chunk |-> m.chunk, val |-> m.updates[m.chunk].val]]

Atomic == INSTANCE AtomicCommit
            WITH value <- AbstractValue, plan <- AbstractPlan, stream <- AbstractStream

\* Each chunk commit happens atomically and is published with its effect, and
\* a transaction that starts to commit commits everything.
ImplementsAtomicCommit == Atomic!Spec
=============================================================================
