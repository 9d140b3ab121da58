---------------------------- MODULE AtomicCommit ----------------------------
(***************************************************************************)
(* What the commits of a collection promise.  A transaction is a bundle of *)
(* chunk commits.  Each of them takes effect at once, on the values of its *)
(* chunk and on the change stream together, so that the stream alone tells *)
(* every value the chunk has ever had.  Nothing is promised about the      *)
(* chunks of one transaction with respect to each other.                   *)
(*                                                                         *)
(* A chunk is represented by one cell.  A value is the sequence of the     *)
(* transactions that made it: Put starts a new one, Merge extends it.      *)
(***************************************************************************)
EXTENDS Sequences

CONSTANTS
  Txn,       \* transactions
  Chunk,     \* chunks
  Programs   \* what a transaction may do: functions from Chunk to Ops

Ops == {"none", "put", "merge"}

VARIABLES
  value,   \* the cell of each chunk
  plan,    \* what each transaction has still to commit
  stream   \* the chunk commits in the order they were published

vars == <<value, plan, stream>>

Nothing == [c \in Chunk |-> "none"]

Init ==
  /\ value = [c \in Chunk |-> << >>]
  /\ plan = [t \in Txn |-> Nothing]
  /\ stream = << >>

Start(t) ==
  /\ plan[t] = Nothing
  /\ \A i \in DOMAIN stream : stream[i].txn # t
  /\ \E p \in Programs : plan' = [plan EXCEPT ![t] = p]
  /\ UNCHANGED <<value, stream>>

Result(t, op, old) == IF op = "merge" THEN Append(old, t) ELSE <<t>>

CommitChunk(t, c) ==
  LET new == Result(t, plan[t][c], value[c])
  IN  /\ plan[t][c] # "none"
      /\ value' = [value EXCEPT ![c] = new]
      /\ plan' = [plan EXCEPT ![t][c] = "none"]
      /\ stream' = Append(stream, [txn |-> t, chunk |-> c, val |-> new])

Next == \E t \in Txn : Start(t) \/ \E c \in Chunk : CommitChunk(t, c)

\* A transaction that has started commits everything it planned.
Fairness == \A t \in Txn, c \in Chunk : WF_vars(CommitChunk(t, c))

Spec == Init /\ [][Next]_vars /\ Fairness
=============================================================================
