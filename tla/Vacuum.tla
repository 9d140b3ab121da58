------------------------------ MODULE Vacuum ------------------------------
(***************************************************************************)
(* Expiration (column_expire.go): the column of deadlines that every       *)
(* collection has, the transactions that set and extend them, and the      *)
(* goroutine that deletes the rows whose deadline has passed.              *)
(*                                                                         *)
(* The vacuum is a query like any other: it takes the time, copies the     *)
(* fill list, goes through its copy chunk by chunk under shared latches,   *)
(* and deletes chunk by chunk when it commits, whatever the row is by      *)
(* then.  A deadline of 0 means never.                                     *)
(***************************************************************************)
EXTENDS Integers, FiniteSets

CONSTANTS
  Client,     \* goroutines that insert, change and delete rows
  Rows,       \* the rows
  ChunkRows,  \* rows of a chunk
  Start,      \* the time at which the collection is created, far after 0
  MaxTime,    \* bound: the time at which the clock stops
  TTLs,       \* what clients set as time-to-live, and extend it by
  Workloads   \* what the clients do, a set of Workload

\* What a transaction does to its row: a marker and updates of its deadline.  One
\* that sets and extends does so in this order.
Updates == { {}, {"set"}, {"reset"}, {"extend"}, {"set", "extend"} }
Change == {"none", "insert", "delete"} \X Updates

\* Bounds: transactions at once and in all; and whether the collection is closed.
Workload == [changes : SUBSET Change, atOnce : Nat, txns : Nat, closes : BOOLEAN]

ASSUME VacuumAssumption ==
  /\ Rows \subseteq Nat /\ Rows # {} /\ IsFiniteSet(Rows) /\ ChunkRows \in Nat \ {0}
  /\ TTLs \subseteq Nat \ {0} /\ MaxTime \in Nat
  /\ Start \in 0 .. MaxTime /\ \A d \in TTLs : d < Start
  /\ Workloads \subseteq Workload

VARIABLES
  workload,      \* never changes
  clock,
  fill,          \* Collection.fill
  has, deadline, \* the fill list and the data of the column
  cpc, change,   \* where a client is, and what its transaction does
  txns,          \* how many transactions clients have begun
  vpc,           \* where the vacuum is
  now,           \* the time at which its query began
  index,         \* Txn.index of its query
  chunk,         \* the chunk that it is at
  marks,         \* the rows that it has marked for deletion
  closed,        \* whether the collection was closed
  promise,       \* history: the deadline that clients have been given for a row
  astray,        \* history: rows whose deadline is none that a client meant
  late,          \* history: clients whose row was deleted since they looked
  touched        \* history: the rows changed since the vacuum copied the fill list

column == <<has, deadline>>
clients == <<cpc, change, txns>>
query == <<vpc, now, index, chunk, marks>>
history == <<promise, astray, late, touched>>
vars == <<workload, clock, fill, column, clients, query, closed, history>>

ChunkAt(r) == r \div ChunkRows

\* Mutant of LastChunk: the last chunk is left out.
LastChunkShort == CHOOSE c \in 0 .. Cardinality(Rows) : \E r \in Rows : ChunkAt(r) = c + 1
                                                   /\ \A s \in Rows : ChunkAt(s) <= c + 1

LastChunk == CHOOSE c \in {ChunkAt(r) : r \in Rows} : \A r \in Rows : ChunkAt(r) <= c

NoChange == [marker |-> "none", updates |-> {}, row |-> 0, until |-> 0, by |-> 0]

Init ==
  /\ workload \in Workloads
  /\ clock = Start /\ closed = FALSE
  /\ fill = {} /\ has = {} /\ deadline = [r \in Rows |-> 0]
  /\ cpc = [c \in Client |-> "idle"] /\ change = [c \in Client |-> NoChange] /\ txns = 0
  /\ vpc = "asleep" /\ now = 0 /\ index = {} /\ chunk = 0 /\ marks = {}
  /\ promise = [r \in Rows |-> 0] /\ astray = {} /\ late = {} /\ touched = {}

Tick ==
  /\ clock < MaxTime
  /\ clock' = clock + 1
  /\ UNCHANGED <<workload, fill, column, clients, query, closed, history>>

Close ==
  /\ workload.closes /\ ~closed /\ closed' = TRUE
  /\ UNCHANGED <<workload, clock, fill, column, clients, query, history>>

-----------------------------------------------------------------------------
(* Transactions of clients *)

Touch(r) == touched' = IF vpc \in {"asleep", "awake", "stopped"} THEN {} ELSE touched \cup {r}

LatchedByClient(k) == \E c \in Client : cpc[c] = "latched" /\ ChunkAt(change[c].row) = k
LatchedByVacuum(k) == vpc = "deletes" /\ chunk = k

WriteTTL(ttl) == IF ttl > 0 THEN clock + ttl ELSE 0

\* The function that is passed to Query: an insertion reserves a row.  Set puts
\* the deadline, Extend a difference, into the buffer.
Choose(c, marker, updates, r, ttl) ==
  /\ cpc[c] = "idle" /\ cpc' = [cpc EXCEPT ![c] = "chosen"]
  /\ <<marker, updates>> \in workload.changes
  /\ Cardinality({u \in Client : cpc[u] # "idle"}) < workload.atOnce
  /\ txns < workload.txns /\ txns' = txns + 1
  /\ IF marker = "insert" THEN r \notin fill /\ fill' = fill \cup {r} /\ Touch(r)
     ELSE r \in fill /\ UNCHANGED <<fill, touched>>
  /\ change' = [change EXCEPT ![c] =
       [marker |-> marker, updates |-> updates, row |-> r,
        until |-> WriteTTL(IF "set" \in updates THEN ttl ELSE 0),
        by |-> ttl]]
  /\ UNCHANGED <<workload, clock, column, query, closed, promise, astray, late>>

Deleted(S) == late' = late \cup {c \in Client : cpc[c] # "idle" /\ change[c].row \in S}

\* The exclusive latch and the first half of commitMarkers().
Mark(c) ==
  LET r == change[c].row
  IN  /\ cpc[c] = "chosen" /\ cpc' = [cpc EXCEPT ![c] = "latched"]
      /\ ~LatchedByClient(ChunkAt(r)) /\ ~LatchedByVacuum(ChunkAt(r))
      /\ fill' = CASE change[c].marker = "insert" -> fill \cup {r}
                   [] change[c].marker = "delete" -> fill \ {r}
                   [] OTHER -> fill
      /\ IF change[c].marker = "delete" THEN Deleted({r} \cap fill) ELSE UNCHANGED late
      /\ Touch(r)
      /\ UNCHANGED <<workload, clock, column, change, txns, query, closed, promise, astray>>

\* Put of the column, if the transaction sets or resets the deadline ...
Stored(u, old) == IF u.updates \cap {"set", "reset"} # {} THEN u.until ELSE old

\* ... and then Merge, if it extends it.
Updated(u, old) == Stored(u, old) + (IF "extend" \in u.updates THEN u.by ELSE 0)

\* What clients may expect: an extension of no deadline is no deadline.
Promised(u, old) == IF Stored(u, old) = 0 THEN 0 ELSE Updated(u, old)

\* The updates go astray: they extend a deadline that is not there, or are
\* committed after their row was deleted.
GoAstray(c) ==
  LET u == change[c]
  IN  /\ u.updates # {}
      /\ \/ c \in late
         \/ u.updates = {"extend"} /\ promise[u.row] = 0

\* The second half of commitMarkers(), commitUpdates(), and the release.
Apply(c) ==
  LET u == change[c]
      r == u.row
  IN  /\ cpc[c] = "latched" /\ cpc' = [cpc EXCEPT ![c] = "idle"]
      /\ has' = IF u.updates # {} THEN has \cup {r}
                ELSE IF u.marker = "delete" THEN has \ {r} ELSE has
      /\ deadline' = [deadline EXCEPT ![r] = Updated(u, @)]
      /\ promise' = [promise EXCEPT ![r] = IF u.marker = "delete" THEN 0 ELSE Promised(u, @)]
      /\ astray' = IF GoAstray(c) THEN astray \cup {r}
                   ELSE IF u.marker = "delete" THEN astray \ {r} ELSE astray
      /\ change' = [change EXCEPT ![c] = NoChange]
      /\ late' = late \ {c}
      /\ Touch(r)
      /\ UNCHANGED <<workload, clock, fill, txns, query, closed>>

-----------------------------------------------------------------------------
(* The vacuum *)

Others == <<workload, clock, clients, closed>>

\* A tick, unless the context is done; if both are, select takes either.
Wake ==
  /\ vpc = "asleep" /\ vpc' = "awake"
  /\ now' = clock
  /\ UNCHANGED <<Others, fill, column, index, chunk, marks, history>>

Stop ==
  /\ vpc = "asleep" /\ closed /\ vpc' = "stopped"
  /\ UNCHANGED <<Others, fill, column, now, index, chunk, marks, history>>

\* initialize(), called by With()
Initialize ==
  /\ vpc = "awake" /\ vpc' = "selects"
  /\ index' = fill /\ chunk' = 0 /\ touched' = {}
  /\ UNCHANGED <<Others, fill, column, now, marks, promise, astray, late>>

\* Mutant of NextChunk: one chunk too many.
NextChunkBeyond(then) ==
  IF chunk <= LastChunk THEN chunk' = chunk + 1 /\ UNCHANGED vpc ELSE chunk' = 0 /\ vpc' = then

NextChunk(then) ==
  IF chunk < LastChunk THEN chunk' = chunk + 1 /\ UNCHANGED vpc ELSE chunk' = 0 /\ vpc' = then

\* With("expire")
Select ==
  /\ vpc = "selects" /\ ~LatchedByClient(chunk)
  /\ index' = {r \in index : ChunkAt(r) = chunk => r \in has}
  /\ NextChunk("reads")
  /\ UNCHANGED <<Others, fill, column, now, marks, history>>

\* Mutant of ExpiresAt: zero is a time like any other.
ExpiresAtZero(r) == r \in has

\* Whether a row has a deadline at all.
ExpiresAt(r) == r \in has /\ deadline[r] # 0

\* Range(), and DeleteAt() in its callback
Read ==
  /\ vpc = "reads" /\ ~LatchedByClient(chunk)
  /\ marks' = marks \cup {r \in index : ChunkAt(r) = chunk /\ ExpiresAt(r) /\ now > deadline[r]}
  /\ NextChunk("commits")
  /\ UNCHANGED <<Others, fill, column, now, index, history>>

Marked == {r \in marks : ChunkAt(r) = chunk}

\* The two halves of commitMarkers(), the first with the latch of the chunk.
\* Chunks without a mark are not dirty.
MarkExpired ==
  /\ vpc = "commits" /\ Marked # {} /\ ~LatchedByClient(chunk)
  /\ vpc' = "deletes"
  /\ fill' = fill \ Marked
  /\ Deleted(Marked \cap fill)
  /\ UNCHANGED <<Others, column, now, index, chunk, marks, promise, astray, touched>>

NotDirty ==
  /\ vpc = "commits" /\ Marked = {} /\ chunk < LastChunk
  /\ chunk' = chunk + 1
  /\ UNCHANGED <<Others, fill, column, vpc, now, index, marks, history>>

\* The end of the query; the transaction goes back to the pool.
Sleep ==
  /\ vpc = "commits" /\ Marked = {} /\ chunk = LastChunk
  /\ vpc' = "asleep"
  /\ now' = 0 /\ index' = {} /\ chunk' = 0 /\ marks' = {} /\ touched' = {}
  /\ UNCHANGED <<Others, fill, column, promise, astray, late>>

\* Mutant of DeleteExpired: the column keeps its values.
DeleteExpiredRowsOnly ==
  /\ vpc = "deletes" /\ vpc' = "commits"
  /\ marks' = marks \ Marked
  /\ promise' = [r \in Rows |-> IF r \in Marked THEN 0 ELSE promise[r]]
  /\ astray' = astray \ Marked
  /\ UNCHANGED <<Others, fill, column, now, index, chunk, late, touched>>

DeleteExpired ==
  /\ vpc = "deletes" /\ vpc' = "commits"
  /\ has' = has \ Marked
  /\ marks' = marks \ Marked
  /\ promise' = [r \in Rows |-> IF r \in Marked THEN 0 ELSE promise[r]]
  /\ astray' = astray \ Marked
  /\ UNCHANGED <<Others, fill, deadline, now, index, chunk, late, touched>>

VacuumStep ==
  Wake \/ Stop \/ Initialize \/ Select \/ Read \/ MarkExpired \/ DeleteExpired \/ NotDirty
  \/ Sleep

Next ==
  \/ Tick \/ Close
  \/ \E c \in Client :
       \/ \E ch \in Change, r \in Rows, ttl \in TTLs : Choose(c, ch[1], ch[2], r, ttl)
       \/ Mark(c) \/ Apply(c)
  \/ VacuumStep

\* The vacuum and a client that holds a latch go on; time, clients and the end
\* of the collection are free.
Spec ==
  /\ Init /\ [][Next]_vars
  /\ WF_vars(VacuumStep) /\ \A c \in Client : WF_vars(Apply(c))

-----------------------------------------------------------------------------
(* Properties *)

TypeOK ==
  /\ workload \in Workloads /\ clock \in Start .. MaxTime /\ closed \in BOOLEAN
  /\ fill \subseteq Rows /\ has \subseteq Rows /\ deadline \in [Rows -> Nat]
  /\ cpc \in [Client -> {"idle", "chosen", "latched"}]
  /\ \A c \in Client : <<change[c].marker, change[c].updates>> \in Change
  /\ \A c \in Client : cpc[c] # "idle" => change[c].row \in Rows
  /\ txns \in 0 .. workload.txns
  /\ vpc \in {"asleep", "awake", "selects", "reads", "commits", "deletes", "stopped"}
  /\ now \in 0 .. clock /\ index \subseteq Rows /\ chunk \in 0 .. LastChunk /\ marks \subseteq index
  /\ promise \in [Rows -> Nat] /\ astray \subseteq Rows /\ touched \subseteq Rows

Latched(r) == LatchedByClient(ChunkAt(r)) \/ LatchedByVacuum(ChunkAt(r))

\* The column says of each row what clients have been promised, and a row that
\* was deleted, by a client or by the vacuum, leaves no deadline to the one that
\* uses it next; except for updates that went astray.
DeadlinesArePromises ==
  \A r \in Rows \ astray :
    ~Latched(r) =>
      IF r \in fill THEN (IF r \in has THEN deadline[r] ELSE 0) = promise[r] ELSE r \notin has

\* The vacuum deletes no row before its time, and none that has no deadline,
\* whatever it was in an earlier life: "cleans up the expired objects".  Rows that
\* were changed since it copied the fill list are excepted: a row that is
\* extended, or deleted and used again, in the meantime is deleted nevertheless.
OnlyExpiredRowsAreVacuumed ==
  [][vpc' = "deletes" /\ vpc # "deletes" =>
       \A r \in fill \ fill' :
         r \in touched \cup astray \/ (promise[r] # 0 /\ promise[r] < clock)]_vars

Expired(r) == r \in fill /\ r \in has /\ deadline[r] # 0 /\ deadline[r] < clock

\* A row whose deadline has passed is deleted in the end, or gets another
\* deadline, or the collection is closed.
ExpiredRowsLeave == \A r \in Rows : Expired(r) ~> (~Expired(r) \/ closed)
=============================================================================
