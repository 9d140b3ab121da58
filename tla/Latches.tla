------------------------------ MODULE Latches ------------------------------
(***************************************************************************)
(* The locks of a collection, and the order in which every operation takes *)
(* them: Collection.lock, the latches of chunks (slock), the lock of a     *)
(* column, and the two locks of a sorted index.  Four others are left out: *)
(* those of the primary key's table, of a commit log, of the intmap and of *)
(* a bitmap index.  They are innermost: no code that has one takes another *)
(* lock.                                                                   *)
(*                                                                         *)
(* An operation is the sequence of its acquisitions, releases and accesses *)
(* to shared data, put together from the functions it calls; what it does  *)
(* with the data is in the other modules.  Clients call back no operation  *)
(* that takes a lock.  Reads that the code makes without any lock are left *)
(* out: by the callbacks of Ascend and by the creation of an index, and    *)
(* the reads of a column's slice of chunks under a latch only.             *)
(***************************************************************************)
EXTENDS Integers, Sequences, FiniteSets

CONSTANTS
  Thread,     \* goroutines
  Chunks,     \* how many chunks the collection has
  Shards,     \* how many latches there are (128)
  Operations, \* what goroutines do, a set of programs
  None

ASSUME LatchesAssumption ==
  Chunks \in Nat \ {0} /\ Shards \in Nat \ {0} /\ None \notin Thread

-----------------------------------------------------------------------------
(* Programs: sequences of steps *)

Step(act, on) == << <<act, on>> >>
Shared(l, body) == Step("RLock", l) \o body \o Step("RUnlock", l)
Exclusive(l, body) == Step("Lock", l) \o body \o Step("Unlock", l)
Use(reads, writes) == Step("use", <<reads, writes>>)

Owner == <<"Collection.lock">>
Column == <<"column.lock">>    \* of a column of values
Sorted == <<"sorted.lock">>    \* of the column around a sorted index
Back == <<"backLock">>
Tree == <<"btree">>
Latch(c) == <<"slock", c % Shards>>
All == 0 .. Chunks - 1
Locks == {Owner, Column, Sorted, Back, Tree} \cup {Latch(c) : c \in All}

Fill == <<"fill">>             \* Collection.fill, and the length of commits
ID(c) == <<"commits", c>>
Cell(c) == <<"cell", c>>       \* what the column has in a chunk
Slice == <<"chunks">>          \* the column's slice of chunks
Items == <<"items">>           \* of the sorted index

\* One chunk after the other, from the first to the last of them; the programs
\* of all chunks have the same length.
Each(first, last, body) ==
  LET n == Len(body[first])
  IN  [i \in 1 .. n * (last - first + 1) |-> body[first + ((i - 1) \div n)][((i - 1) % n) + 1]]
EachChunk(body) == Each(0, Chunks - 1, body)

\* next() and free()
SetFill == Exclusive(Owner, Use({Fill}, {Fill}))

Initialize == Shared(Owner, Use({Fill}, {}))
QueryAt(c) == Shared(Latch(c), Use({Cell(c)}, {}))
RangeRead == EachChunk([c \in All |-> Shared(Latch(c), Use({Cell(c)}, {}))])
RangeReadPair ==
  EachChunk([c \in All |-> Shared(Latch(c), Shared(Column, Use({Slice}, {})) \o Use({Cell(c)}, {}))])

\* Mutant of Ascend: a latch around its callback, which the code has in comments.
AscendLatched ==
  Initialize \o Shared(Owner, Shared(Tree, Use({Items}, {}) \o RangeRead))

\* The callback runs under both locks; it reads cells without a latch.
Ascend == Initialize \o Shared(Owner, Shared(Tree, Use({Items}, {})))

ApplyColumn(c) == Shared(Column, Use({Slice}, {Cell(c)}))
ApplySorted == Shared(Sorted, Exclusive(Back, Exclusive(Tree, Use({}, {Items}))))

\* Mutant of CommitCapacity: the column grows without its lock.
CommitCapacityUnlocked(grow) ==
  Exclusive(Owner, IF grow THEN Use({Fill}, {Fill, Slice}) \o Exclusive(Sorted, << >>)
                   ELSE Use({Fill}, {}))

CommitCapacity(grow) ==
  Exclusive(Owner, IF grow
                   THEN Use({Fill}, {Fill}) \o Exclusive(Column, Use({}, {Slice}))
                          \o Exclusive(Sorted, << >>)
                   ELSE Use({Fill}, {}))

CommitMarkers(c) == SetFill \o ApplyColumn(c) \o ApplySorted \o Exclusive(Owner, Use({Fill}, {}))
CommitUpdates(c) == ApplyColumn(c) \o ApplySorted

RangeWrite(first, last, markers) ==
  Each(first, last, [c \in first .. last |->
    Exclusive(Latch(c),
      Shared(Owner, Use({Fill}, {ID(c)}))
      \o (IF markers THEN CommitMarkers(c) ELSE << >>)
      \o CommitUpdates(c))])

Commit(first, last, markers, grow) == CommitCapacity(grow) \o RangeWrite(first, last, markers)
Rollback == Exclusive(Owner, Use({Fill}, {}))

CountChunks == Exclusive(Owner, Use({Fill}, {}))

\* Mutant of ReadChunk: the two locks are taken the other way round.
ReadChunkSwapped(c) == Exclusive(Owner, Shared(Latch(c), Use({ID(c), Fill, Slice, Cell(c)}, {})))

ReadChunk(c) == Shared(Latch(c), Exclusive(Owner, Use({ID(c), Fill, Slice, Cell(c)}, {})))

\* What a client can ask for.
Insertion(c, grow) == SetFill \o QueryAt(c) \o Commit(c, c, TRUE, grow)
FailedInsertion(c) == SetFill \o QueryAt(c) \o SetFill \o Rollback
Selection == Initialize \o RangeReadPair
UpdateAll == Selection \o RangeRead \o Commit(0, Chunks - 1, FALSE, FALSE)
DeleteAt(c) == Initialize \o Commit(c, c, TRUE, FALSE)
AscendAndSet(c) == Ascend \o Commit(c, c, FALSE, FALSE)
Snapshot == CountChunks \o EachChunk([c \in All |-> ReadChunk(c)])
CreateSortIndex ==
  Exclusive(Owner, << >>) \o CountChunks \o EachChunk([c \in All |-> ApplySorted])

ClientOperations ==
  {Selection, UpdateAll, Snapshot, CreateSortIndex}
    \cup {Insertion(c, grow) : c \in All, grow \in BOOLEAN}
    \cup {FailedInsertion(c) : c \in All} \cup {DeleteAt(c) : c \in All}
    \cup {AscendAndSet(c) : c \in All}

ASSUME OperationsAssumption == Operations \subseteq ClientOperations

-----------------------------------------------------------------------------
(* Goroutines that run programs, and sync.RWMutex *)

VARIABLES
  program,   \* the operation a goroutine is in
  pc,        \* the step of it that is next
  sharers,   \* who has a lock for reading
  writer,    \* who has a lock for writing, or waits for its readers to leave
  parked     \* who waits for a writer to leave, in order to read

vars == <<program, pc, sharers, writer, parked>>

Init ==
  /\ program = [t \in Thread |-> << >>] /\ pc = [t \in Thread |-> 1]
  /\ sharers = [l \in Locks |-> {}]
  /\ writer = [l \in Locks |-> None]
  /\ parked = [l \in Locks |-> {}]

At(t, act) == pc[t] <= Len(program[t]) /\ program[t][pc[t]][1] = act
On(t) == program[t][pc[t]][2]
Advance(S) ==
  LET done == {t \in S : pc[t] = Len(program[t])}
  IN  /\ program' = [t \in Thread |-> IF t \in done THEN << >> ELSE program[t]]
      /\ pc' = [t \in Thread |-> IF t \in done THEN 1 ELSE IF t \in S THEN pc[t] + 1 ELSE pc[t]]

Begin(t) ==
  /\ program[t] = << >>
  /\ \E p \in Operations : program' = [program EXCEPT ![t] = p]
  /\ UNCHANGED <<pc, sharers, writer, parked>>

Access(t) ==
  /\ At(t, "use")
  /\ Advance({t})
  /\ UNCHANGED <<sharers, writer, parked>>

\* A reader gives way to a writer, also to one that is waiting.
RLock(t) ==
  LET l == On(t)
  IN  /\ At(t, "RLock") /\ t \notin parked[l]
      /\ IF writer[l] = None
         THEN /\ sharers' = [sharers EXCEPT ![l] = @ \cup {t}]
              /\ Advance({t}) /\ UNCHANGED parked
         ELSE /\ parked' = [parked EXCEPT ![l] = @ \cup {t}]
              /\ UNCHANGED <<program, pc, sharers>>
      /\ UNCHANGED writer

RUnlock(t) ==
  /\ At(t, "RUnlock")
  /\ sharers' = [sharers EXCEPT ![On(t)] = @ \ {t}]
  /\ Advance({t})
  /\ UNCHANGED <<writer, parked>>

\* One writer at a time; new readers wait from here on, old ones may go on.
Lock(t) ==
  LET l == On(t)
  IN  /\ At(t, "Lock") /\ writer[l] \in {None, t}
      /\ writer' = [writer EXCEPT ![l] = t]
      /\ IF sharers[l] = {} THEN Advance({t}) ELSE writer[l] = None /\ UNCHANGED <<program, pc>>
      /\ UNCHANGED <<sharers, parked>>

\* All readers that have waited get the lock before the next writer does.
Unlock(t) ==
  LET l == On(t)
  IN  /\ At(t, "Unlock")
      /\ writer' = [writer EXCEPT ![l] = None]
      /\ sharers' = [sharers EXCEPT ![l] = @ \cup parked[l]]
      /\ parked' = [parked EXCEPT ![l] = {}]
      /\ Advance({t} \cup parked[l])

Next ==
  \E t \in Thread :
    Begin(t) \/ Access(t) \/ RLock(t) \/ RUnlock(t) \/ Lock(t) \/ Unlock(t)

Spec == Init /\ [][Next]_vars

-----------------------------------------------------------------------------
(* Properties *)

\* The order of locks, from the outside to the inside.
Rank(l) ==
  CASE l[1] = "slock" -> 0
    [] l = Owner      -> 1
    [] l = Column     -> 2
    [] l = Sorted     -> 3
    [] l = Back       -> 4
    [] OTHER          -> 5

Pends(t, l) == At(t, "Lock") /\ On(t) = l
Holds(t, l) == t \in sharers[l] \/ (writer[l] = t /\ ~Pends(t, l))

\* Whoever wants a lock has only locks that are further outside: the latch of a
\* chunk, then the lock of the collection, then that of a column, then those of
\* a sorted index; and nobody has two latches.
LocksAreOrdered ==
  \A t \in Thread : At(t, "Lock") \/ At(t, "RLock") =>
    On(t) \in Locks /\ \A l \in Locks : Holds(t, l) => Rank(l) < Rank(On(t))

\* Who has to do something before t can go on.
WaitsFor(t) ==
  IF At(t, "RLock") /\ t \in parked[On(t)] THEN {writer[On(t)]}
  ELSE IF At(t, "Lock")
       THEN IF writer[On(t)] \in {None, t} THEN sharers[On(t)] ELSE {writer[On(t)]}
       ELSE {}

\* No goroutines wait for each other in a circle, not even for themselves:
\* inserts, queries, commits, snapshots, iterations over a sorted index and the
\* creation of one take the locks in one order, whoever waits to write.
NobodyWaitsInACircle ==
  \A S \in (SUBSET Thread) \ {{}} : \E t \in S : WaitsFor(t) \cap S = {}

\* The locks that the functions take do protect what they read and write: no
\* goroutine is about to write a datum that another one is about to read or
\* write.  This is so for the fill list, the commit IDs (written under the
\* shared lock of the collection, "OK, since we have a shard lock"), the cells of
\* a chunk, and the items of the sorted index.
NoDataRace ==
  \A t, u \in Thread :
    t # u /\ At(t, "use") /\ At(u, "use") => On(t)[2] \cap (On(u)[1] \cup On(u)[2]) = {}
=============================================================================
