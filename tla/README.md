# A TLA+ model of column

`column` is an in-memory columnar store: a `Collection` has typed columns, rows
are numbered, and every read and write goes through a transaction (`Txn`) that
runs in the goroutine of its caller. These modules model what its goroutines do
to the state they share, TLC checks them on small instances, and TLAPS proves
theorems about the fill list, commits, the change stream and replicas, snapshots,
primary keys, queries, indexes, the registry, expiration and the locks for every
value of the constants.

Contents: inventory, modules, runs, what the runs show, fairness, proofs,
deviations of the code from its documentation, what is not modelled, plan.

## Inventory

| part | state | operations | interacts with |
|---|---|---|---|
| fill list (`collection.go`) | `fill`, `count`, `commits` under `Collection.lock` | `next`, `free`, `findFreeIndex` | inserts reserve rows in it at once, commits settle them |
| transaction (`txn.go`, `txn_lock.go`) | `index` (a copy of `fill`), `updates` (a buffer per column), `dirty` | `Insert`, `DeleteAt`, `DeleteAll`, `With...`, `Range`, `commit`, `rollback` | everything below |
| latches (`smutex.SMutex128`) | 128 reader-writer mutexes, chunk modulo 128 | `rangeRead`, `QueryAt` share, `rangeWrite` excludes | commits, readers, snapshots |
| delta buffer (`commit/buffer.go`, `reader.go`) | bytes, chunk headers, last row | `Put...`, `Range`, `Next`, `Swap...`, `Reset` | written by a transaction, rewritten by `Apply`, sent to loggers |
| columns (`column_*.go`) | chunks of a bitmap and values | `Apply`, `Snapshot`, `Grow`, filters, aggregates | applied to by commits under the latch |
| indexes (`column_index.go`) | bitmap; B-tree and map from rows to keys | `Apply`, `CreateIndex`, `CreateSortIndex` | fed with the rewritten buffer after the column |
| primary key (`column_strings.go`) | `seek`: key to row | `InsertKey`, `UpsertKey`, `QueryKey`, `DeleteKey`, `SetKey` | looked up by transactions, changed by commits |
| change stream (`commit/log.go`) | a Go channel of commits | `Append` blocks when full | consumers, `Replay` on a replica |
| snapshot (`snapshot.go`) | `record`, the pointer to a recording log | `Snapshot`, `Restore` | readers' latches; commits append to the log |
| registry (`collection.go`, `columns`) | an `atomic.Value` with the columns and their indexes | `CreateColumn`, `CreateIndex`, `DropColumn`... | loaded by every commit and query |
| expiration (`column_expire.go`) | the column of deadlines | `vacuum`, a goroutine with a ticker | a query with `DeleteAt` |

Hard to test: rows are handed out before anything is committed; the lookup of a
key, the selection of a query and the counter of rows are read before the latch
that protects what they say; a chunk is latched at a time, so a transaction on
two chunks is two commits; snapshots, indexes and replicas are made beside
commits; `Apply` rewrites the buffer that it is reading.

`PROJECT.json` lists the hazards line by line, with the properties that watch
them.

## Modules

| module | models | state |
|---|---|---|
| `FillList` | reservation, deletion, commit and rollback of rows | `fill`, `words`, `count`, `chunks` (length of `commits`); per goroutine `pc`, `row`, `index`, `markers`, `todo` |
| `Commit` | chunk commits, latches, the recorder, the channel | `holder`, `sharers`, `commits`, `value`, `index`, `channel`, `recorded`; per goroutine `pc`, `buffer`, `todo`, `id` |
| `AtomicCommit` | what commits promise: each chunk commit takes effect at once, on the values and the stream together | `value`, `plan`, `stream` |
| `CommitImplements` | the refinement mapping from `Commit` to `AtomicCommit` | |
| `Replication` | `Commit` and a replica that replays the stream | `replica` |
| `Snapshot` | `Commit`, rows that are reserved and given back, and goroutines that take snapshots; what `Restore` makes of them | `filled` (the chunks up to the highest row), `spc`, `counted`, `next`, `state`, `file` |
| `Buffer` | the delta buffer, its reader, `Apply`, and the record of a commit | `buf`, `column`, `computed`, `restored` |
| `PrimaryKey` | operations by key | `fill`, `seek`, `data`, `present`, `latch`; per goroutine `visit`, `marks`, `puts` |
| `Query` | selections, filters and aggregates beside writers | `fill`, `has`, `data`, `bits`; per writer `wpc`, `change`; the query's `index`, `passes`, `chunk`, `agg` |
| `Index` | both indexes and their creation beside commits | `cell`, `bits`, `tree`, `back`, `commit`, `builder` |
| `Registry` | creating and dropping columns, indexes and triggers | `heap`, `head` (the slice in the `atomic.Value`), `object`, `lock`, `count`, `top` (the highest row there has been), `commits`; per goroutine `op`, `pc`, `slice` |
| `Latches` | the locks, but for four innermost ones, in the order in which operations take them | `sharers`, `writer`, `parked`; per goroutine `program`, `pc` |
| `Vacuum` | deadlines, and the goroutine that deletes expired rows | `clock`, `fill`, `has`, `deadline`; per client `cpc`, `change`; the vacuum's `vpc`, `now`, `index`, `chunk`, `marks` |
| `MC...` | constants of the runs | |
| `FillListProofs`, `PrimaryKeyProofs`, `QueryProofs`, `IndexProofs`, `RegistryProofs`, `LatchesProofs`, `VacuumProofs` | theorems about the module of that name | |
| `CommitProofs` | theorems about `Commit`, `Replication` and `Snapshot`, and the refinement of `AtomicCommit` | |

`Replication` and `Snapshot` extend `Commit`: a replica and a snapshot see commits
through the channel and the recorder, which are part of it. `FillList` and
`PrimaryKey` are apart from `Commit` because rows are not values: a chunk of
`Commit` is one cell, and the order of operations on a row is what the other two
are about. `Query` has rows and values: it takes from `FillList` that an insert
reserves a free row, and leaves out which one and how rows are counted. `Buffer`
justifies what `Commit` and `Index` take for granted: that a chunk's part of a
buffer can be read on its own, and that merges have become stores when the
indexes, the recorder and the logger read it.

Steps. In `FillList` a step is what happens under one acquisition of
`Collection.lock`; what a goroutine does in between touches only its own state. In
`Commit` each acquisition or release of a latch, each atomic access, each read and
write of a cell and each send is a step. In `PrimaryKey` lookups, callbacks and
each key that a commit applies are steps. In `Index` the two registry entries, the
copy and the backfill of an index, and the load, the column's part and the
indexes' part of a commit are steps. In `Query` a step of the query is one chunk
of one pass, under its shared latch; a call makes a pass for each name, as
`rangeReadPair` is called for each, and `WithUnion` one for all. A commit is the
growth of the columns, the fill list's part and the columns' part, the last two
under the exclusive latch of the chunk. `Buffer` is sequential: a transaction owns
its buffers. In `Registry` a load, a change or a store of the slice is a step, as
is taking or giving up `Collection.lock`; an entry is read and written as a whole.
There an insert takes a free row or the next one, and failed inserts and deletions
make one free. In `Snapshot` counting the chunks, entering one, reading it (or the
panic), closing and copying are steps. In `Vacuum` a chunk of a pass is a step, as
in `Query`, and so are the two halves of `commitMarkers()`.

Programs. `Latches` is about order alone. An operation is a sequence of steps
(`RLock`, `RUnlock`, `Lock`, `Unlock`, `use`) that is put together by operators
named after the functions of the code, as these call each other (`Each` is a loop
over chunks); the actions are those of `sync.RWMutex`, where a writer that waits
keeps new readers out. A `use` names the data that the function reads and writes
at that point.

Values. A value of `Commit` is the sequence of the transactions that made it, so
that a lost, repeated or reordered update shows. Values of `Buffer` are short
sequences whose length is their size. Names of columns, predicates and payloads
are left out.

History variables (`pending`, `committed`, `order`, `received`, `written`,
`intended`, `closed` of `Snapshot`, `raced`, `meant`, `misread`, `touched`,
`promise`, `astray`, `late`, `catalog`, `excused`) are only written by
the actions and only read by properties and bounds. Rigid variables (`kind`,
`workload`) choose in the initial state what the clients of a behaviour do, so
that one run covers several.

## Runs

| run | question | bounds |
|---|---|---|
| `Fill` | rows under any mix of operations; rows under inserts, failures and rollbacks | words and chunks of 2 rows; 2 transactions at a time, 3 rows, 1 insert or delete each; 3 transactions, 4 rows, 2 inserts each |
| `FillRollback` | finding | 2 transactions, 4 rows, 2 inserts each |
| `Commits` | atomic commits, stream, replica, progress | 2 transactions, a reader, 3 chunks on 2 latches, a channel of 1 |
| `ReplicationSpanning` | finding | 2 transactions, 2 chunks |
| `Snapshots` | snapshots beside inserts and commits | 2 snapshots, 2 transactions, 2 chunks, one of which may have rows and no commit, failing destination |
| `Buffers` | the delta buffer | 3 updates per transaction, 2 transactions on the pooled buffer, rows of two chunks, offsets of 2-bit groups in 4-bit rows |
| `Keys` | keys | 2 transactions, 3 keys, 4 rows; 2 concurrent insertions each, or one transaction at a time with deletions, failures or changes of keys |
| `Indexes` | indexes | 3 rows, 3 values, unbounded commits |
| `Queries` | queries beside writers | 2 calls out of 9, with known and unknown names; 3 rows in 2 chunks, numbers of 2 bits, 2 indexes; 2 transactions at a time that insert and update, or 3 one after the other that also delete |
| `Registries` | the registry, and the growth of columns | 2 goroutines, 2 columns, 2 indexes, 6 operations, an array of 2 entries that must grow; 3 operations beside 4 rows in 2 chunks, with deletions or failing inserts |
| `Latches` | deadlocks and data races | 3 goroutines, 7 operations, 2 chunks with a latch each |
| `Vacuums` | expiry | 2 rows in 2 chunks, a clock of 3 moments; 2 clients at once and 3 transactions, or one after the other with deletions, or with the end of the collection |

Why these bounds. Words of two bits and chunks of two rows make the list full,
grow it by a word and by a chunk, and put rows on both sides of a boundary with
three rows. A transaction that inserts and deletes in one go needs two markers;
with deletions `Fill` has one (with two, TLC found no violation in the first six
million states, and the theorems cover any number), with inserts alone two. Chunks
0 and 2 of `Commits` share a latch and chunk 1 does not, so transactions wait for
each other for both reasons. A channel of capacity one is full after one commit.
Two-bit groups make offsets of one and of two groups, backwards and across the
wrap-around. The transactions of `Snapshots` meet on the first chunk, and one of
them leaves the second one without a commit, so that chunks are reserved, given
back, counted with and without an ID, and filled after they were counted. Three
transactions are what it takes to insert a row, delete it and use it again, or to
have rows in two chunks with a commit left beside the query; two calls tell a
fresh query from one that is set up; with two bits a merge wraps around. Commits
of `Index` need no bound since its state is finite. In `Registries` three entries
do not fit the first array, so that `append` copies it; six operations create a
column and two indexes, drop them and create one again. Three goroutines make the
longest chain that writer preference needs: a reader, a writer that waits for it,
and a reader that waits for the writer. Of the three moments of the clock a row is
set in the first, expires in the second and is deleted in the third.

What they show. Between commits the counter and the fill list agree, and the
chunks of commits and of committed rows have commit IDs (`ChunksHaveIDs`);
inserting transactions never share a row (`OneOwner`), and committed rows stay
(`CommittedStays`), which does not hold with deletions, see below. Commits
implement `AtomicCommit`: chunk by chunk they are serializable, merges included,
and published once, in their order and with the values they made. Readers see them
whole; the replica follows and catches up on chunks that no transaction spanned
with another. A snapshot that ends restores each chunk to a state it went through,
when IDs and latches have the same order. The rewritten buffer says what the
column has, and a recorded commit that is read back and replayed gives the column
again (`RecordsRestore`). A query selects each row that no commit touched exactly
when its calls say so (`SelectionIsExact`), and with nothing committed meanwhile
its aggregates are right (`AggregatesAreExact`). Keys find their rows as long as
they do not change, and since each row is found by its key, no two rows have the
same one. Indexes are exact when they were created without a commit beside the
backfill. What was created is registered once and fed by its column alone
(`RegistryIsCatalog`), though stores change a shared array in place, as long as
only indexes are created at once; columns have the chunks that are committed
(`ColumnsReachRows`), unless they were created while rows were free below the
highest or beside a commit that made room. Operations take their locks in one
order (latch of a chunk, then `Collection.lock` or the lock of a column, then the
two of a sorted index: `LocksAreOrdered`), so that nobody waits in a circle
(`NobodyWaitsInACircle`), and the locks cover what they are for (`NoDataRace`).
The vacuum deletes only what has expired (`OnlyExpiredRowsAreVacuumed`), though
deadlines are pooled with the rows (`DeadlinesArePromises`), and deletes it in the
end (`ExpiredRowsLeave`).

`CHECK_DEADLOCK FALSE` stands where every client may be done (`Snapshots`,
`Buffers`, `Keys`, `Queries`, `Registries`, `Vacuums`): transactions, snapshots,
operations or rows are bounded, and the clock stops. Everything else is checked
for deadlock as well; `Commits` ends with readers that come and go.

## Fairness

`Commits` and `Vacuums` check liveness. `WF(WriterStep(t))`: a goroutine that can run is
run by the Go scheduler. `SF(Lock(t))`: the latch of a chunk is free again and
again, but not continuously; `sync.RWMutex` lets a waiting writer in before new
readers, and queues writers, so none starves. `WF(RUnlock)`: the functions that
run under shared latches return. `WF(Receive)` and `WF(Replay)`: the consumer of
the stream keeps receiving; without it a full channel blocks a commit for ever
while it holds a latch, which is how the code works. Nothing is assumed of
transactions that have not begun, or of readers that have not entered.

In `Vacuums`, `WF(VacuumStep)`: the ticker fires again and again, and the goroutine
is run; `WF(Apply(c))`: a commit that holds a latch gives it up. With a bounded
number of transactions weak fairness is enough for the vacuum to get a latch; the
code needs `sync.RWMutex` not to starve it, as above. The clock and the clients
need not move: `ExpiredRowsLeave` is about rows that have expired.

## Proofs

`FillListProofs` proves, for every number of goroutines, rows, words, chunks and
markers, from `FillListAssumption` (sizes are positive) and `WorkloadsAssumption`
(a workload is a set of known operations and three bounds):

- `Typing`. `TypeOK` is inductive: it says that rows which are set, selected or
  marked lie below `words * WordBits`, which `WordsFor` preserves.
- `CounterIsPopulation` and `InsertsGetFreshRows`. A goroutine that enters the
  second critical section of `commitMarkers()` recounts; so `count` is the
  population whenever no goroutine is `"latched"`. Then `findFreeIndex()` looks
  into the word in which the population would end, and either it has a clear bit,
  or some other word has one, or the list is full and grows (`FindsFreeRow`, by a
  counting argument on finite sets); for clients that only insert this is so at any
  moment, by `InsertInv` below.
- `CommitsAreInRange`, about commits and committed rows; what a snapshot counts is in
  `Snapshot`. Strengthening: a committing transaction has a chunk left,
  so that the chunk it commits is one of those `commitCapacity()` made room for.
- `OnlyRollbacksAbandonRows`. Strengthening `AnswersInv`: what a transaction
  answers for it has a marker for, and while it commits, the rest lies in chunks
  that are still to come; so nothing is left when it ends.
- `NewRowsHaveOneOwner`, `CommittedRowsStay`. The properties are about workloads
  that only insert, fail and roll back (`Inserting`), which never change within a
  behaviour, so the invariant is `Inserting => InsertInv`. Strengthening
  `InsertInv`: every marker is an insertion, what a transaction has still to
  commit it holds, and the counter never lags, since such commits set bits that
  are set already.

`CommitProofs` proves, for any number of transactions, readers, chunks and latches
and any programs, from `CommitAssumption` (sizes are positive, programs are
programs):

- `WholeCommits`, which needs to know what a goroutine that has a latch is in the
  middle of. Strengthening `CommitInv`: a transaction in a chunk has its latch, and
  nobody shares a latch that somebody has (`LatchInv`); what a chunk's cell, its computed
  column and the transaction's buffer are in each phase is a function of the chunk's
  history `order` (`Cell`, `Inside`): before the write the cell is what the commits
  but the last have made, after it what all have made, and the buffer says so.
- A replica and snapshots share this state. `CommitInv` is therefore kept not only by the
  steps of a commit but by every step that does no more than `Aside` allows: give or
  take shared latches that nobody excludes, and register a recorder. `AtomicSteps` and
  the theorems about `RSpec` and `SSpec` reuse it without a second proof.

About the change stream and replicas, `StreamInv` says that the n-th message of a
chunk, received or in the channel, carries the cell as the first n commits of the
chunk have made it, that it has nothing for chunks its transaction does not touch,
and that all commits but the one under way have been sent. From it,

- `AtomicSteps`, `AtomicStepsReplicated`: under the mapping of `CommitImplements` the
  initial states of `Commit`, and of `Commit` beside a replica, are initial states of
  `AtomicCommit`, and each step is a step of it or a stutter: the write of the cell
  changes nothing that is promised, the send publishes value and message at once.
- `ReplicaFollowsPrimary`: what the replica has of a chunk that no transaction spanned
  with another (`Local`) is what the commits it received have made (`ReplicaInv`). For
  the other chunks this is false, which `ReplicationSpanning` shows.

About snapshots, from `SnapshotAssumption` (a reader takes no snapshots; a name
says what a goroutine does): `PointInTimes` and `RefusedWhenBusy`. Strengthening
`SnapInv`: for each chunk that has been written there is a p such that the state
has the first p commits (`WrittenInv`), the log has every later one that has
passed the recorder (`Settled`, `Due`), it has nothing but commits of the chunk
with the values they made (`RecordedInv`), and it has them in their order if the
latch was taken in the order of the IDs (`SortedInv`). Then restoring replays a
gapless run of commits that begins at or before the state. The steps that matter
are a commit that has loaded the recorder, but not appended to it, when the
snapshot reads the chunk, and one that loads it after it was closed. A chunk that
was filled only after the chunks were counted has nothing in the state, and p is 0
(`Written`). Then every commit of it must be in the log; that is so since a
transaction commits to rows below the highest of the fill list (`FillInv`), so
none was under way there before (`NothingBehind`).

`PrimaryKeyProofs`, from `PrimaryKeyAssumption` (there is a row; workloads are
workloads): `KeyTyping`, `LookupsFind`, `ActsOnKeys`, `KeysReachable`.
Transactions decide by what they looked up earlier, and a commit changes the fill
list, the lookup table and the rows' keys at different moments. `KeyInv` says what
may still be relied on: a goroutine that waits for the latch of a row will find it
there, with its key (`VisitRow`, `VisitKey`, `DeletionKey`); pending keys are for
rows that are taken and have none, each for its own (`PutsInside`, `Fresh`), and
are not in use (`Unused`, one transaction at a time). Each part has the condition
on the clients under which it is true (`KeysStay`, `OneByOne`), the same as in the
properties.

`QueryProofs`, from `QueryAssumption` (predicates are sets of values, calls are
calls, the column is none of its indexes, `None` is no value; and 2^Width is a positive
number, as the provers do not know powers): `QueryTypes`, `ValuesStayWithRows`,
`SelectionsAreExact` and `AggregatesExact`. A call is a sequence of passes and commits come between the
chunks of a pass, so the selection is right only at the end of a call. `QueryInv`
says of each row that no commit has touched: what the passes which have not come
to it yet (`Pending`) will make of it (`Result`, a closed form for any number of
passes) is what the call asks for (`Asked`), or a commit holds the latch that the
pass must wait for (`Awaited`). That commits only change rows they have latched is
`RowThere`, `BitsFollow` and `HasRow`, which give `ValuesBelongToRows`.

For the aggregates, `DataInv` says that data are numbers, and zero in rows that never had a
value if nothing is deleted (a sum takes in the rows without a value, so a deleted
row's number would count). `AggInv`: an aggregate is a call of its own, and as long as
no commit has touched a row since the query began, it has the sum, count and minimum of
the rows in the chunks behind it (`Seen`). The sum over a set of rows is a
recursive function that takes any of them first. That this gives one sum, which is
additive on disjoint sets, is proved for finite sets from a counterexample of the least
cardinality, and rows of a number of chunks are finite (`FiniteSelection`).

`IndexProofs`, from `IndexAssumption` (rows are numbers, the predicate is a set of
values, the empty string is a value): `BitmapsAreExact` and `SortedFollows`. Both
are about the end of a creation, and a commit may begin before an index is registered
and end after it. `UnseenInv` says that a commit which has missed the indexes found
them empty and leaves them so, and that nothing has happened between copy and
backfill. `BitsInv` and `TreeInv` say of each row what the indexes have, unless a
commit is between the column and the indexes at that row (`Ahead`). The backfill
applies the rows of its copy in ascending order; since it runs alone, the copy is
the column still, and what later rows replace is stale. That every value has an item needs
`PlainInv`: values are unique, and no row has left a key behind that is another
row's value by now.

`RegistryProofs`, from `RegistryAssumption` (columns and indexes have different names,
arrays and chunks have a size): `RegistryTypes`, `CatalogIsRegistered`,
`ChunksAreThere`. Operations that create indexes hold the lock while they change the
registry, and the others run alone (`OpInv`), so that at most one goroutine is in
the middle of a change. Still, its array is the one that everybody reads.

- `SliceInv` says how the slice of that goroutine and the registered one differ: not at
  all before a change and after one in place (`Same`), by the entry that was
  appended, in the same array behind the length that others see or in a copy of
  it (`Larger`), or by the entry that was dropped (`Smaller`).
- `CatalogInv`: names and objects are not given twice. `NameInv` and `FeedInv` compare
  the registry with the catalog of what was created and not dropped: an entry is
  one of the catalog or of an operation that is under way, and at which of its steps
  (`Shown`, `Attaching`, `Detaching`); no index stands twice behind a column.
- `ReachInv`: chunks that are committed reach no further than the highest row there has
  been (`top`). A column which grows when no row is free below it (`count = top`) has
  all of them; and a commit grows all columns that are registered. The
  one that has grown and is not registered yet, and the one that grew to a smaller
  number of rows, are the exceptions that `excused` notes.

`VacuumProofs`, from `VacuumAssumption` (there are rows, and finitely many; a time to
live is shorter than the time since 1970): `VacuumTypes`, `PromisesAreKept`,
`NoneBeforeItsTime`. `RowInv` says that a row has the deadline that was promised, and
none if it is free, also while its chunk is latched, unless it is about to lose its
values (`Going`: a commit has cleared its bit in the fill list and not its column).
`LateInv` connects this to the clients that chose a row which has been deleted since;
`LatchInv` keeps two commits from one chunk. `MarkInv` says why a row is marked: its
promise was over when the query took the time, or it was changed since the fill list was
copied (`touched`), or its deadline is nobody's (`astray`); the action property follows,
as the clock only moves forward.

`LatchesProofs`, from `LatchesAssumption` and `OperationsAssumption` (there are
chunks and latches; goroutines run operations of the collection), for any number
of goroutines, chunks and latches. First, about programs alone: `Fits` says that a
program has, before each step, a set of claims on locks such that it takes only
locks inside those it claims, gives up what it claims, and uses only data whose
lock it claims (the slice of chunks has two: it is written under both and read
under one). Sequence, locks around a program, and a loop over chunks keep to this
(`ThenFits`, `SharedFits`, `ExclusiveFits`, `EachFits`), and so every operation
does (`OperationsFit`). Second, `LockInv`: a claim on a lock is a lock that the
goroutine has, who writes is alone, and only goroutines that want to read are
parked. From both,

- `LocksKeepTheirOrder`, and `LocksProtectData`: a claim for writing excludes all others.
- `CollectionsDoNotDeadlock`, by `OrderPreventsCircles`. Of the goroutines in a
  circle, the one that wants the innermost lock `l` waits for one of them that
  either has `l`, and would want a lock further inside, or waits to write under
  `l`; then that one waits for a reader that has `l`.

Only model-checked: liveness under fairness (`Commits`, `Vacuums`), which needs
ENABLED, and with it the fairness of `AtomicCommit`; `Buffer`, whose reader and
`Apply` are recursive functions along sequences (what they compute for every input is
an induction over data: the theorems of the library about induction cannot be used with these
provers, and the argument by a least counterexample that serves for the sum in `Query`
has not been carried out for them).

## Where the code departs from its documentation

Found by runs that expect a violation:

- `FillRollback`: a rollback leaves inserted rows behind (`txn.go:500`).
- `ReplicationSpanning`: a commit of one chunk carries the buffers of all chunks,
  and replays them (`commit/commit.go:84`).

Seen while modelling; a property is stated so that it leaves them out:

- Queries select, and delete, rows that other transactions have only reserved
  (`txn_lock.go:27`), and a deletion that commits takes such a row from its owner.
  `OneOwner` and `CommittedStays` are about clients that do not delete.
- A failed insert whose error the query function ignores commits its marker, so
  that the freed row is set again, even if it is another transaction's by then
  (`txn.go:369-371`).
- While a commit is between the two critical sections of `commitMarkers()` the
  counter may be too low or too high, and `next()` hands out row 0 of a full list
  (`collection.go:123`). `FreshRow` excludes the window.
- A snapshot counts its chunks by the highest row of the fill list (`snapshot.go:218`),
  rows that are only reserved, were rolled back or belong to a failed insert included (of an
  emptied list it takes chunk 0), and reads `c.commits[chunk]` without looking at
  its length (`snapshot.go:231`). During the first open insert of a chunk, or after
  a first one that failed or was rolled back, there is no such entry: `Snapshot`
  panics and leaves its recorder behind, despite the "Support for **concurrent
  snapshotting**" (`README.md:30`). This is the action `Panics` of `Snapshot`;
  `SnapshotIsPointInTime` is about snapshots that end, and `RefusedOnlyWhenBusy`
  allows for those that panicked.
- A snapshot whose destination fails leaves its recorder behind, and all later
  ones are refused (`snapshot.go:68`). `RefusedOnlyWhenBusy` allows for it.
- `SetKey` leaves the old key in the lookup table (`column_strings.go:287`), so
  that `DeleteKey` of that key deletes the row; and when a row is deleted that is
  gone already, the key in its stale `data` is cleared, whichever row has it by
  now. `SetKey` does nothing when a committed row has the key: `rwKey.Set` returns an
  error (`column_strings.go:321-328`), which `Row.SetKey` drops (`txn_row.go:187`).
  It does not see keys that are pending in a transaction, so that one transaction
  may give one key to two rows. The properties are about clients that do
  neither (`KeysStay`, `OneByOne`); concurrent deletions make `QueryKey` and
  `DeleteKey` act on a row that has another key by then (`txn.go:475`,
  `txn.go:488`).
- `InsertKey` looks a key up before its commit adds it: two transactions insert one
  key, and both commit (`txn.go:442`). `KeysAreReachable` is about one at a time.
- A commit ID is drawn before the latch of the chunk (`txn_lock.go:82`). If a commit
  with a larger ID goes first and the snapshot reads the chunk between the two,
  `Restore` skips the second one, because its ID is not above the chunk's last
  (`snapshot.go:52`): the update is lost. `SnapshotIsPointInTime` is about chunks
  whose commits come in the order of their IDs (`InLatchOrder`).
- `Sum`, `Avg` and `Min` take in selected rows without a value, with the data that
  is there (`column_numeric.go:155`, `:168`, `:179`): a row that is deleted and
  used again without a value still counts with the old one. A merge into a row
  that was used again merges into the data of the deleted one
  (`column_numbers.go:27`).
- A value that is put into a row which was deleted meanwhile, or by the same
  transaction, stays in the column and in the indexes, where `Union` finds it
  (`txn.go:574`). `ValuesBelongToRows` and `SelectionIsExact` leave it out (`Orderly`).
- A fresh `Union` whose first name is unknown selects all rows (`txn.go:195`), and
  `WithUnion` of one name adds its rows instead of restricting to them
  (`txn.go:203`). The history `misread` notes such calls.
- `CreateColumn` grows a column to the number of rows or the capacity, not to the
  highest row (`collection.go:184-189`), although `commitCapacity` "grows all columns
  until they reach the max index" (`txn.go:619`). While rows below the highest are
  free, as deletions and failed inserts leave them (`free()` recounts,
  `collection.go:100`), or when a commit makes room between its `Grow` and its
  `Store`, the column has fewer chunks than the collection and `chunkAt()` panics.
  `ColumnsReachRows` leaves these columns out (`excused`). So it may be with a column
  that is created beside a replay or a restore, which counts rows at the end of each
  chunk only; `Registry` expects the columns to be there by then.
- The "concurrent column registry" (`collection.go:411`) is loaded, changed and stored
  without a lock: of two `CreateColumn`s at once one is lost, and a drop beside
  another operation undoes it. `RegistryIsCatalog` is about clients that do these one
  at a time (`Alone`).
- `CreateIndex` does not look whether the name is taken: it replaces an index, which
  stays attached to its column, or a column (`collection.go:250`). `DropColumn`
  "removes the column (or an index)", but leaves an index attached and fed, and the
  indexes of a dropped column registered (`collection.go:207`).
- A column, sorted index or trigger that is created between the column count and the
  chunks of a snapshot makes the file unreadable (`snapshot.go:124`); the snapshot of
  an enum column numbers rows within the chunk (`column_strings.go:128`). Neither is
  modelled.
- Accessors read a column's slice of chunks under the latch only, while another
  chunk's commit may append to it (`column.go:289`); the callback of `Ascend`
  (`txn.go:416`) and the backfill of an index (`collection.go:317`) read values
  without a latch. `Latches` leaves these reads out.
- `QueryAt` inside `Range` takes a shared latch twice, and blocks for ever when a
  commit waits in between; an insert or `QueryAt` in the callback of `Ascend` waits for
  a lock that its goroutine has. `NobodyWaitsInACircle` is about callbacks that take
  no lock.
- `Extend` on a row without a deadline adds to 0, or to what a deleted row left: the
  deadline is in 1970, and the next vacuum deletes the row (`column_expire.go:72`). Such
  rows are `astray` in `Vacuum`, as are updates that commit after their row was deleted.
- The vacuum deletes a row that was extended, or deleted and used again, after it read
  the deadline (`column_expire.go:25`). `Row.TTL()` does not look for 0, as `rwTTL.TTL()`
  does, and takes a row without a deadline for expired (`column_expire.go:93`).
- An index that is created while commits run may miss or repeat an update
  (`collection.go:272-279`). The sorted index has one item for rows with equal
  values, and a deleted row's key stays behind (`column_index.go:183`, `:226`).
- A string that is merged into becomes a `Put` behind the segment that is being read
  (`commit/reader.go:269`): of repeated merges on a row some are overwritten by a stale
  value, and one that is followed by a `Put` to the same row leaves the indexes with
  the older value. `UpdatesInOrder` and `ComputedFollows` are about values of one size,
  and about strings that are updated once per transaction (`InPlace`).

## Not modelled

`examples/`, `codegen/`, `fixtures/`; the generated accessors; record marshalling;
the byte framing of buffers and files and the libraries they use (`iostream`,
`s2`); `bitmap`, `smutex`, `btree` and `intmap`, which are modelled by what the
code expects of them. A transaction's chunks are not atomic together, by design,
and no property claims they are. The fill list of `Snapshot` is the number of
chunks up to its highest row, and its transactions commit to rows they were given:
deletions, markers of failed inserts that are committed all the same, and replays
beside a snapshot are left out. So are, in `Latches`, the locks of the key table,
of a commit log, of the intmap and of a bitmap index; who has one of them takes no
other lock.

## Plan

1. Proofs: the parts of `Buffer` that are not recursive.
2. The rest of `Query`: `Range` with updates in its callback, `Ascend`, `WithValue`.
3. The rest of the codec: the state part of a snapshot file, a file that is cut
   off, a recorder whose file fails.
