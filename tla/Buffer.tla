------------------------------- MODULE Buffer -------------------------------
(***************************************************************************)
(* The delta buffer of one column in a transaction: how updates are        *)
(* written to it, how the commit reads the part that belongs to a chunk,   *)
(* and how Apply rewrites merges into stores for the computed columns, the *)
(* logger and the recorder (commit/buffer.go; commit/reader.go; WriteTo    *)
(* and ReadFrom in commit/commit.go; Apply in column_strings.go and        *)
(* column_numeric.go; commitUpdates in txn.go).                            *)
(*                                                                         *)
(* An entry is a header byte with its operation, a value, and the distance *)
(* to the row of the entry before it; entries stand for their bytes.  Rows *)
(* are Width-bit numbers, distances wrap around and are written in groups  *)
(* of Digit bits.  A value is a sequence, its length is its size.          *)
(***************************************************************************)
EXTENDS Integers, Sequences

CONSTANTS
  Rows,        \* the rows that are written to
  Values,      \* the values that are written
  ChunkRows,   \* rows per chunk (1 << chunkShift)
  Width,       \* bits of a row number (32)
  Digit,       \* bits of a group (7)
  Kinds,       \* kinds of column and of clients that occur
  MaxOps,      \* bound: updates per transaction
  MaxTxns      \* bound: transactions that use the buffer

ASSUME BufferAssumption ==
  /\ Rows \subseteq 0 .. 2^Width - 1
  /\ ChunkRows \in Nat \ {0} /\ Width \in Nat \ {0} /\ Digit \in Nat \ {0}
  /\ Kinds \subseteq [fixed : BOOLEAN, repeats : BOOLEAN]
  /\ MaxOps \in Nat /\ MaxTxns \in Nat

VARIABLES
  kind,      \* never changes: whether values have a fixed size, as opposed to
             \* strings, and whether a transaction may update a row repeatedly
  buf,       \* the Buffer
  written,   \* history: the updates of the transaction, as they were made
  todo,      \* dirty chunks that are still to be committed
  column,    \* the column itself
  computed,  \* what a reader of the rewritten buffer makes of the column
  restored,  \* the column of a collection that is restored from the recorder
  intended,  \* history: the column when every update does what it says
  txns       \* how many transactions have used the buffer

vars == <<kind, buf, written, todo, column, computed, restored, intended, txns>>

ChunkAt(r) == r \div ChunkRows
Merged(old, delta) == old \o delta
SameSize(v, w) == kind.fixed \/ Len(v) = Len(w)

-----------------------------------------------------------------------------
(* Writing *)

NoChunk == -1
Wrap(n) == n % 2^Width

Empty == [entries |-> << >>, chunks |-> << >>, last |-> 0, chunk |-> NoChunk]

\* writeOffset: the groups of a distance, the lowest first.
Base == 2^Digit
Offset(delta) ==
  LET n == CHOOSE k \in 1 .. Width :
             delta < Base^k /\ \A j \in 1 .. k - 1 : delta >= Base^j
  IN  [i \in 1 .. n |-> (delta \div Base^(i - 1)) % Base]

\* Put...: the header of a chunk whenever the chunk changes, then the entry,
\* which needs no offset if it is for the next row.
Put(b, op, r, val) ==
  LET delta == Wrap(r - b.last)
      entry == [op |-> op, val |-> val, next |-> delta = 1,
                offset |-> IF delta = 1 THEN << >> ELSE Offset(delta)]
      header == [chunk |-> ChunkAt(r), start |-> Len(b.entries), value |-> b.last]
  IN  [entries |-> Append(b.entries, entry),
       chunks |-> IF ChunkAt(r) = b.chunk THEN b.chunks ELSE Append(b.chunks, header),
       last |-> r,
       chunk |-> ChunkAt(r)]

-----------------------------------------------------------------------------
(* Reading *)

\* readOffset: the groups are put together again.
Delta(offset) ==
  LET sum[i \in 0 .. Len(offset)] ==
        IF i = 0 THEN 0 ELSE sum[i - 1] + offset[i] * Base^(i - 1)
  IN  sum[Len(offset)]

\* The segments of chunk c, and where segment i begins and ends.
Segments(b, c) == {i \in DOMAIN b.chunks : b.chunks[i].chunk = c}
First(b, i) == b.chunks[i].start + 1

\* Mutant of Last: a segment is read to the end of the buffer.
LastOfBuffer(b, i) == Len(b.entries)

Last(b, i) == IF i < Len(b.chunks) THEN b.chunks[i + 1].start ELSE Len(b.entries)

\* Mutant of RowAt: segments are read as if they began at row 0.
RowAtFromZero(b, i, p) ==
  LET row[q \in First(b, i) - 1 .. p] ==
        IF q < First(b, i) THEN 0
        ELSE IF b.entries[q].next THEN Wrap(row[q - 1] + 1)
        ELSE Wrap(row[q - 1] + Delta(b.entries[q].offset))
  IN  row[p]

\* Next: the row of entry p, which is at or after the first of segment i.
RowAt(b, i, p) ==
  LET row[q \in First(b, i) - 1 .. p] ==
        IF q < First(b, i) THEN b.chunks[i].value
        ELSE IF b.entries[q].next THEN Wrap(row[q - 1] + 1)
        ELSE Wrap(row[q - 1] + Delta(b.entries[q].offset))
  IN  row[p]

-----------------------------------------------------------------------------
(* Applying *)

\* Mutant of Swap: the merge stays where it is, as a merge.
SwapKeepsMerge(b, p, r, val) == [b EXCEPT !.entries[p].val = val]

\* Swap: a value of the same size is replaced where it is.  Another one is
\* appended as a store, and the merge is to be skipped.
Swap(b, p, r, val) ==
  IF SameSize(b.entries[p].val, val)
  THEN [b EXCEPT !.entries[p].op = "put", !.entries[p].val = val]
  ELSE LET grown == Put(b, "put", r, val)
       IN  [grown EXCEPT !.entries[p].op = "skip"]

\* Apply on the column, for one entry; s is the buffer with the cells.
ApplyEntry(s, r, p) ==
  LET e == s.buf.entries[p]
      new == Merged(s.cells[r], e.val)
  IN  CASE e.op = "put"   -> [s EXCEPT !.cells[r] = e.val]
        [] e.op = "merge" -> [buf |-> Swap(s.buf, p, r, new),
                              cells |-> [s.cells EXCEPT ![r] = new]]
        [] e.op = "skip"  -> s

\* Reader.Range: the headers are those of the beginning, the end of a segment
\* is looked up when it is reached.
RangeChunk(s, c, Visit(_, _, _)) ==
  LET segment(t, i) ==
        LET first == First(t.buf, i)
            end == Last(t.buf, i)
            visit[p \in first - 1 .. end] ==
              IF p < first THEN t
              ELSE Visit(visit[p - 1], RowAt(visit[p - 1].buf, i, p), p)
        IN  visit[end]
      mine == Segments(s.buf, c)
      pass[i \in 0 .. Len(s.buf.chunks)] ==
        IF i = 0 THEN s
        ELSE IF i \in mine THEN segment(pass[i - 1], i)
        ELSE pass[i - 1]
  IN  pass[Len(s.buf.chunks)]

\* Apply of a computed column: the final states, that is, the stores.
ApplyStore(s, r, p) ==
  LET e == s.buf.entries[p]
  IN  IF e.op = "put" THEN [s EXCEPT !.cells[r] = e.val] ELSE s

-----------------------------------------------------------------------------
(* Recording *)

\* Mutant of Moved: a header keeps the place it had in the whole buffer.
NotMoved(header, start) == header
Moved(header, start) == [header EXCEPT !.start = start]

\* WriteTo of the commit of chunk c, and ReadFrom: the segments of the chunk, one
\* behind the other, in a buffer that nobody has written to.
Recorded(b, c) ==
  LET part[n \in 0 .. Len(b.chunks)] ==
        IF n = 0 THEN Empty
        ELSE IF n \notin Segments(b, c) THEN part[n - 1]
        ELSE [part[n - 1] EXCEPT
                !.entries = @ \o SubSeq(b.entries, First(b, n), Last(b, n)),
                !.chunks = Append(@, Moved(b.chunks[n], Len(part[n - 1].entries)))]
  IN  part[Len(b.chunks)]

-----------------------------------------------------------------------------
(* The transaction *)

Init ==
  /\ kind \in Kinds
  /\ buf = Empty /\ written = << >> /\ todo = {} /\ txns = 0
  /\ column = [r \in Rows |-> << >>]
  /\ computed = column /\ restored = column /\ intended = column

Update(op, r, val) ==
  /\ todo = {} /\ Len(written) < MaxOps /\ txns < MaxTxns
  /\ kind.repeats \/ \A i \in DOMAIN written : written[i].row # r
  /\ buf' = Put(buf, op, r, val)
  /\ written' = Append(written, [op |-> op, row |-> r, val |-> val])
  /\ UNCHANGED <<kind, todo, column, computed, restored, intended, txns>>

Commit ==
  /\ todo = {} /\ written # << >>
  /\ todo' = {buf.chunks[i].chunk : i \in DOMAIN buf.chunks}
  /\ UNCHANGED <<kind, buf, written, column, computed, restored, intended, txns>>

Writes(c) == SelectSeq(written, LAMBDA w : ChunkAt(w.row) = c)

\* What a sequence of updates does to the cells.
Sequentially(cells, updates) ==
  LET after[n \in 0 .. Len(updates)] ==
        IF n = 0 THEN cells
        ELSE LET u == updates[n]
             IN  [after[n - 1] EXCEPT ![u.row] =
                    IF u.op = "put" THEN u.val ELSE Merged(@, u.val)]
  IN  after[Len(updates)]

\* Mutant of the Reset of a pooled buffer: the chunk is not forgotten.
ResetKeepsChunk(b) == [Empty EXCEPT !.chunk = b.chunk]

Reset(b) == Empty

\* One pass for the column, another for what is computed from it, and then the
\* recorder, whose record is replayed on another collection.
CommitChunk ==
  /\ todo # {}
  /\ LET c == CHOOSE c \in todo : \A d \in todo : c <= d
         applied == RangeChunk([buf |-> buf, cells |-> column], c, ApplyEntry)
         seen == RangeChunk([buf |-> applied.buf, cells |-> computed], c, ApplyStore)
         record == Recorded(applied.buf, c)
         last == todo = {c}
     IN  /\ column' = applied.cells
         /\ computed' = seen.cells
         /\ restored' = RangeChunk([buf |-> record, cells |-> restored], c, ApplyEntry).cells
         /\ intended' = Sequentially(intended, Writes(c))
         /\ todo' = todo \ {c}
         /\ buf' = IF last THEN Reset(applied.buf) ELSE applied.buf
         /\ written' = IF last THEN << >> ELSE written
         /\ txns' = IF last THEN txns + 1 ELSE txns
         /\ UNCHANGED kind

Next ==
  \/ \E op \in {"put", "merge"}, r \in Rows, val \in Values : Update(op, r, val)
  \/ Commit
  \/ CommitChunk

Spec == Init /\ [][Next]_vars

-----------------------------------------------------------------------------
(* Properties *)

Value == UNION {[1 .. n -> UNION {{v[i] : i \in DOMAIN v} : v \in Values}] :
                  n \in 0 .. MaxOps * MaxTxns}

\* The types, and the segments being a partition of the entries.
TypeOK ==
  /\ kind \in Kinds
  /\ buf.last \in 0 .. 2^Width - 1
  /\ \A i \in DOMAIN buf.entries :
       /\ buf.entries[i].op \in {"put", "merge", "skip"}
       /\ \A j \in DOMAIN buf.entries[i].offset : buf.entries[i].offset[j] \in 0 .. Base - 1
  /\ \A i \in DOMAIN buf.chunks : First(buf, i) <= Last(buf, i)
  /\ buf.entries # << >> => buf.chunks # << >> /\ First(buf, 1) = 1
  /\ column \in [Rows -> Value] /\ computed \in [Rows -> Value]
  /\ restored \in [Rows -> Value] /\ intended \in [Rows -> Value]
  /\ txns \in 0 .. MaxTxns

\* While a transaction writes: what Range yields for a chunk is exactly what
\* was written for it, in order, however the chunks alternate.
RangeYieldsWrites ==
  todo = {} => \A c \in {ChunkAt(r) : r \in Rows} :
    LET read == RangeChunk([buf |-> buf, cells |-> << >>], c,
                  LAMBDA s, r, p : [s EXCEPT !.cells =
                    Append(@, [op |-> s.buf.entries[p].op, row |-> r, val |-> s.buf.entries[p].val])])
    IN  read.cells = Writes(c)

\* The two kinds of updates that Swap rewrites correctly: values of one size,
\* where it stays in place, and strings of which a row gets one per transaction.
InPlace == kind.fixed \/ ~kind.repeats

\* A commit applies the updates of a chunk in the order in which they were
\* made, merges included, each exactly once.
UpdatesInOrder == InPlace => column = intended

\* "Note that the indexes will also be updated accordingly and the predicates
\* re-evaluated with the most up-to-date values": whoever reads the rewritten
\* buffer, an index, a replica or a snapshot, ends with the value of the column.
ComputedFollows == InPlace => computed = column

\* A collection that replays the recorded commits chunk by chunk ends with the
\* same column: each record has all updates of its chunk and of no other.
RecordsRestore == InPlace => restored = column
=============================================================================
