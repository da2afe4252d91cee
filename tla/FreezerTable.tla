----------------------------- MODULE FreezerTable -----------------------------
(***************************************************************************)
(* One table of the freezer as a value: an index file and numbered data    *)
(* files, and what appending, truncating, syncing, a crash and the repair  *)
(* on opening make of them (client/core/rawdb/freezer_table.go,            *)
(* freezer_batch.go).                                                      *)
(*                                                                         *)
(* A file is its content and how much of it is on stable storage: a crash  *)
(* keeps that much and any part of the rest.  Truncations and removals are *)
(* durable at once.  An index entry is the file an item ends in and the    *)
(* offset of its end.  Deletion from the tail is left out: nothing calls   *)
(* it, so tailId and itemOffset are zero.                                  *)
(***************************************************************************)
EXTENDS Naturals, Sequences, FiniteSets, FiniteSetsExt

CONSTANTS
    MaxFileSize,   \* maxFileSize
    BufferLimit,   \* freezerBatchBufferLimit
    LastFile       \* bound: highest number of a data file

ASSUME TableAssumption ==
    /\ {MaxFileSize, BufferLimit, LastFile} \subseteq Nat
    /\ MaxFileSize > 0

FileId == 0 .. LastFile

-----------------------------------------------------------------------------
EmptyFile == [cur |-> <<>>, dur |-> 0]

Write(f, s) == [f EXCEPT !.cur = @ \o s]

(***************************************************************************)
(* Truncating to a length beyond the end fills up with zeros.              *)
(***************************************************************************)
Zero == [zero |-> TRUE]

Truncate(f, n) ==
    [cur |-> [i \in 1 .. n |-> IF i <= Len(f.cur) THEN f.cur[i] ELSE Zero],
     dur |-> IF f.dur > n THEN n ELSE f.dur]

SyncFile(f) == [f EXCEPT !.dur = Len(f.cur)]

-----------------------------------------------------------------------------
EmptyTable ==
    [index |-> EmptyFile, data |-> [i \in FileId |-> EmptyFile], headId |-> 0, headBytes |-> 0]

Items(t) == Len(t.index.cur)

(***************************************************************************)
(* Where the n-th item ends; the empty table ends in the tail file.        *)
(***************************************************************************)
EndOf(index, n) == IF n = 0 THEN [file |-> 0, off |-> 0] ELSE index[n]

EmptyBatch == [data |-> <<>>, index |-> <<>>]

(***************************************************************************)
(* freezerTableBatch.commit: data first, then the index.                   *)
(***************************************************************************)
CommitBatch(t, b) ==
    [t EXCEPT !.data[t.headId] = Write(t.data[t.headId], b.data),
              !.index = Write(t.index, b.index),
              !.headBytes = @ + Len(b.data)]

(***************************************************************************)
(* A commit whose write fails after some of the data: neither the index    *)
(* nor headBytes follows.                                                  *)
(***************************************************************************)
TornCommit(t, data) == [t EXCEPT !.data[t.headId] = Write(t.data[t.headId], data)]

\* Mutant: the old head file is not synced.
AdvanceHeadUnsynced(t) ==
    [t EXCEPT !.data[t.headId + 1] = EmptyFile, !.headId = @ + 1, !.headBytes = 0]

(***************************************************************************)
(* advanceHead: the next file starts empty, the old one is synced.         *)
(***************************************************************************)
AdvanceHead(t) ==
    [t EXCEPT !.data[t.headId] = SyncFile(t.data[t.headId]),
              !.data[t.headId + 1] = EmptyFile,
              !.headId = @ + 1,
              !.headBytes = 0]

(***************************************************************************)
(* appendItem: an item that does not fit goes to the next file, after what *)
(* is buffered was written; a full buffer is written.                      *)
(***************************************************************************)
Buffered(t, b, item) ==
    LET end == t.headBytes + Len(b.data) + Len(item)
    IN  [data  |-> b.data \o item,
         index |-> Append(b.index, [file |-> t.headId, off |-> end])]

Fits(t, b, item) ==
    t.headBytes + Len(b.data) + Len(item) <= MaxFileSize

Full(b) == Len(b.data) > BufferLimit

AppendItem(t, b, item) ==
    LET t1 == IF Fits(t, b, item) THEN t ELSE AdvanceHead(CommitBatch(t, b))
        b1 == Buffered(t1, IF Fits(t, b, item) THEN b ELSE EmptyBatch, item)
    IN  IF Full(b1)
        THEN [table |-> CommitBatch(t1, b1), batch |-> EmptyBatch]
        ELSE [table |-> t1, batch |-> b1]

(***************************************************************************)
(* truncateHead: the index first, then the files after the new head are    *)
(* removed and the head is cut.                                            *)
(***************************************************************************)
TruncateHead(t, items) ==
    LET expected == EndOf(t.index.cur, items)
    IN  IF Items(t) <= items
        THEN t
        ELSE [index  |-> Truncate(t.index, items),
              data   |-> [i \in FileId |->
                            IF i = expected.file THEN Truncate(t.data[i], expected.off)
                            ELSE IF i > expected.file /\ i <= t.headId THEN EmptyFile
                            ELSE t.data[i]],
              headId |-> expected.file,
              headBytes |-> expected.off]

SyncTable(t) ==
    [t EXCEPT !.index = SyncFile(@), !.data[t.headId] = SyncFile(t.data[t.headId])]

(***************************************************************************)
(* What may be left of a table after a crash: a part of the index and of   *)
(* each file that was not synced.                                          *)
(***************************************************************************)
Crashed(t) ==
    LET loose == {i \in FileId : t.data[i].dur < Len(t.data[i].cur)}
        cuts  == {c \in [loose -> 0 .. 2 * MaxFileSize] :
                    \A i \in loose : c[i] \in t.data[i].dur .. Len(t.data[i].cur)}
        Left(c) == [i \in FileId |-> IF i \in loose THEN SyncFile(Truncate(t.data[i], c[i]))
                                                    ELSE t.data[i]]
    IN  {[t EXCEPT !.index = SyncFile(Truncate(@, cut[1])), !.data = Left(cut[2])] :
            cut \in (t.index.dur .. Items(t)) \X cuts}

\* Mutant: only the data is cut to the index, never the index to the data.
RepairDataOnly(t) ==
    LET index == t.index.cur
        last  == EndOf(index, Len(index))
    IN  [t EXCEPT !.data[last.file] = Truncate(@, last.off), !.headId = last.file,
              !.headBytes = last.off]

(***************************************************************************)
(* repair: index entries that end beyond their data file are dropped one   *)
(* by one, then the head file is cut to the last entry that is left.  A    *)
(* file the loop slipped back from is left as it is.                       *)
(***************************************************************************)
Repair(t) ==
    LET index == t.index.cur
        kept  == Max({n \in 0 .. Len(index) :
                        EndOf(index, n).off <= Len(t.data[EndOf(index, n).file].cur)})
        last  == EndOf(index, kept)
    IN  [index  |-> Truncate(t.index, kept),
         data   |-> [t.data EXCEPT ![last.file] = Truncate(@, last.off)],
         headId |-> last.file,
         headBytes |-> last.off]

(***************************************************************************)
(* Retrieve for an item that the table has, numbered from zero: the bounds *)
(* from two index entries; an item that begins a file starts at zero.      *)
(***************************************************************************)
Retrieve(t, n) ==
    LET end   == t.index.cur[n + 1]
        start == EndOf(t.index.cur, n)
        from  == IF start.file = end.file THEN start.off ELSE 0
    IN  SubSeq(t.data[end.file].cur, from + 1, end.off)

=============================================================================
