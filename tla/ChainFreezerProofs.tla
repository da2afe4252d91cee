------------------------- MODULE ChainFreezerProofs -------------------------
(***************************************************************************)
(* The freezer and the key-value store for any tables, sizes, limits and   *)
(* length of the chain, with a crash at any moment: every block of the     *)
(* chain can be read and is the right one, the tables agree, the database  *)
(* opens, and a block is left without its parent only by an import that    *)
(* the thread could not see.  The files come first, then the tables and    *)
(* what appending, truncating, syncing and repairing keep of them, then    *)
(* the invariant and the steps.                                            *)
(*                                                                         *)
(* The theorems are about rewinds and failing writes that keep out of the  *)
(* freezer's way (~DeepRaces, ~TornWrites): what they do otherwise is in   *)
(* the runs of ChainFreezerExtra.cfg and ChainFreezerTorn.cfg.             *)
(***************************************************************************)
EXTENDS ChainFreezer, FoldLemmas, SequenceTheorems

-----------------------------------------------------------------------------
(* The files.                                                              *)

File(S) == {f \in [cur : Seq(S), dur : Nat] : f.dur <= Len(f.cur)}

\* The empty file is a file of anything.
LEMMA EmptyFileType == ASSUME NEW S PROVE EmptyFile \in File(S) /\ Len(EmptyFile.cur) = 0
  <1>1. <<>> \in Seq(S) /\ Len(<<>>) = 0
    BY EmptySeq
  <1> QED BY <1>1 DEF EmptyFile, File

\* Writing appends.
LEMMA Writing ==
    ASSUME NEW S, NEW f \in File(S), NEW s \in Seq(S)
    PROVE  /\ Write(f, s) \in File(S)
           /\ Write(f, s).dur = f.dur
           /\ Write(f, s).cur = f.cur \o s
           /\ Len(Write(f, s).cur) = Len(f.cur) + Len(s)
           /\ \A i \in 1 .. Len(f.cur) : Write(f, s).cur[i] = f.cur[i]
           /\ \A i \in Len(f.cur) + 1 .. Len(f.cur) + Len(s) :
                 Write(f, s).cur[i] = s[i - Len(f.cur)]
<1>1. f.cur \in Seq(S) /\ f.dur \in Nat /\ f.dur <= Len(f.cur) /\ f = [cur |-> f.cur, dur |-> f.dur]
  BY DEF File
<1>2. Len(f.cur) \in Nat /\ Len(s) \in Nat
  BY <1>1, LenProperties
<1>3. Write(f, s) = [cur |-> f.cur \o s, dur |-> f.dur]
  <2>1. f \in [cur : Seq(S), dur : Nat]
    BY DEF File
  <2> DEFINE c == f.cur \o s
  <2>2. Write(f, s) = [f EXCEPT !.cur = c]
    BY DEF Write
  <2> HIDE DEF c
  <2>3. [f EXCEPT !.cur = c] = [cur |-> c, dur |-> f.dur]
    BY <2>1
  <2> QED BY <2>2, <2>3 DEF c
<1>4. /\ f.cur \o s \in Seq(S)
      /\ Len(f.cur \o s) = Len(f.cur) + Len(s)
      /\ \A i \in 1 .. Len(f.cur) + Len(s) :
            (f.cur \o s)[i] = IF i <= Len(f.cur) THEN f.cur[i] ELSE s[i - Len(f.cur)]
  BY <1>1, ConcatProperties
<1>5. f.dur <= Len(f.cur \o s)
  BY <1>1, <1>2, <1>4
<1>6. Write(f, s).cur = f.cur \o s /\ Write(f, s).dur = f.dur
  BY <1>3
<1>7. Write(f, s) \in File(S)
  BY <1>1, <1>3, <1>4, <1>5 DEF File
<1> QED BY <1>2, <1>4, <1>6, <1>7

\* Truncating to a length the file has keeps a prefix.
LEMMA Truncating ==
    ASSUME NEW S, NEW f \in File(S), NEW n \in 0 .. Len(f.cur)
    PROVE  /\ Truncate(f, n) \in File(S)
           /\ Len(Truncate(f, n).cur) = n
           /\ Truncate(f, n).dur = IF f.dur > n THEN n ELSE f.dur
           /\ \A i \in 1 .. n : Truncate(f, n).cur[i] = f.cur[i]
<1>1. f.cur \in Seq(S) /\ f.dur \in Nat /\ f.dur <= Len(f.cur)
  BY DEF File
<1>2. Len(f.cur) \in Nat
  BY <1>1, LenProperties
<1> DEFINE s == [i \in 1 .. n |-> IF i <= Len(f.cur) THEN f.cur[i] ELSE Zero]
<1>3. s \in [1 .. n -> S]
  <2>1. \A i \in 1 .. n : i <= Len(f.cur) /\ i \in 1 .. Len(f.cur)
    BY <1>2
  <2>2. \A i \in 1 .. Len(f.cur) : f.cur[i] \in S
    BY <1>1, ElementOfSeq
  <2> QED BY <2>1, <2>2
<1>4. n \in Nat
  BY <1>2
<1>5. s \in Seq(S) /\ Len(s) = n
  BY <1>3, <1>4
<1>6. \A i \in 1 .. n : s[i] = f.cur[i]
  BY <1>2
<1>7. Truncate(f, n) = [cur |-> s, dur |-> IF f.dur > n THEN n ELSE f.dur]
  BY DEF Truncate
<1> HIDE DEF s
<1>8. Truncate(f, n).cur = s /\ Truncate(f, n).dur = IF f.dur > n THEN n ELSE f.dur
  BY <1>7
<1>9. Truncate(f, n) \in File(S)
  BY <1>1, <1>4, <1>5, <1>7 DEF File
<1> QED BY <1>5, <1>6, <1>8, <1>9

\* After a sync the whole file is durable.
LEMMA Syncing ==
    ASSUME NEW S, NEW f \in File(S)
    PROVE  SyncFile(f) \in File(S) /\ SyncFile(f).cur = f.cur /\ SyncFile(f).dur = Len(f.cur)
<1>1. f.cur \in Seq(S) /\ f = [cur |-> f.cur, dur |-> f.dur]
  BY DEF File
<1>2. Len(f.cur) \in Nat
  BY <1>1, LenProperties
<1>3. SyncFile(f) = [cur |-> f.cur, dur |-> Len(f.cur)]
  BY <1>1 DEF SyncFile
<1> QED BY <1>1, <1>2, <1>3 DEF File

-----------------------------------------------------------------------------
(* The tables.                                                             *)

Unit  == [num : Nat, ver : Nat]
Entry == [file : FileId, off : Nat]
Table == [index : File(Entry), data : [FileId -> File(Unit)], headId : FileId, headBytes : Nat]
Batch == [data : Seq(Unit), index : Seq(Entry)]

(***************************************************************************)
(* Where the n-th item starts.                                             *)
(***************************************************************************)
StartOf(index, n) ==
    IF EndOf(index, n - 1).file = EndOf(index, n).file THEN EndOf(index, n - 1).off ELSE 0

(***************************************************************************)
(* Each item takes z units; a file begins with a new item.                 *)
(***************************************************************************)
Chained(index, z) ==
    \A n \in 1 .. Len(index) : index[n].file < n /\ index[n].off = StartOf(index, n) + z

After(a, b) == a.file <= b.file /\ (a.file = b.file => a.off < b.off)

Ordered(index) ==
    \A m, n \in 0 .. Len(index) : m < n => After(EndOf(index, m), EndOf(index, n))

(***************************************************************************)
(* The data of the n-th item is that of version v of block n - 1.          *)
(***************************************************************************)
Holds(t, n, v) ==
    LET end  == t.index.cur[n]
        data == t.data[end.file].cur
    IN  /\ end.off <= Len(data)
        /\ \A i \in StartOf(t.index.cur, n) + 1 .. end.off : data[i] = [num |-> n - 1, ver |-> v]

HoldsAll(t, V) == \A n \in 1 .. Items(t) : Holds(t, n, V[n - 1])

(***************************************************************************)
(* The head file ends with the last item, or is new and empty.             *)
(***************************************************************************)
HeadFits(t) ==
    /\ t.headBytes = Len(t.data[t.headId].cur)
    /\ \/ EndOf(t.index.cur, Items(t)) = [file |-> t.headId, off |-> t.headBytes]
       \/ Items(t) > 0 /\ t.index.cur[Items(t)].file + 1 = t.headId /\ t.headBytes = 0

OldFilesSynced(t) ==
    \A i \in FileId : i < t.headId => t.data[i].dur = Len(t.data[i].cur)

TableOK(t, z, V) ==
    /\ t \in Table
    /\ Chained(t.index.cur, z) /\ Ordered(t.index.cur)
    /\ HoldsAll(t, V)
    /\ HeadFits(t) /\ OldFilesSynced(t)

(***************************************************************************)
(* The first d items survive a crash.                                      *)
(***************************************************************************)
Safe(t, d) ==
    LET end == EndOf(t.index.cur, d)
    IN  d <= t.index.dur /\ end.off <= t.data[end.file].dur

\* Where items end is a place in the files.
LEMMA EndType ==
    ASSUME NEW index \in Seq(Entry), NEW n \in 0 .. Len(index)
    PROVE  EndOf(index, n) \in Entry
<1>1. 0 \in FileId
  BY TableAssumption DEF FileId
<1>2. CASE n = 0
  BY <1>1, <1>2 DEF EndOf, Entry
<1>3. CASE n # 0
  <2>1. n \in 1 .. Len(index)
    BY <1>3, LenProperties
  <2>2. index[n] \in Entry
    BY <2>1, ElementOfSeq
  <2> QED BY <1>3, <2>2 DEF EndOf
<1> QED BY <1>2, <1>3

\* The empty table.
LEMMA EmptyTableOK ==
    ASSUME NEW z, NEW V
    PROVE  TableOK(EmptyTable, z, V) /\ Safe(EmptyTable, 0) /\ Items(EmptyTable) = 0
<1>1. \A S : EmptyFile \in File(S) /\ Len(EmptyFile.cur) = 0
  BY EmptyFileType
<1>2. 0 \in FileId
  BY TableAssumption DEF FileId
<1>3. EmptyTable \in Table
  BY <1>1, <1>2 DEF EmptyTable, Table
<1>4. EmptyTable.index = EmptyFile /\ EmptyTable.headId = 0 /\ EmptyTable.headBytes = 0
      /\ EmptyTable.data[0] = EmptyFile
  BY <1>2 DEF EmptyTable
<1>5. Items(EmptyTable) = 0 /\ Len(EmptyTable.index.cur) = 0
  BY <1>1, <1>4 DEF Items
<1>6. Chained(EmptyTable.index.cur, z) /\ Ordered(EmptyTable.index.cur) /\ HoldsAll(EmptyTable, V)
  BY <1>5 DEF Chained, Ordered, HoldsAll
<1>7. HeadFits(EmptyTable) /\ OldFilesSynced(EmptyTable)
  BY <1>1, <1>4, <1>5 DEF HeadFits, OldFilesSynced, EndOf, FileId
<1>8. Safe(EmptyTable, 0)
  BY <1>4 DEF Safe, EndOf, EmptyFile
<1> QED BY <1>3, <1>5, <1>6, <1>7, <1>8 DEF TableOK

\* Indexes with the same entries up to k place these items alike.
LEMMA SamePlaces ==
    ASSUME NEW i1 \in Seq(Entry), NEW i2 \in Seq(Entry), NEW k \in Nat,
           k <= Len(i1), k <= Len(i2), \A n \in 1 .. k : i2[n] = i1[n]
    PROVE  /\ \A n \in 0 .. k : EndOf(i2, n) = EndOf(i1, n)
           /\ \A n \in 1 .. k : StartOf(i2, n) = StartOf(i1, n)
<1>1. \A n \in 0 .. k : EndOf(i2, n) = EndOf(i1, n)
  BY DEF EndOf
<1>2. \A n \in 1 .. k : n \in 0 .. k /\ n - 1 \in 0 .. k
  OBVIOUS
<1> QED BY <1>1, <1>2 DEF StartOf

\* What is known of the parts of a table.
LEMMA TableParts ==
    ASSUME NEW t \in Table
    PROVE  /\ t.index \in File(Entry) /\ t.index.cur \in Seq(Entry)
           /\ t.index.dur \in Nat /\ t.index.dur <= Items(t)
           /\ Items(t) = Len(t.index.cur) /\ Items(t) \in Nat
           /\ t.headId \in FileId /\ t.headBytes \in Nat
           /\ t.data \in [FileId -> File(Unit)]
           /\ \A i \in FileId : /\ t.data[i] \in File(Unit) /\ t.data[i].cur \in Seq(Unit)
                                /\ Len(t.data[i].cur) \in Nat
                                /\ t.data[i].dur \in Nat /\ t.data[i].dur <= Len(t.data[i].cur)
<1>1. /\ t.index \in File(Entry) /\ t.headId \in FileId /\ t.headBytes \in Nat
      /\ t.data \in [FileId -> File(Unit)]
  BY DEF Table
<1>2. \A S : \A f \in File(S) : f.cur \in Seq(S) /\ Len(f.cur) \in Nat /\ f.dur \in Nat /\ f.dur <= Len(f.cur)
  BY LenProperties DEF File
<1> QED BY <1>1, <1>2 DEF Items

\* Each item of a table, and its end, is in one of the files.
LEMMA TableEntries ==
    ASSUME NEW t \in Table
    PROVE  /\ \A n \in 0 .. Items(t) : /\ EndOf(t.index.cur, n) \in Entry
                                       /\ EndOf(t.index.cur, n).file \in FileId
                                       /\ EndOf(t.index.cur, n).off \in Nat
           /\ \A n \in 1 .. Items(t) : /\ t.index.cur[n] = EndOf(t.index.cur, n)
                                       /\ StartOf(t.index.cur, n) \in Nat
<1>1. t.index.cur \in Seq(Entry) /\ Items(t) = Len(t.index.cur) /\ Items(t) \in Nat
  BY TableParts
<1>2. \A n \in 0 .. Items(t) : EndOf(t.index.cur, n) \in Entry
  BY <1>1, EndType
<1>3. \A n \in 0 .. Items(t) :
         EndOf(t.index.cur, n).file \in FileId /\ EndOf(t.index.cur, n).off \in Nat
  BY <1>2 DEF Entry
<1>4. \A n \in 1 .. Items(t) : n # 0 /\ n - 1 \in 0 .. Items(t)
  BY <1>1
<1>5. \A n \in 1 .. Items(t) : t.index.cur[n] = EndOf(t.index.cur, n)
  BY <1>4 DEF EndOf
<1> QED BY <1>2, <1>3, <1>4, <1>5 DEF StartOf

\* What a commit writes.
LEMMA Committing ==
    ASSUME NEW t \in Table, NEW b \in Batch
    PROVE  LET c == CommitBatch(t, b)
           IN  /\ c \in Table
               /\ c.index = Write(t.index, b.index)
               /\ c.data = [t.data EXCEPT ![t.headId] = Write(t.data[t.headId], b.data)]
               /\ c.headId = t.headId /\ c.headBytes = t.headBytes + Len(b.data)
               /\ c = [index |-> c.index, data |-> c.data, headId |-> c.headId, headBytes |-> c.headBytes]
               /\ Items(c) = Items(t) + Len(b.index)
<1> DEFINE i == Write(t.index, b.index)
           d == [t.data EXCEPT ![t.headId] = Write(t.data[t.headId], b.data)]
           h == t.headBytes + Len(b.data)
           c == CommitBatch(t, b)
<1>1. b.data \in Seq(Unit) /\ b.index \in Seq(Entry)
  BY DEF Batch
<1>2. i \in File(Entry) /\ Len(i.cur) = Items(t) + Len(b.index)
  <2>1. t.index \in File(Entry) /\ Items(t) = Len(t.index.cur)
    BY TableParts
  <2>2. \A f \in File(Entry), s \in Seq(Entry) :
           Write(f, s) \in File(Entry) /\ Len(Write(f, s).cur) = Len(f.cur) + Len(s)
    BY Writing
  <2> QED BY <1>1, <2>1, <2>2
<1>3. d \in [FileId -> File(Unit)]
  BY <1>1, TableParts, Writing
<1>4. h \in Nat
  BY <1>1, TableParts, LenProperties
<1>5. c = [index |-> i, data |-> d, headId |-> t.headId, headBytes |-> h]
  <2> DEFINE w == Write(t.data[t.headId], b.data)
             T == [index : File(Entry), data : [FileId -> File(Unit)], headId : FileId, headBytes : Nat]
  <2>1. c = [t EXCEPT !.data[t.headId] = w, !.index = i, !.headBytes = h]
    BY DEF CommitBatch
  <2>2. t \in T /\ d = [t.data EXCEPT ![t.headId] = w]
    BY DEF Table
  <2> HIDE DEF w, i, h, d, c
  <2> QED BY <2>1, <2>2
<1> HIDE DEF i, d, h, c
<1>6. c \in Table
  BY <1>2, <1>3, <1>4, <1>5, TableParts DEF Table
<1>7. c.index = i /\ c.data = d /\ c.headId = t.headId /\ c.headBytes = h
  BY <1>5
<1>8. Items(c) = Items(t) + Len(b.index)
  BY <1>2, <1>7 DEF Items
<1> QED BY <1>5, <1>6, <1>7, <1>8 DEF i, d, h, c

\* An empty batch changes nothing.
LEMMA CommittingNothing ==
    ASSUME NEW t \in Table
    PROVE  EmptyBatch \in Batch /\ CommitBatch(t, EmptyBatch) = t
<1>1. EmptyBatch \in Batch /\ EmptyBatch.data = <<>> /\ EmptyBatch.index = <<>>
  BY EmptySeq DEF EmptyBatch, Batch
<1>2. \A S : \A f \in File(S) : Write(f, <<>>) = f
  <2> TAKE S
  <2> TAKE f \in File(S)
  <2>1. f \in [cur : Seq(S), dur : Nat]
    BY DEF File
  <2>2. f.cur \o <<>> = f.cur
    BY <2>1, ConcatEmptySeq
  <2>3. Write(f, <<>>) = [f EXCEPT !.cur = f.cur]
    BY <2>2 DEF Write
  <2> QED BY <2>1, <2>3
<1>3. Write(t.index, <<>>) = t.index /\ Write(t.data[t.headId], <<>>) = t.data[t.headId]
  BY <1>2, TableParts
<1>4. Len(<<>>) = 0
  BY EmptySeq
<1> DEFINE c == CommitBatch(t, EmptyBatch)
<1>5. /\ c.index = t.index /\ c.headId = t.headId
      /\ c.data = [t.data EXCEPT ![t.headId] = t.data[t.headId]]
      /\ c.headBytes = t.headBytes + 0
      /\ c = [index |-> c.index, data |-> c.data, headId |-> c.headId, headBytes |-> c.headBytes]
  BY <1>1, <1>3, <1>4, Committing
<1> HIDE DEF c
<1>6. c.data = t.data /\ c.headBytes = t.headBytes
  <2>1. t.data \in [FileId -> File(Unit)] /\ t.headBytes \in Nat
    BY TableParts
  <2>2. [t.data EXCEPT ![t.headId] = t.data[t.headId]] = t.data
    BY <2>1
  <2>3. t.headBytes + 0 = t.headBytes
    BY <2>1
  <2> QED BY <1>5, <2>2, <2>3
<1>7. t = [index |-> t.index, data |-> t.data, headId |-> t.headId, headBytes |-> t.headBytes]
  BY DEF Table
<1>8. c = t
  BY <1>5, <1>6, <1>7
<1> QED BY <1>1, <1>8 DEF c

\* What is buffered for one item more.
LEMMA Buffering ==
    ASSUME NEW t \in Table, NEW b \in Batch, NEW item \in Seq(Unit)
    PROVE  LET e == [file |-> t.headId, off |-> t.headBytes + Len(b.data) + Len(item)]
           IN  /\ Buffered(t, b, item) \in Batch
               /\ Buffered(t, b, item).data = b.data \o item
               /\ Buffered(t, b, item).index = Append(b.index, e)
               /\ e \in Entry
               /\ Len(Buffered(t, b, item).index) = Len(b.index) + 1
<1> DEFINE e == [file |-> t.headId, off |-> t.headBytes + Len(b.data) + Len(item)]
<1>1. b.data \in Seq(Unit) /\ b.index \in Seq(Entry)
  BY DEF Batch
<1>2. Len(b.data) \in Nat /\ Len(item) \in Nat /\ Len(b.index) \in Nat
  BY <1>1, LenProperties
<1>3. e \in Entry
  BY <1>2, TableParts DEF Entry
<1>4. Buffered(t, b, item) = [data |-> b.data \o item, index |-> Append(b.index, e)]
  BY DEF Buffered
<1> HIDE DEF e
<1>5. b.data \o item \in Seq(Unit)
  BY <1>1, ConcatProperties
<1>6. Append(b.index, e) \in Seq(Entry) /\ Len(Append(b.index, e)) = Len(b.index) + 1
  BY <1>1, <1>3
<1>7. Buffered(t, b, item) \in Batch
  BY <1>4, <1>5, <1>6 DEF Batch
<1> QED BY <1>3, <1>4, <1>6, <1>7 DEF e

\* An item that is written at once.
Put(t, item) == CommitBatch(t, Buffered(t, EmptyBatch, item))

\* Two writes one after the other write what one write of both would.
LEMMA WritingTwice ==
    ASSUME NEW S, NEW f \in File(S), NEW s1 \in Seq(S), NEW s2 \in Seq(S)
    PROVE  Write(Write(f, s1), s2) = Write(f, s1 \o s2)
<1>1. f \in [cur : Seq(S), dur : Nat]
  BY DEF File
<1>2. (f.cur \o s1) \o s2 = f.cur \o (s1 \o s2)
  <2>1. f.cur \in Seq(S)
    BY <1>1
  <2>2. \A x \in Seq(S) : (x \o s1) \o s2 = x \o (s1 \o s2)
    BY ConcatAssociative
  <2> QED BY <2>1, <2>2
<1> DEFINE g == Write(f, s1)
           s == s1 \o s2
<1>3. g \in [cur : Seq(S), dur : Nat] /\ g.cur = f.cur \o s1 /\ g.dur = f.dur
  <2>1. g \in File(S) /\ g.cur = f.cur \o s1 /\ g.dur = f.dur
    BY Writing
  <2> QED BY <2>1 DEF File
<1>4. s \in Seq(S)
  BY ConcatProperties
<1>5. Write(f, s) \in [cur : Seq(S), dur : Nat] /\ Write(f, s).cur = f.cur \o s /\ Write(f, s).dur = f.dur
  <2> HIDE DEF s
  <2>1. Write(f, s) \in File(S) /\ Write(f, s).cur = f.cur \o s /\ Write(f, s).dur = f.dur
    BY <1>4, Writing
  <2> QED BY <2>1 DEF File
<1>6. Write(g, s2) \in [cur : Seq(S), dur : Nat] /\ Write(g, s2).cur = g.cur \o s2 /\ Write(g, s2).dur = g.dur
  <2>1. g \in File(S)
    BY Writing
  <2> HIDE DEF g
  <2>2. Write(g, s2) \in File(S) /\ Write(g, s2).cur = g.cur \o s2 /\ Write(g, s2).dur = g.dur
    BY <2>1, Writing
  <2> QED BY <2>2 DEF File
<1>7. \A x, y \in [cur : Seq(S), dur : Nat] : x.cur = y.cur /\ x.dur = y.dur => x = y
  OBVIOUS
<1> QED BY <1>2, <1>3, <1>5, <1>6, <1>7

\* Committing the batch with the item is committing the batch, then the item.
LEMMA PutAfterBatch ==
    ASSUME NEW t \in Table, NEW b \in Batch, NEW item \in Seq(Unit)
    PROVE  CommitBatch(t, Buffered(t, b, item)) = Put(CommitBatch(t, b), item)
<1> DEFINE c  == CommitBatch(t, b)
           b1 == Buffered(t, b, item)
           b2 == Buffered(c, EmptyBatch, item)
           e  == [file |-> t.headId, off |-> t.headBytes + Len(b.data) + Len(item)]
           p  == CommitBatch(t, b1)
           q  == CommitBatch(c, b2)
<1>1. b.data \in Seq(Unit) /\ b.index \in Seq(Entry)
  BY DEF Batch
<1>2. Len(b.data) \in Nat /\ Len(item) \in Nat /\ t.headBytes \in Nat
  BY <1>1, LenProperties, TableParts
<1>3. /\ c \in Table /\ c.index = Write(t.index, b.index)
      /\ c.data = [t.data EXCEPT ![t.headId] = Write(t.data[t.headId], b.data)]
      /\ c.headId = t.headId /\ c.headBytes = t.headBytes + Len(b.data)
  BY Committing
<1>4. EmptyBatch \in Batch /\ EmptyBatch.data = <<>> /\ EmptyBatch.index = <<>> /\ Len(EmptyBatch.data) = 0
  BY CommittingNothing, EmptySeq DEF EmptyBatch
<1>5. b1 \in Batch /\ b1.data = b.data \o item /\ b1.index = Append(b.index, e) /\ e \in Entry
  BY Buffering
<1>6. b2 \in Batch /\ b2.data = item /\ b2.index = <<e>>
  <2>1. /\ b2 \in Batch /\ b2.data = <<>> \o item
        /\ b2.index = Append(<<>>, [file |-> c.headId, off |-> c.headBytes + Len(EmptyBatch.data) + Len(item)])
    <3> HIDE DEF c
    <3>1. Buffered(c, EmptyBatch, item) \in Batch
          /\ Buffered(c, EmptyBatch, item).data = EmptyBatch.data \o item
          /\ Buffered(c, EmptyBatch, item).index =
                Append(EmptyBatch.index, [file |-> c.headId, off |-> c.headBytes + Len(EmptyBatch.data) + Len(item)])
      <4>1. c \in Table /\ EmptyBatch \in Batch
        BY <1>3, <1>4
      <4> QED BY <4>1, Buffering
    <3> QED BY <1>4, <3>1
  <2>2. c.headBytes + Len(EmptyBatch.data) + Len(item) = t.headBytes + Len(b.data) + Len(item)
    BY <1>2, <1>3, <1>4
  <2>3. <<>> \o item = item
    BY ConcatEmptySeq
  <2>4. b2.index = Append(<<>>, e)
    BY <1>3, <2>1, <2>2
  <2> HIDE DEF e
  <2>5. Append(<<>>, e) = <<e>>
    OBVIOUS
  <2> QED BY <2>1, <2>3, <2>4, <2>5
<1> HIDE DEF e, b1, b2, c
<1>7. /\ p.index = Write(t.index, b1.index)
      /\ p.data = [t.data EXCEPT ![t.headId] = Write(t.data[t.headId], b1.data)]
      /\ p.headId = t.headId /\ p.headBytes = t.headBytes + Len(b1.data)
      /\ p = [index |-> p.index, data |-> p.data, headId |-> p.headId, headBytes |-> p.headBytes]
  BY <1>5, Committing
<1>8. /\ q.index = Write(c.index, b2.index)
      /\ q.data = [c.data EXCEPT ![c.headId] = Write(c.data[c.headId], b2.data)]
      /\ q.headId = c.headId /\ q.headBytes = c.headBytes + Len(b2.data)
      /\ q = [index |-> q.index, data |-> q.data, headId |-> q.headId, headBytes |-> q.headBytes]
  BY <1>3, <1>6, Committing
<1> HIDE DEF p, q
<1>9. p.index = q.index
  <2>1. <<e>> \in Seq(Entry)
    BY <1>5
  <2>2. Append(b.index, e) = b.index \o <<e>>
    BY <1>1, <1>5
  <2>3. t.index \in File(Entry)
    BY TableParts
  <2>4. Write(Write(t.index, b.index), <<e>>) = Write(t.index, b.index \o <<e>>)
    <3>1. \A f \in File(Entry), s1, s2 \in Seq(Entry) : Write(Write(f, s1), s2) = Write(f, s1 \o s2)
      BY WritingTwice
    <3> QED BY <1>1, <2>1, <2>3, <3>1
  <2> QED BY <1>3, <1>5, <1>6, <1>7, <1>8, <2>2, <2>4
<1>10. p.data = q.data
  <2>1. t.headId \in FileId /\ t.data \in [FileId -> File(Unit)]
    BY TableParts
  <2>2. c.data[c.headId] = Write(t.data[t.headId], b.data)
    BY <1>3, <2>1
  <2>3. Write(c.data[c.headId], b2.data) = Write(t.data[t.headId], b1.data)
    BY <1>1, <1>5, <1>6, WritingTwice, <2>1, <2>2
  <2>4. q.data = [[t.data EXCEPT ![t.headId] = c.data[c.headId]] EXCEPT ![t.headId] = Write(t.data[t.headId], b1.data)]
    BY <1>3, <1>8, <2>2, <2>3
  <2> QED BY <1>7, <2>1, <2>4
<1>11. p.headBytes = q.headBytes
  <2>1. Len(b1.data) = Len(b.data) + Len(item)
    BY <1>1, <1>5, ConcatProperties
  <2> QED BY <1>2, <1>3, <1>6, <1>7, <1>8, <2>1
<1> QED BY <1>3, <1>7, <1>8, <1>9, <1>10, <1>11 DEF p, q, c, b1, b2, Put

\* The head file of a table, in numbers: which files its items may be in.
LEMMA HeadPlace ==
    ASSUME NEW z, NEW V, NEW t, TableOK(t, z, V)
    PROVE  /\ EndOf(t.index.cur, Items(t)).file <= t.headId
           /\ t.headId <= Items(t)
           /\ t.headId \in Nat
           /\ EndOf(t.index.cur, Items(t)).file = t.headId =>
                 EndOf(t.index.cur, Items(t)).off = t.headBytes
           /\ EndOf(t.index.cur, Items(t)).file # t.headId => t.headBytes = 0
           /\ t.headBytes = Len(t.data[t.headId].cur)
<1> DEFINE last == EndOf(t.index.cur, Items(t))
<1>1. t \in Table /\ Chained(t.index.cur, z) /\ HeadFits(t)
  BY DEF TableOK
<1>2. Items(t) \in Nat /\ t.headBytes \in Nat /\ t.headId \in Nat /\ Items(t) = Len(t.index.cur)
  BY <1>1, TableParts DEF FileId
<1>3. last.file \in Nat /\ last.off \in Nat
  BY <1>1, <1>2, TableEntries DEF FileId
<1>4. Items(t) = 0 => last.file = 0 /\ last.off = 0
  BY DEF EndOf
<1>5. Items(t) > 0 => t.index.cur[Items(t)] = last /\ last.file < Items(t)
  BY <1>1, <1>2, TableEntries DEF Chained
<1>6. \/ last = [file |-> t.headId, off |-> t.headBytes]
      \/ Items(t) > 0 /\ last.file + 1 = t.headId /\ t.headBytes = 0
  BY <1>1, <1>5 DEF HeadFits
<1>7. t.headBytes = Len(t.data[t.headId].cur)
  BY <1>1 DEF HeadFits
<1> HIDE DEF last
<1>8. CASE last = [file |-> t.headId, off |-> t.headBytes]
  <2>1. last.file = t.headId /\ last.off = t.headBytes
    BY <1>8
  <2> QED BY <1>2, <1>3, <1>4, <1>5, <1>7, <2>1 DEF last
<1>9. CASE Items(t) > 0 /\ last.file + 1 = t.headId /\ t.headBytes = 0
  BY <1>2, <1>3, <1>5, <1>7, <1>9 DEF last
<1> QED BY <1>6, <1>8, <1>9

\* All items end at or before the last one.
LEMMA BeforeLast ==
    ASSUME NEW z, NEW V, NEW t, TableOK(t, z, V), NEW n \in 0 .. Items(t), NEW m \in 0 .. n
    PROVE  /\ EndOf(t.index.cur, m).file <= EndOf(t.index.cur, n).file
           /\ EndOf(t.index.cur, m).file = EndOf(t.index.cur, n).file =>
                 EndOf(t.index.cur, m).off <= EndOf(t.index.cur, n).off
<1>1. t \in Table /\ Ordered(t.index.cur)
  BY DEF TableOK
<1>2. Items(t) \in Nat /\ Items(t) = Len(t.index.cur)
  BY <1>1, TableParts
<1>3. m \in 0 .. Items(t)
  BY <1>2
<1>4. /\ EndOf(t.index.cur, m).file \in Nat /\ EndOf(t.index.cur, m).off \in Nat
      /\ EndOf(t.index.cur, n).file \in Nat /\ EndOf(t.index.cur, n).off \in Nat
  BY <1>1, <1>3, TableEntries DEF FileId
<1>5. CASE m = n
  BY <1>4, <1>5
<1>6. CASE m < n
  <2>1. After(EndOf(t.index.cur, m), EndOf(t.index.cur, n))
    BY <1>1, <1>2, <1>3, <1>6 DEF Ordered
  <2> QED BY <1>4, <2>1 DEF After
<1>7. m = n \/ m < n
  BY <1>2
<1> QED BY <1>5, <1>6, <1>7

\* What a table is after one more item was written.
LEMMA PutParts ==
    ASSUME NEW t \in Table, NEW item \in Seq(Unit)
    PROVE  LET p == Put(t, item)
               e == [file |-> t.headId, off |-> t.headBytes + Len(item)]
           IN  /\ p \in Table /\ Items(p) = Items(t) + 1
               /\ p.headId = t.headId /\ p.headBytes = t.headBytes + Len(item)
               /\ p.index.dur = t.index.dur
               /\ \A n \in 1 .. Items(t) : p.index.cur[n] = t.index.cur[n]
               /\ p.index.cur[Items(t) + 1] = e
               /\ p.data = [t.data EXCEPT ![t.headId] = Write(t.data[t.headId], item)]
<1> DEFINE b == Buffered(t, EmptyBatch, item)
           p == CommitBatch(t, b)
           e == [file |-> t.headId, off |-> t.headBytes + Len(item)]
<1>1. EmptyBatch \in Batch /\ EmptyBatch.data = <<>> /\ EmptyBatch.index = <<>> /\ Len(EmptyBatch.data) = 0
  BY CommittingNothing, EmptySeq DEF EmptyBatch
<1>2. t.headBytes \in Nat /\ Len(item) \in Nat
  BY LenProperties, TableParts
<1>3. b \in Batch /\ b.data = item /\ b.index = <<e>> /\ e \in Entry
  <2> DEFINE d == [file |-> t.headId, off |-> t.headBytes + Len(EmptyBatch.data) + Len(item)]
  <2>1. b \in Batch /\ b.data = EmptyBatch.data \o item /\ b.index = Append(EmptyBatch.index, d) /\ d \in Entry
    BY <1>1, Buffering
  <2>2. t.headBytes + Len(EmptyBatch.data) + Len(item) = t.headBytes + Len(item)
    BY <1>1, <1>2
  <2>3. d = e
    BY <2>2
  <2>4. <<>> \o item = item
    BY ConcatEmptySeq
  <2> HIDE DEF e, d, b
  <2>5. Append(<<>>, e) = <<e>>
    OBVIOUS
  <2> QED BY <1>1, <2>1, <2>3, <2>4, <2>5
<1> HIDE DEF b
<1>4. /\ p \in Table
      /\ p.index = Write(t.index, <<e>>)
      /\ p.data = [t.data EXCEPT ![t.headId] = Write(t.data[t.headId], item)]
      /\ p.headId = t.headId /\ p.headBytes = t.headBytes + Len(item)
  BY <1>3, Committing
<1>5. t.index \in File(Entry) /\ Items(t) = Len(t.index.cur) /\ Items(t) \in Nat
  BY TableParts
<1> HIDE DEF p, e
<1>6. <<e>> \in Seq(Entry) /\ Len(<<e>>) = 1 /\ <<e>>[1] = e
  BY <1>3
<1>7. \A f \in File(Entry), s \in Seq(Entry) :
         /\ Write(f, s).dur = f.dur
         /\ Len(Write(f, s).cur) = Len(f.cur) + Len(s)
         /\ \A i \in 1 .. Len(f.cur) : Write(f, s).cur[i] = f.cur[i]
         /\ \A i \in Len(f.cur) + 1 .. Len(f.cur) + Len(s) :
               Write(f, s).cur[i] = s[i - Len(f.cur)]
  BY Writing
<1>8. /\ p.index.dur = t.index.dur
      /\ Items(p) = Items(t) + 1
      /\ \A n \in 1 .. Items(t) : p.index.cur[n] = t.index.cur[n]
      /\ p.index.cur[Items(t) + 1] = <<e>>[Items(t) + 1 - Items(t)]
  <2> DEFINE f == t.index
             s == <<e>>
  <2>1. f \in File(Entry) /\ s \in Seq(Entry) /\ Len(s) = 1 /\ Len(f.cur) = Items(t) /\ Items(t) \in Nat
    BY <1>5, <1>6
  <2>2. p.index = Write(f, s) /\ Items(p) = Len(p.index.cur)
    BY <1>4 DEF Items
  <2> HIDE DEF f, s
  <2>3. /\ Write(f, s).dur = f.dur
        /\ Len(Write(f, s).cur) = Len(f.cur) + Len(s)
        /\ \A i \in 1 .. Len(f.cur) : Write(f, s).cur[i] = f.cur[i]
        /\ \A i \in Len(f.cur) + 1 .. Len(f.cur) + Len(s) :
              Write(f, s).cur[i] = s[i - Len(f.cur)]
    BY <1>7, <2>1
  <2>4. Items(t) + 1 \in Len(f.cur) + 1 .. Len(f.cur) + Len(s)
    BY <2>1
  <2>5. p.index.cur[Items(t) + 1] = s[Items(t) + 1 - Items(t)]
    BY <2>1, <2>2, <2>3, <2>4
  <2> QED BY <2>1, <2>2, <2>3, <2>5 DEF f, s
<1>9. p.index.cur[Items(t) + 1] = e
  <2>1. Items(t) + 1 - Items(t) = 1
    BY <1>5
  <2> QED BY <1>6, <1>8, <2>1
<1> QED BY <1>4, <1>8, <1>9 DEF p, e, b, Put

\* One more item, with the units of the next number, keeps the table in order.
LEMMA PutOK ==
    ASSUME NEW z \in Nat, z > 0, NEW V, NEW t, TableOK(t, z, V),
           NEW item \in Seq(Unit), Len(item) = z,
           \A i \in 1 .. z : item[i] = [num |-> Items(t), ver |-> V[Items(t)]]
    PROVE  TableOK(Put(t, item), z, V) /\ Items(Put(t, item)) = Items(t) + 1
<1> DEFINE p == Put(t, item)
           e == [file |-> t.headId, off |-> t.headBytes + Len(item)]
           k == Items(t)
           I == t.index.cur
           J == p.index.cur
           h == t.headId
<1>0. t \in Table /\ Chained(I, z) /\ Ordered(I) /\ HoldsAll(t, V) /\ HeadFits(t) /\ OldFilesSynced(t)
  BY DEF TableOK
<1>1. /\ p \in Table /\ Items(p) = k + 1 /\ p.headId = h /\ p.headBytes = t.headBytes + z
      /\ \A n \in 1 .. k : J[n] = I[n]
      /\ J[k + 1] = e
      /\ p.data = [t.data EXCEPT ![h] = Write(t.data[h], item)]
  BY <1>0, PutParts
<1>2. /\ I \in Seq(Entry) /\ k = Len(I) /\ k \in Nat /\ h \in FileId /\ t.headBytes \in Nat
      /\ J \in Seq(Entry) /\ Len(J) = k + 1
  BY <1>0, <1>1, TableParts
<1>3. /\ \A n \in 0 .. k : EndOf(J, n) = EndOf(I, n)
      /\ \A n \in 1 .. k : StartOf(J, n) = StartOf(I, n)
  <2>1. k <= Len(I) /\ k <= Len(J)
    BY <1>2
  <2> HIDE DEF I, J, k, h, e, p
  <2> QED BY <1>1, <1>2, <2>1, SamePlaces
<1>4. /\ EndOf(I, k).file <= h /\ h <= k /\ h \in Nat
      /\ EndOf(I, k).file = h => EndOf(I, k).off = t.headBytes
      /\ EndOf(I, k).file # h => t.headBytes = 0
      /\ t.headBytes = Len(t.data[h].cur)
  BY HeadPlace
<1>5. EndOf(J, k + 1) = e /\ e.file = h /\ e.off = t.headBytes + z
  BY <1>1, <1>2 DEF EndOf
<1>6. StartOf(J, k + 1) = t.headBytes
  <2>1. k + 1 - 1 = k /\ k \in 0 .. k
    BY <1>2
  <2> HIDE DEF k, e, I, J, h
  <2> QED BY <1>3, <1>4, <1>5, <2>1 DEF StartOf
<1>7. \A n \in 0 .. k : EndOf(I, n).file \in FileId /\ EndOf(I, n).off \in Nat
  BY <1>0, TableEntries
<1> HIDE DEF p, e, k, I, J, h
<1>8. \A n \in 1 .. k + 1 : n \in 1 .. k \/ n = k + 1
  BY <1>2
<1>9. Chained(J, z)
  BY <1>0, <1>1, <1>2, <1>3, <1>4, <1>5, <1>6, <1>8 DEF Chained
<1>10. Ordered(J)
  <2> SUFFICES ASSUME NEW m \in 0 .. k + 1, NEW n \in 0 .. k + 1, m < n
               PROVE  After(EndOf(J, m), EndOf(J, n))
    BY <1>2 DEF Ordered
  <2>1. m \in 0 .. k /\ (n \in 0 .. k \/ n = k + 1)
    BY <1>2
  <2>2. CASE n \in 0 .. k
    BY <1>0, <1>2, <1>3, <2>1, <2>2 DEF Ordered
  <2>3. CASE n = k + 1
    <3>1. /\ EndOf(I, m).file <= EndOf(I, k).file
          /\ EndOf(I, m).file = EndOf(I, k).file => EndOf(I, m).off <= EndOf(I, k).off
      <4>1. k \in 0 .. k
        BY <1>2
      <4> QED BY <2>1, <4>1, BeforeLast DEF k, I
    <3>2. /\ EndOf(I, m).file \in Nat /\ EndOf(I, m).off \in Nat
          /\ EndOf(I, k).file \in Nat /\ EndOf(I, k).off \in Nat
      BY <1>2, <1>7, <2>1 DEF FileId
    <3> DEFINE a == EndOf(I, m)
    <3>3. a.file <= h /\ (a.file = h => a.off < t.headBytes + z)
      <4>1. CASE a.file = h
        <5>1. EndOf(I, k).file = h
          BY <1>4, <3>1, <3>2, <4>1
        <5>2. a.off <= t.headBytes
          BY <1>4, <3>1, <4>1, <5>1
        <5>3. t.headBytes \in Nat /\ z > 0 /\ a.off \in Nat /\ h \in Nat
          BY <1>2, <1>4, <3>2, <4>1
        <5> HIDE DEF a, h
        <5> QED BY <4>1, <5>2, <5>3
      <4>2. CASE a.file # h
        <5>1. a.file <= h
          BY <1>4, <3>1, <3>2
        <5> QED BY <4>2, <5>1
      <4> QED BY <4>1, <4>2
    <3> QED BY <1>3, <1>5, <2>1, <2>3, <3>3 DEF After
  <2> QED BY <2>1, <2>2, <2>3
<1>11. ASSUME NEW i \in FileId
       PROVE  /\ Len(p.data[i].cur) = IF i = h THEN t.headBytes + z ELSE Len(t.data[i].cur)
              /\ p.data[i].dur = t.data[i].dur
              /\ \A j \in 1 .. Len(t.data[i].cur) : p.data[i].cur[j] = t.data[i].cur[j]
              /\ i = h => \A j \in t.headBytes + 1 .. t.headBytes + z :
                             p.data[i].cur[j] = item[j - t.headBytes]
  <2>1. t.data \in [FileId -> File(Unit)]
    BY <1>0, TableParts
  <2>2. CASE i = h
    <3>1. p.data[i] = Write(t.data[i], item) /\ t.data[i] \in File(Unit)
      BY <1>1, <2>1, <2>2
    <3>2. \A f \in File(Unit), s \in Seq(Unit) :
             /\ Write(f, s).dur = f.dur
             /\ Len(Write(f, s).cur) = Len(f.cur) + Len(s)
             /\ \A j \in 1 .. Len(f.cur) : Write(f, s).cur[j] = f.cur[j]
             /\ \A j \in Len(f.cur) + 1 .. Len(f.cur) + Len(s) :
                   Write(f, s).cur[j] = s[j - Len(f.cur)]
      BY Writing
    <3> DEFINE d == t.data[i]
               c == p.data[i]
    <3>3. d.cur = t.data[h].cur
      BY <2>2
    <3>4. d \in File(Unit) /\ c = Write(d, item)
      BY <3>1
    <3> HIDE DEF c, d
    <3>5. /\ c.dur = d.dur
          /\ Len(c.cur) = Len(d.cur) + Len(item)
          /\ \A j \in 1 .. Len(d.cur) : c.cur[j] = d.cur[j]
          /\ \A j \in Len(d.cur) + 1 .. Len(d.cur) + Len(item) : c.cur[j] = item[j - Len(d.cur)]
      BY <3>2, <3>4
    <3>6. Len(d.cur) = t.headBytes /\ Len(item) = z
      BY <1>4, <3>3
    <3> QED BY <2>2, <3>5, <3>6 DEF c, d
  <2>3. CASE i # h
    <3>1. p.data[i] = t.data[i]
      BY <1>1, <2>1, <2>3
    <3> QED BY <2>3, <3>1
  <2> QED BY <2>2, <2>3
<1>12. HoldsAll(p, V)
  <2> SUFFICES ASSUME NEW n \in 1 .. k + 1 PROVE Holds(p, n, V[n - 1])
    BY <1>1 DEF HoldsAll
  <2>1. CASE n \in 1 .. k
    <3>1. Holds(t, n, V[n - 1]) /\ J[n] = I[n] /\ StartOf(J, n) = StartOf(I, n)
      BY <1>0, <1>1, <1>3, <2>1 DEF HoldsAll, k
    <3>2. I[n].file \in FileId /\ I[n].off \in Nat /\ StartOf(I, n) \in Nat
      <4>1. I[n] = EndOf(I, n) /\ StartOf(I, n) \in Nat
        BY <1>0, <2>1, TableEntries DEF I, k
      <4> QED BY <1>2, <1>7, <2>1, <4>1
    <3> DEFINE d == t.data[I[n].file].cur
               c == p.data[I[n].file].cur
               u == [num |-> n - 1, ver |-> V[n - 1]]
               from == StartOf(I, n)
               to == I[n].off
    <3>3. Len(d) \in Nat
      BY <1>0, <3>2, TableParts
    <3>4. Len(c) >= Len(d) /\ \A j \in 1 .. Len(d) : c[j] = d[j]
      <4> DEFINE i == I[n].file
      <4>1. \A j \in 1 .. Len(d) : c[j] = d[j]
        BY <1>11, <3>2
      <4>2. Len(c) = IF i = h THEN t.headBytes + z ELSE Len(d)
        BY <1>11, <3>2
      <4>3. i = h => Len(d) = t.headBytes
        BY <1>4
      <4> HIDE DEF c, d, i
      <4> QED BY <1>2, <3>3, <4>1, <4>2, <4>3
    <3>5. to <= Len(d) /\ \A j \in from + 1 .. to : d[j] = u
      BY <3>1 DEF Holds, I
    <3>6. Len(c) \in Nat
      BY <1>1, <3>2, TableParts
    <3>7. from \in Nat /\ to \in Nat
      BY <3>2
    <3> HIDE DEF c, d, u, from, to
    <3>8. to <= Len(d) /\ Len(d) <= Len(c)
      BY <3>3, <3>4, <3>5, <3>6
    <3>9. to <= Len(c)
      BY <3>3, <3>6, <3>7, <3>8
    <3>10. \A j \in from + 1 .. to : c[j] = u
      <4> TAKE j \in from + 1 .. to
      <4>1. j \in 1 .. Len(d)
        BY <3>3, <3>7, <3>8
      <4>2. c[j] = d[j]
        BY <3>4, <4>1
      <4>3. d[j] = u
        BY <3>5
      <4> QED BY <4>2, <4>3
    <3> QED BY <3>1, <3>9, <3>10 DEF Holds, J, c, u, from, to
  <2>2. CASE n = k + 1
    <3>1. J[n] = e /\ StartOf(J, n) = t.headBytes /\ n - 1 = k
      BY <1>1, <1>2, <1>6, <2>2
    <3>2. Len(p.data[h].cur) = t.headBytes + z
      BY <1>2, <1>11
    <3>3. \A j \in t.headBytes + 1 .. t.headBytes + z : p.data[h].cur[j] = [num |-> k, ver |-> V[k]]
      <4> TAKE j \in t.headBytes + 1 .. t.headBytes + z
      <4>1. j - t.headBytes \in 1 .. z
        BY <1>2
      <4>2. p.data[h].cur[j] = item[j - t.headBytes]
        BY <1>2, <1>11
      <4>3. item[j - t.headBytes] = [num |-> k, ver |-> V[k]]
        BY <4>1 DEF k
      <4> QED BY <4>2, <4>3
    <3>4. e.off <= Len(p.data[e.file].cur)
      BY <1>2, <1>5, <3>2
    <3> QED BY <1>5, <3>1, <3>3, <3>4 DEF Holds, J
  <2> QED BY <1>8, <2>1, <2>2
<1>13. HeadFits(p)
  <2>1. EndOf(p.index.cur, Items(p)) = [file |-> p.headId, off |-> p.headBytes]
    <3>1. e = [file |-> h, off |-> t.headBytes + z]
      BY DEF e, h
    <3> QED BY <1>1, <1>5, <3>1 DEF J
  <2> QED BY <1>1, <1>2, <1>11, <2>1 DEF HeadFits
<1>14. OldFilesSynced(p)
  <2>1. \A i \in FileId : i < h => i # h
    BY <1>4 DEF FileId
  <2> QED BY <1>0, <1>1, <1>11, <2>1 DEF OldFilesSynced, h
<1> QED BY <1>1, <1>9, <1>10, <1>12, <1>13, <1>14 DEF TableOK, p, J, k

\* The parts of a table after its head has moved on to the next file.
LEMMA AdvanceParts ==
    ASSUME NEW t \in Table, t.headId + 1 \in FileId
    PROVE  LET a == AdvanceHead(t)
               h == t.headId
           IN  /\ a \in Table /\ a.index = t.index /\ Items(a) = Items(t)
               /\ a.headId = h + 1 /\ a.headBytes = 0
               /\ a.data[h + 1] = EmptyFile
               /\ a.data[h] = SyncFile(t.data[h])
               /\ \A i \in FileId : i # h /\ i # h + 1 => a.data[i] = t.data[i]
<1> DEFINE h == t.headId
           x == SyncFile(t.data[h])
           d == [[t.data EXCEPT ![h] = x] EXCEPT ![h + 1] = EmptyFile]
           a == AdvanceHead(t)
           T == [index : File(Entry), data : [FileId -> File(Unit)], headId : FileId, headBytes : Nat]
<1>1. /\ t.data \in [FileId -> File(Unit)] /\ h \in FileId /\ h + 1 \in FileId /\ h \in Nat
      /\ t.index \in File(Entry)
  BY TableParts DEF FileId
<1>2. x \in File(Unit) /\ EmptyFile \in File(Unit)
  BY <1>1, Syncing, EmptyFileType
<1>3. a = [t EXCEPT !.data[h] = x, !.data[h + 1] = EmptyFile, !.headId = h + 1, !.headBytes = 0]
  BY DEF AdvanceHead
<1>4. t \in T
  BY DEF Table
<1> HIDE DEF x, a, h
<1>5. a = [index |-> t.index, data |-> d, headId |-> h + 1, headBytes |-> 0]
  BY <1>1, <1>3, <1>4
<1>6. /\ d \in [FileId -> File(Unit)] /\ d[h + 1] = EmptyFile /\ d[h] = x
      /\ \A i \in FileId : i # h /\ i # h + 1 => d[i] = t.data[i]
  BY <1>1, <1>2
<1> HIDE DEF d
<1>7. a.index = t.index /\ a.data = d /\ a.headId = h + 1 /\ a.headBytes = 0
  BY <1>5
<1>8. a \in Table
  BY <1>1, <1>5, <1>6 DEF Table
<1>9. Items(a) = Items(t)
  BY <1>7 DEF Items
<1> QED BY <1>6, <1>7, <1>8, <1>9 DEF a, h, x

\* A table whose head file is not empty stays in order when the head moves on.
LEMMA AdvanceOK ==
    ASSUME NEW z \in Nat, NEW V, NEW t, TableOK(t, z, V), t.headBytes > 0, Items(t) <= LastFile
    PROVE  /\ TableOK(AdvanceHead(t), z, V)
           /\ Items(AdvanceHead(t)) = Items(t)
           /\ AdvanceHead(t).headBytes = 0
           /\ \A d \in 0 .. Items(t) : Safe(t, d) => Safe(AdvanceHead(t), d)
<1> DEFINE h == t.headId
           I == t.index.cur
           k == Items(t)
           a == AdvanceHead(t)
<1>0. t \in Table /\ Chained(I, z) /\ Ordered(I) /\ HoldsAll(t, V) /\ HeadFits(t) /\ OldFilesSynced(t)
  BY DEF TableOK
<1>1. /\ I \in Seq(Entry) /\ k = Len(I) /\ k \in Nat /\ h \in FileId /\ t.headBytes \in Nat /\ h \in Nat
  BY <1>0, TableParts DEF FileId
<1>2. EndOf(I, k).file = h /\ EndOf(I, k).off = t.headBytes
  BY HeadPlace
<1>3. k > 0
  <2>1. k # 0
    BY <1>2 DEF EndOf
  <2> QED BY <1>1, <2>1
<1>4. I[k] = EndOf(I, k) /\ I[k].file < k
  BY <1>0, <1>1, <1>3, TableEntries DEF Chained
<1>5. h + 1 \in FileId
  BY <1>1, <1>2, <1>4, TableAssumption DEF FileId
<1>6. /\ a \in Table /\ a.index = t.index /\ Items(a) = k
      /\ a.headId = h + 1 /\ a.headBytes = 0
      /\ a.data[h + 1] = EmptyFile
      /\ a.data[h] = SyncFile(t.data[h])
      /\ \A i \in FileId : i # h /\ i # h + 1 => a.data[i] = t.data[i]
  BY <1>0, <1>5, AdvanceParts
<1>7. \A i \in FileId :
         /\ t.data[i].cur \in Seq(Unit) /\ Len(t.data[i].cur) \in Nat
         /\ t.data[i].dur \in Nat /\ t.data[i].dur <= Len(t.data[i].cur)
  BY <1>0, TableParts
<1>8. \A i \in FileId : i < h + 1 => a.data[i].cur = t.data[i].cur /\ a.data[i].dur = Len(t.data[i].cur)
  <2>1. a.data[h].cur = t.data[h].cur /\ a.data[h].dur = Len(t.data[h].cur)
    <3>1. t.data[h] \in File(Unit)
      BY <1>0, TableParts
    <3> QED BY <1>6, <3>1, Syncing
  <2>2. ASSUME NEW i \in FileId, i < h PROVE a.data[i].cur = t.data[i].cur /\ a.data[i].dur = Len(t.data[i].cur)
    BY <1>0, <1>1, <1>6, <2>2 DEF OldFilesSynced, FileId
  <2>3. \A i \in FileId : i < h + 1 => i = h \/ i < h
    BY <1>1 DEF FileId
  <2> HIDE DEF a, h
  <2> QED BY <2>1, <2>2, <2>3
<1>9. \A n \in 0 .. k : /\ EndOf(I, n).file \in FileId /\ EndOf(I, n).off \in Nat
                        /\ EndOf(I, n).file < h + 1
  <2>1. \A n \in 0 .. k : EndOf(I, n).file \in FileId /\ EndOf(I, n).off \in Nat
    BY <1>0, TableEntries
  <2>2. ASSUME NEW n \in 0 .. k PROVE EndOf(I, n).file <= h
    <3>1. k \in 0 .. k
      BY <1>1
    <3> QED BY <1>2, <2>2, <3>1, BeforeLast
  <2>3. \A n \in 0 .. k : EndOf(I, n).file \in Nat
    BY <2>1 DEF FileId
  <2> HIDE DEF I, k, h
  <2> QED BY <1>1, <2>1, <2>2, <2>3
<1> HIDE DEF I, k, h, a
<1>10. HoldsAll(a, V)
  <2> SUFFICES ASSUME NEW n \in 1 .. k PROVE Holds(a, n, V[n - 1])
    BY <1>6 DEF HoldsAll
  <2>1. n \in 0 .. k /\ n # 0
    OBVIOUS
  <2>2. I[n] = EndOf(I, n)
    BY <2>1 DEF EndOf
  <2>3. a.data[I[n].file].cur = t.data[I[n].file].cur
    BY <1>8, <1>9, <2>1, <2>2
  <2>4. Holds(t, n, V[n - 1])
    BY <1>0 DEF HoldsAll, k
  <2>5. a.index.cur = I /\ t.index.cur = I
    BY <1>6 DEF I
  <2> QED BY <2>3, <2>4, <2>5 DEF Holds
<1>11. HeadFits(a)
  <2>1. Len(a.data[a.headId].cur) = 0
    BY <1>6, EmptyFileType
  <2>2. a.index.cur[Items(a)].file + 1 = a.headId
    BY <1>2, <1>4, <1>6 DEF I
  <2> QED BY <1>3, <1>6, <2>1, <2>2 DEF HeadFits
<1>12. OldFilesSynced(a)
  BY <1>6, <1>8 DEF OldFilesSynced
<1>13. TableOK(a, z, V)
  BY <1>0, <1>6, <1>10, <1>11, <1>12 DEF TableOK, I
<1>14. ASSUME NEW d \in 0 .. k, Safe(t, d) PROVE Safe(a, d)
  <2> DEFINE e == EndOf(I, d)
  <2>1. d <= t.index.dur /\ e.off <= t.data[e.file].dur
    BY <1>14 DEF Safe, I
  <2>2. e.file \in FileId /\ e.off \in Nat /\ e.file < h + 1
    BY <1>9
  <2> HIDE DEF e
  <2>3. t.data[e.file].dur <= Len(t.data[e.file].cur) /\ a.data[e.file].dur = Len(t.data[e.file].cur)
    BY <1>7, <1>8, <2>2
  <2>4. e.off <= a.data[e.file].dur
    BY <1>7, <2>1, <2>2, <2>3
  <2> QED BY <1>6, <2>1, <2>4 DEF Safe, I, e
<1> QED BY <1>6, <1>13, <1>14 DEF a, k

\* What is safe stays so when a batch is committed.
LEMMA CommitSafe ==
    ASSUME NEW t \in Table, NEW b \in Batch, NEW d \in 0 .. Items(t), Safe(t, d)
    PROVE  Safe(CommitBatch(t, b), d)
<1> DEFINE c == CommitBatch(t, b)
           e == EndOf(t.index.cur, d)
<1>1. /\ c.index = Write(t.index, b.index)
      /\ c.data = [t.data EXCEPT ![t.headId] = Write(t.data[t.headId], b.data)]
  BY Committing
<1>2. /\ t.index \in File(Entry) /\ t.data \in [FileId -> File(Unit)] /\ t.headId \in FileId
      /\ Items(t) = Len(t.index.cur) /\ b.index \in Seq(Entry) /\ b.data \in Seq(Unit)
  BY TableParts DEF Batch
<1>3. \A f \in File(Entry), s \in Seq(Entry) :
         Write(f, s).dur = f.dur /\ \A i \in 1 .. Len(f.cur) : Write(f, s).cur[i] = f.cur[i]
  BY Writing
<1>4. \A f \in File(Unit), s \in Seq(Unit) : Write(f, s).dur = f.dur
  BY Writing
<1>5. e.file \in FileId
  BY TableEntries
<1> HIDE DEF c
<1>6. c.index.dur = t.index.dur /\ \A i \in 1 .. Items(t) : c.index.cur[i] = t.index.cur[i]
  BY <1>1, <1>2, <1>3
<1>7. EndOf(c.index.cur, d) = e
  BY <1>6 DEF EndOf
<1> HIDE DEF e
<1>8. c.data[e.file].dur = t.data[e.file].dur
  BY <1>1, <1>2, <1>4, <1>5
<1> QED BY <1>6, <1>7, <1>8 DEF Safe, c, e

\* Appending an item to a table by way of its batch: table and batch stay in
\* order, together they have one item more, and what was safe stays safe.
LEMMA AppendOK ==
    ASSUME NEW z \in Nat, z > 0, z <= MaxFileSize, NEW V, NEW t, TableOK(t, z, V),
           NEW b \in Batch, TableOK(CommitBatch(t, b), z, V),
           Items(CommitBatch(t, b)) <= LastFile,
           NEW item \in Seq(Unit), Len(item) = z,
           \A i \in 1 .. z : item[i] = [num |-> Items(CommitBatch(t, b)),
                                        ver |-> V[Items(CommitBatch(t, b))]]
    PROVE  LET a == AppendItem(t, b, item)
           IN  /\ TableOK(a.table, z, V) /\ a.batch \in Batch
               /\ TableOK(CommitBatch(a.table, a.batch), z, V)
               /\ Items(CommitBatch(a.table, a.batch)) = Items(CommitBatch(t, b)) + 1
               /\ \A d \in 0 .. Items(t) : Safe(t, d) => Safe(a.table, d)
<1> DEFINE c  == CommitBatch(t, b)
           v  == AdvanceHead(c)
           t1 == IF Fits(t, b, item) THEN t ELSE v
           b0 == IF Fits(t, b, item) THEN b ELSE EmptyBatch
           b1 == Buffered(t1, b0, item)
           c0 == CommitBatch(t1, b0)
           c1 == CommitBatch(t1, b1)
           a  == AppendItem(t, b, item)
<1>0. t \in Table /\ c \in Table
  BY DEF TableOK
<1>1. Len(b.data) \in Nat /\ Len(b.index) \in Nat /\ Len(item) \in Nat /\ t.headBytes \in Nat /\ Items(t) \in Nat
  BY <1>0, LenProperties, TableParts DEF Batch
<1>2. c.headBytes = t.headBytes + Len(b.data) /\ Items(c) = Items(t) + Len(b.index)
  BY <1>0, Committing
<1>3. \A d \in 0 .. Items(t) : Safe(t, d) => Safe(c, d)
  BY <1>0, CommitSafe
<1>4. ~Fits(t, b, item) => /\ TableOK(v, z, V) /\ Items(v) = Items(c)
                           /\ \A d \in 0 .. Items(t) : Safe(t, d) => Safe(v, d)
  <2>1. SUFFICES ASSUME ~Fits(t, b, item)
                 PROVE  /\ TableOK(v, z, V) /\ Items(v) = Items(c)
                        /\ \A d \in 0 .. Items(t) : Safe(t, d) => Safe(v, d)
    OBVIOUS
  <2>2. c.headBytes > 0
    BY <1>1, <1>2, <2>1, TableAssumption DEF Fits
  <2>3. \A d \in 0 .. Items(t) : d \in 0 .. Items(c)
    BY <1>1, <1>2
  <2> HIDE DEF c
  <2>4. /\ TableOK(v, z, V) /\ Items(v) = Items(c)
        /\ \A d \in 0 .. Items(c) : Safe(c, d) => Safe(v, d)
    BY <2>2, AdvanceOK DEF c
  <2> QED BY <1>3, <2>3, <2>4
<1>5. EmptyBatch \in Batch /\ \A x \in Table : CommitBatch(x, EmptyBatch) = x
  BY <1>0, CommittingNothing, Zenon
<1>6. /\ TableOK(t1, z, V) /\ b0 \in Batch /\ TableOK(c0, z, V) /\ Items(c0) = Items(c)
      /\ \A d \in 0 .. Items(t) : Safe(t, d) => Safe(t1, d)
      /\ \A d \in 0 .. Items(t) : d \in 0 .. Items(t1)
  <2>1. CASE Fits(t, b, item)
    <3>1. t1 = t /\ b0 = b /\ c0 = c
      BY <2>1
    <3> HIDE DEF t1, b0, c0, c
    <3> QED BY <3>1 DEF c
  <2>2. CASE ~Fits(t, b, item)
    <3>1. t1 = v /\ b0 = EmptyBatch
      BY <2>2
    <3>2. v \in Table /\ \A d \in 0 .. Items(t) : d \in 0 .. Items(c)
      BY <1>1, <1>2, <1>4, <2>2 DEF TableOK
    <3> HIDE DEF v, c, t1, b0
    <3>3. c0 = v
      BY <1>5, <3>1, <3>2
    <3> HIDE DEF c0
    <3> QED BY <1>4, <1>5, <2>2, <3>1, <3>2, <3>3
  <2> QED BY <2>1, <2>2
<1> HIDE DEF t1, b0
<1>7. t1 \in Table /\ b1 \in Batch /\ c1 = Put(c0, item)
  <2>1. t1 \in Table
    BY <1>6 DEF TableOK
  <2>2. b1 \in Batch
    BY <1>6, <2>1, Buffering
  <2> QED BY <1>6, <2>1, <2>2, PutAfterBatch
<1>8. TableOK(c1, z, V) /\ Items(c1) = Items(c) + 1
  <2> HIDE DEF c1, c0, c
  <2>1. \A i \in 1 .. z : item[i] = [num |-> Items(c0), ver |-> V[Items(c0)]]
    BY <1>6 DEF c
  <2> QED BY <1>6, <1>7, <2>1, PutOK
<1>9. \A d \in 0 .. Items(t) : Safe(t, d) => Safe(c1, d)
  BY <1>6, <1>7, CommitSafe
<1>10. a = IF Full(b1) THEN [table |-> c1, batch |-> EmptyBatch] ELSE [table |-> t1, batch |-> b1]
  BY DEF AppendItem, t1, b0
<1> HIDE DEF a, b1, c
<1>11. CASE Full(b1)
  <2> HIDE DEF c1
  <2>1. a.table = c1 /\ a.batch = EmptyBatch /\ c1 \in Table
    BY <1>8, <1>10, <1>11 DEF TableOK
  <2>2. CommitBatch(a.table, a.batch) = c1
    BY <1>5, <2>1
  <2> QED BY <1>5, <1>8, <1>9, <2>1, <2>2 DEF a, c
<1>12. CASE ~Full(b1)
  <2>1. a.table = t1 /\ a.batch = b1
    BY <1>10, <1>12
  <2>2. CommitBatch(a.table, a.batch) = c1
    BY <2>1
  <2> HIDE DEF c1
  <2> QED BY <1>6, <1>7, <1>8, <2>1, <2>2 DEF a, c
<1> QED BY <1>11, <1>12

\* Every item ends within its file.
LEMMA EndsWithin ==
    ASSUME NEW z, NEW V, NEW t, TableOK(t, z, V), NEW n \in 0 .. Items(t)
    PROVE  LET e == EndOf(t.index.cur, n) IN e.off \in 0 .. Len(t.data[e.file].cur)
<1> DEFINE e == EndOf(t.index.cur, n)
<1>1. t \in Table /\ HoldsAll(t, V)
  BY DEF TableOK
<1>2. e.file \in FileId /\ e.off \in Nat /\ Len(t.data[e.file].cur) \in Nat
  BY <1>1, TableEntries, TableParts
<1>3. CASE n = 0
  BY <1>2, <1>3 DEF EndOf
<1>4. CASE n # 0
  <2>1. n \in 1 .. Items(t)
    BY <1>1, <1>4, TableParts
  <2>2. Holds(t, n, V[n - 1]) /\ t.index.cur[n] = e
    BY <1>1, <1>4, <2>1 DEF HoldsAll, EndOf
  <2>3. e.off <= Len(t.data[e.file].cur)
    <3>1. t.index.cur[n].off <= Len(t.data[t.index.cur[n].file].cur)
      BY <2>2 DEF Holds
    <3> HIDE DEF e
    <3> QED BY <2>2, <3>1
  <2> HIDE DEF e
  <2>4. e.off \in 0 .. Len(t.data[e.file].cur)
    BY <1>2, <2>3
  <2> QED BY <2>4 DEF e
<1> QED BY <1>3, <1>4

\* The parts of a table that was cut to n items.
LEMMA CutParts ==
    ASSUME NEW t \in Table, NEW n \in 0 .. Items(t),
           NEW D \in [FileId -> File(Unit)],
           NEW r, r = [index |-> Truncate(t.index, n), data |-> D,
                       headId |-> EndOf(t.index.cur, n).file,
                       headBytes |-> EndOf(t.index.cur, n).off]
    PROVE  /\ r \in Table /\ Items(r) = n
           /\ r.index.dur = IF t.index.dur > n THEN n ELSE t.index.dur
           /\ \A m \in 1 .. n : r.index.cur[m] = t.index.cur[m]
           /\ \A m \in 0 .. n : EndOf(r.index.cur, m) = EndOf(t.index.cur, m)
           /\ \A m \in 1 .. n : StartOf(r.index.cur, m) = StartOf(t.index.cur, m)
<1> DEFINE e == EndOf(t.index.cur, n)
           i == Truncate(t.index, n)
<1>1. t.index \in File(Entry) /\ Items(t) = Len(t.index.cur) /\ Items(t) \in Nat /\ t.index.cur \in Seq(Entry)
  BY TableParts
<1>2. e.file \in FileId /\ e.off \in Nat
  BY TableEntries
<1>3. \A f \in File(Entry) : \A m \in 0 .. Len(f.cur) :
           /\ Truncate(f, m) \in File(Entry)
           /\ Len(Truncate(f, m).cur) = m
           /\ Truncate(f, m).dur = IF f.dur > m THEN m ELSE f.dur
           /\ \A j \in 1 .. m : Truncate(f, m).cur[j] = f.cur[j]
  BY Truncating
<1>4. /\ i \in File(Entry) /\ Len(i.cur) = n
      /\ i.dur = IF t.index.dur > n THEN n ELSE t.index.dur
      /\ \A m \in 1 .. n : i.cur[m] = t.index.cur[m]
  BY <1>1, <1>3
<1> HIDE DEF e, i
<1>5. r = [index |-> i, data |-> D, headId |-> e.file, headBytes |-> e.off]
  BY DEF e, i
<1>6. r.index = i /\ r \in Table
  BY <1>2, <1>4, <1>5 DEF Table
<1>7. Items(r) = n
  BY <1>4, <1>6 DEF Items
<1>8. n \in Nat /\ n <= Len(t.index.cur) /\ n <= Len(i.cur) /\ i.cur \in Seq(Entry)
  BY <1>1, <1>4 DEF File
<1>9. /\ \A m \in 0 .. n : EndOf(i.cur, m) = EndOf(t.index.cur, m)
      /\ \A m \in 1 .. n : StartOf(i.cur, m) = StartOf(t.index.cur, m)
  BY <1>1, <1>4, <1>8, SamePlaces
<1> QED BY <1>4, <1>6, <1>7, <1>9

\* A table that is cut to n items is in order, if the files still have what
\* these items are made of, the last of them as the end of its file.
LEMMA CutOK ==
    ASSUME NEW z \in Nat, NEW V, NEW t, TableOK(t, z, V), NEW n \in 0 .. Items(t),
           NEW D \in [FileId -> File(Unit)],
           NEW c \in Table, NEW r,
           Items(c) \in n .. Items(t),
           \A m \in 1 .. n : c.index.cur[m] = t.index.cur[m],
           r = [index |-> Truncate(c.index, n), data |-> D,
                headId |-> EndOf(c.index.cur, n).file,
                headBytes |-> EndOf(c.index.cur, n).off],
           Len(D[EndOf(t.index.cur, n).file].cur) = EndOf(t.index.cur, n).off,
           \A i \in FileId : i < EndOf(t.index.cur, n).file =>
              Len(D[i].cur) = Len(t.data[i].cur) /\ D[i].dur = Len(D[i].cur),
           \A i \in FileId : i <= EndOf(t.index.cur, n).file =>
              \A j \in 1 .. Len(D[i].cur) : D[i].cur[j] = t.data[i].cur[j]
    PROVE  TableOK(r, z, V) /\ Items(r) = n
<1> DEFINE I == t.index.cur
           J == c.index.cur
           K == r.index.cur
           e == EndOf(I, n)
<1>0. t \in Table /\ Chained(I, z) /\ Ordered(I) /\ HoldsAll(t, V)
  BY DEF TableOK
<1>1. /\ I \in Seq(Entry) /\ J \in Seq(Entry) /\ Items(t) = Len(I) /\ Items(c) = Len(J)
      /\ Items(t) \in Nat /\ Items(c) \in Nat /\ n \in Nat
  BY <1>0, TableParts
<1>2. n \in 0 .. Items(c) /\ n <= Len(I) /\ n <= Len(J)
  BY <1>1
<1>3. /\ \A m \in 0 .. n : EndOf(J, m) = EndOf(I, m)
      /\ \A m \in 1 .. n : StartOf(J, m) = StartOf(I, m)
  BY <1>1, <1>2, SamePlaces
<1>4. /\ r \in Table /\ Items(r) = n
      /\ \A m \in 1 .. n : K[m] = J[m]
      /\ \A m \in 0 .. n : EndOf(K, m) = EndOf(J, m)
      /\ \A m \in 1 .. n : StartOf(K, m) = StartOf(J, m)
  BY <1>2, CutParts
<1>5. EndOf(J, n) = e /\ n \in 0 .. n
  BY <1>1, <1>3
<1>6. r.data = D /\ r.headId = e.file /\ r.headBytes = e.off
  BY <1>5
<1>7. /\ \A m \in 1 .. n : K[m] = I[m]
      /\ \A m \in 0 .. n : EndOf(K, m) = EndOf(I, m)
      /\ \A m \in 1 .. n : StartOf(K, m) = StartOf(I, m)
  BY <1>3, <1>4
<1>8. Len(K) = n
  BY <1>4 DEF Items
<1>9. /\ \A m \in 0 .. n : EndOf(I, m) \in Entry /\ EndOf(I, m).file \in FileId /\ EndOf(I, m).off \in Nat
      /\ \A m \in 1 .. n : I[m] = EndOf(I, m) /\ StartOf(I, m) \in Nat
  <2>1. \A m \in 0 .. n : m \in 0 .. Items(t)
    BY <1>1, <1>2
  <2>2. \A m \in 1 .. n : m \in 1 .. Items(t)
    BY <1>1, <1>2
  <2> QED BY <1>0, <2>1, <2>2, TableEntries
<1> DEFINE dd(m) == D[I[m].file].cur
           td(m) == t.data[I[m].file].cur
<1>10. ASSUME NEW m \in 1 .. n
       PROVE  /\ I[m].file \in FileId /\ I[m].file <= e.file /\ I[m].off <= Len(dd(m))
              /\ Holds(t, m, V[m - 1])
  <2>1. m \in 0 .. n /\ m \in 1 .. Items(t)
    BY <1>1, <1>2
  <2>2. Holds(t, m, V[m - 1])
    BY <1>0, <2>1 DEF HoldsAll
  <2>3. /\ EndOf(I, m).file <= e.file
        /\ EndOf(I, m).file = e.file => EndOf(I, m).off <= e.off
    BY <2>1, BeforeLast
  <2>4. I[m].off <= Len(td(m))
    BY <2>2 DEF Holds
  <2>5. I[m] = EndOf(I, m) /\ I[m].file \in FileId /\ e.file \in FileId
    BY <1>5, <1>9, <2>1
  <2>6. I[m].file \in Nat /\ e.file \in Nat
    BY <2>5 DEF FileId
  <2>7. CASE I[m].file = e.file
    BY <2>2, <2>3, <2>5, <2>7
  <2>8. CASE I[m].file # e.file
    <3>1. I[m].file < e.file
      BY <2>3, <2>5, <2>6, <2>8
    <3>2. Len(dd(m)) = Len(td(m))
      BY <2>5, <3>1
    <3> QED BY <2>2, <2>3, <2>4, <2>5, <3>2
  <2> QED BY <2>7, <2>8
<1>11. HoldsAll(r, V)
  <2> SUFFICES ASSUME NEW m \in 1 .. n PROVE Holds(r, m, V[m - 1])
    BY <1>4 DEF HoldsAll
  <2> DEFINE x == dd(m)
             y == td(m)
             u == [num |-> m - 1, ver |-> V[m - 1]]
  <2>1. /\ I[m].file \in FileId /\ I[m].file <= e.file /\ I[m].off <= Len(x)
        /\ \A j \in StartOf(I, m) + 1 .. I[m].off : y[j] = u
    BY <1>10 DEF Holds
  <2>2. \A j \in 1 .. Len(x) : x[j] = y[j]
    BY <2>1
  <2>3. Len(x) \in Nat /\ StartOf(I, m) \in Nat /\ I[m].off \in Nat
    <3>1. x \in Seq(Unit)
      BY <2>1 DEF File
    <3>2. m \in 0 .. n
      OBVIOUS
    <3> QED BY <1>9, <3>1, <3>2, LenProperties
  <2>4. x = r.data[K[m].file].cur /\ K[m] = I[m] /\ StartOf(K, m) = StartOf(I, m)
    BY <1>6, <1>7
  <2> HIDE DEF x, y, u, I, K
  <2>5. \A j \in StartOf(I, m) + 1 .. I[m].off : x[j] = u
    <3> TAKE j \in StartOf(I, m) + 1 .. I[m].off
    <3>1. I[m].off <= Len(x) /\ y[j] = u
      BY <2>1
    <3>2. j \in 1 .. Len(x)
      BY <2>3, <3>1
    <3> QED BY <2>2, <3>1, <3>2
  <2> QED BY <2>1, <2>4, <2>5 DEF Holds, K, u
<1>12. HeadFits(r)
  <2>1. EndOf(K, n) = e /\ e = [file |-> e.file, off |-> e.off]
    BY <1>5, <1>7, <1>9 DEF Entry
  <2> HIDE DEF e
  <2>2. EndOf(r.index.cur, Items(r)) = [file |-> r.headId, off |-> r.headBytes]
    BY <1>4, <1>6, <2>1
  <2>3. r.headBytes = Len(r.data[r.headId].cur)
    BY <1>6 DEF e
  <2> QED BY <2>2, <2>3 DEF HeadFits
<1>13. OldFilesSynced(r)
  BY <1>6 DEF OldFilesSynced
<1>14. Chained(K, z)
  <2>1. \A m \in 1 .. n : m \in 1 .. Len(I)
    BY <1>1, <1>2
  <2> HIDE DEF I, K
  <2> QED BY <1>0, <1>7, <1>8, <2>1 DEF Chained
<1>15. Ordered(K)
  <2>1. \A m \in 0 .. n : m \in 0 .. Len(I)
    BY <1>1, <1>2
  <2> HIDE DEF I, K
  <2> QED BY <1>0, <1>7, <1>8, <2>1 DEF Ordered
<1> QED BY <1>4, <1>11, <1>12, <1>13, <1>14, <1>15 DEF TableOK

\* Truncation from the head: the table has n items at most, and what was safe
\* of them stays safe.
LEMMA TruncateOK ==
    ASSUME NEW z \in Nat, NEW V, NEW t, TableOK(t, z, V), NEW n \in 0 .. Items(t)
    PROVE  /\ TableOK(TruncateHead(t, n), z, V)
           /\ Items(TruncateHead(t, n)) = n
           /\ \A d \in 0 .. n : Safe(t, d) => Safe(TruncateHead(t, n), d)
<1> DEFINE e == EndOf(t.index.cur, n)
           D == [i \in FileId |-> IF i = e.file THEN Truncate(t.data[i], e.off)
                                  ELSE IF i > e.file /\ i <= t.headId THEN EmptyFile
                                  ELSE t.data[i]]
           r == [index |-> Truncate(t.index, n), data |-> D, headId |-> e.file, headBytes |-> e.off]
<1>0. t \in Table /\ OldFilesSynced(t)
  BY DEF TableOK
<1>1. Items(t) \in Nat /\ t.headId \in Nat /\ t.index.dur \in Nat
  BY <1>0, TableParts DEF FileId
<1>2. CASE Items(t) <= n
  <2>1. n = Items(t) /\ TruncateHead(t, n) = t
    BY <1>1, <1>2 DEF TruncateHead
  <2> QED BY <2>1
<1>3. CASE ~(Items(t) <= n)
  <2>1. TruncateHead(t, n) = r
    BY <1>3 DEF TruncateHead
  <2>2. /\ e.file \in FileId /\ e.file \in Nat /\ e.off \in Nat /\ e.off \in 0 .. Len(t.data[e.file].cur)
    BY <1>0, TableEntries, EndsWithin DEF FileId
  <2>3. e.file <= t.headId
    <3>1. Items(t) \in 0 .. Items(t) /\ n \in 0 .. Items(t)
      BY <1>1
    <3>2. e.file <= EndOf(t.index.cur, Items(t)).file
      BY <3>1, BeforeLast
    <3>3. EndOf(t.index.cur, Items(t)).file \in Nat
      BY <1>0, <3>1, TableEntries DEF FileId
    <3>4. EndOf(t.index.cur, Items(t)).file <= t.headId
      BY HeadPlace
    <3> QED BY <1>1, <2>2, <3>2, <3>3, <3>4
  <2>4. \A i \in FileId : /\ t.data[i] \in File(Unit) /\ EmptyFile \in File(Unit)
                          /\ t.data[i].dur \in Nat /\ t.data[i].dur <= Len(t.data[i].cur)
                          /\ Len(t.data[i].cur) \in Nat
    BY <1>0, TableParts, EmptyFileType
  <2> HIDE DEF e
  <2> DEFINE x == Truncate(t.data[e.file], e.off)
  <2>5. /\ x \in File(Unit) /\ Len(x.cur) = e.off
        /\ x.dur = IF t.data[e.file].dur > e.off THEN e.off ELSE t.data[e.file].dur
        /\ \A j \in 1 .. e.off : x.cur[j] = t.data[e.file].cur[j]
    BY <2>2, <2>4, Truncating
  <2>6. D[e.file] = x /\ \A i \in FileId : i < e.file => D[i] = t.data[i]
    BY <2>2 DEF FileId
  <2> HIDE DEF x
  <2>7. D \in [FileId -> File(Unit)]
    <3>1. \A i \in FileId : D[i] \in File(Unit)
      <4> SUFFICES ASSUME NEW i \in FileId PROVE D[i] \in File(Unit)
        OBVIOUS
      <4>1. D[i] = IF i = e.file THEN x
                   ELSE IF i > e.file /\ i <= t.headId THEN EmptyFile ELSE t.data[i]
        BY DEF x
      <4> HIDE DEF D
      <4> QED BY <2>4, <2>5, <4>1
    <3> QED BY <3>1
  <2> HIDE DEF D
  <2>8. \A i \in FileId : i <= e.file => i = e.file \/ i < e.file
    BY <2>2 DEF FileId
  <2>9. \A i \in FileId : i < e.file => Len(D[i].cur) = Len(t.data[i].cur) /\ D[i].dur = Len(D[i].cur)
    <3>1. \A i \in FileId : i < e.file => i < t.headId
      BY <1>1, <2>2, <2>3 DEF FileId
    <3> QED BY <1>0, <2>6, <3>1 DEF OldFilesSynced
  <2>10. \A i \in FileId : i <= e.file => \A j \in 1 .. Len(D[i].cur) : D[i].cur[j] = t.data[i].cur[j]
    BY <2>5, <2>6, <2>8
  <2>11. Items(t) \in n .. Items(t)
    BY <1>1
  <2>12. TableOK(r, z, V) /\ Items(r) = n
    <3>1. Len(D[EndOf(t.index.cur, n).file].cur) = EndOf(t.index.cur, n).off
      BY <2>5, <2>6 DEF e
    <3>2. /\ \A i \in FileId : i < EndOf(t.index.cur, n).file =>
                Len(D[i].cur) = Len(t.data[i].cur) /\ D[i].dur = Len(D[i].cur)
          /\ \A i \in FileId : i <= EndOf(t.index.cur, n).file =>
                \A j \in 1 .. Len(D[i].cur) : D[i].cur[j] = t.data[i].cur[j]
      BY <2>9, <2>10 DEF e
    <3>3. r = [index |-> Truncate(t.index, n), data |-> D,
               headId |-> EndOf(t.index.cur, n).file, headBytes |-> EndOf(t.index.cur, n).off]
      BY DEF e
    <3>4. D \in [FileId -> File(Unit)] /\ t \in Table /\ TableOK(t, z, V)
      BY <1>0, <2>7
    <3> HIDE DEF r, D
    <3> QED BY <2>11, <3>1, <3>2, <3>3, <3>4, CutOK, SMTT(30)
  <2>13. ASSUME NEW d \in 0 .. n, Safe(t, d) PROVE Safe(r, d)
    <3> DEFINE f == EndOf(t.index.cur, d)
    <3>1. r = [index |-> Truncate(t.index, n), data |-> D,
               headId |-> EndOf(t.index.cur, n).file, headBytes |-> EndOf(t.index.cur, n).off]
      BY DEF e
    <3>2. r.data = D
      OBVIOUS
    <3> HIDE DEF r
    <3>3. /\ r.index.dur = IF t.index.dur > n THEN n ELSE t.index.dur
          /\ EndOf(r.index.cur, d) = f
      <4>1. \A m \in 0 .. n : EndOf(r.index.cur, m) = EndOf(t.index.cur, m)
        BY <1>0, <2>7, <3>1, CutParts
      <4>2. r.index.dur = IF t.index.dur > n THEN n ELSE t.index.dur
        BY <1>0, <2>7, <3>1, CutParts
      <4> QED BY <4>1, <4>2
    <3>4. d <= t.index.dur /\ f.off <= t.data[f.file].dur
      BY <2>13 DEF Safe
    <3>5. d <= r.index.dur
      BY <1>1, <3>3, <3>4
    <3>6. f.file <= e.file /\ (f.file = e.file => f.off <= e.off)
      BY BeforeLast DEF e
    <3>7. f.file \in FileId /\ f.off \in Nat
      BY <1>0, <1>1, TableEntries
    <3> HIDE DEF f
    <3>8. f.off <= D[f.file].dur
      <4>1. CASE f.file = e.file
        BY <2>2, <2>4, <2>5, <2>6, <3>4, <3>6, <3>7, <4>1
      <4>2. CASE f.file # e.file
        <5>1. f.file < e.file
          BY <2>8, <3>6, <3>7, <4>2
        <5> QED BY <2>6, <3>4, <3>7, <5>1
      <4> QED BY <4>1, <4>2
    <3> QED BY <3>2, <3>3, <3>5, <3>8 DEF Safe, f
  <2> QED BY <2>1, <2>12, <2>13
<1> QED BY <1>2, <1>3

\* Fewer items than are safe are safe.
LEMMA SafeBelow ==
    ASSUME NEW z \in Nat, NEW V, NEW t, TableOK(t, z, V),
           NEW n \in 0 .. Items(t), Safe(t, n), NEW d \in 0 .. n
    PROVE  Safe(t, d)
<1> DEFINE e == EndOf(t.index.cur, n)
           f == EndOf(t.index.cur, d)
<1>0. t \in Table /\ OldFilesSynced(t)
  BY DEF TableOK
<1>1. Items(t) \in Nat /\ t.headId \in Nat /\ t.index.dur \in Nat
  BY <1>0, TableParts DEF FileId
<1>2. n <= t.index.dur /\ e.off <= t.data[e.file].dur
  BY DEF Safe
<1>3. d \in 0 .. Items(t) /\ Items(t) \in 0 .. Items(t) /\ n \in 0 .. Items(t)
  BY <1>1
<1>4. e.file \in FileId /\ e.off \in Nat /\ f.file \in FileId /\ f.off \in Nat
  BY <1>0, <1>3, TableEntries
<1>5. f.file <= e.file /\ (f.file = e.file => f.off <= e.off)
  BY BeforeLast
<1>6. e.file <= t.headId
  <2>1. e.file <= EndOf(t.index.cur, Items(t)).file
    BY <1>3, BeforeLast
  <2>2. EndOf(t.index.cur, Items(t)).file \in Nat
    BY <1>0, <1>3, TableEntries DEF FileId
  <2>3. EndOf(t.index.cur, Items(t)).file <= t.headId
    BY HeadPlace
  <2> QED BY <1>1, <1>4, <2>1, <2>2, <2>3 DEF FileId
<1>7. f.off <= Len(t.data[f.file].cur)
  <2>1. f.off \in 0 .. Len(t.data[f.file].cur)
    BY <1>3, EndsWithin
  <2>2. Len(t.data[f.file].cur) \in Nat
    BY <1>0, <1>4, TableParts
  <2> HIDE DEF f
  <2> QED BY <1>4, <2>1, <2>2
<1>8. t.data[f.file].dur \in Nat /\ t.data[e.file].dur \in Nat
  BY <1>0, <1>4, TableParts
<1> HIDE DEF e, f
<1>9. f.off <= t.data[f.file].dur
  <2>1. CASE f.file = e.file
    BY <1>2, <1>4, <1>5, <1>8, <2>1
  <2>2. CASE f.file # e.file
    <3>1. f.file < t.headId
      BY <1>1, <1>4, <1>5, <1>6, <2>2 DEF FileId
    <3> QED BY <1>0, <1>4, <1>7, <3>1 DEF OldFilesSynced
  <2> QED BY <2>1, <2>2
<1>10. d <= t.index.dur
  BY <1>1, <1>2, <1>3
<1> QED BY <1>9, <1>10 DEF Safe, f

\* After a sync every item is safe.
LEMMA SyncOK ==
    ASSUME NEW z \in Nat, NEW V, NEW t, TableOK(t, z, V)
    PROVE  /\ TableOK(SyncTable(t), z, V)
           /\ Items(SyncTable(t)) = Items(t)
           /\ Safe(SyncTable(t), Items(t))
<1> DEFINE h == t.headId
           x == SyncFile(t.data[h])
           y == SyncFile(t.index)
           D == [t.data EXCEPT ![h] = x]
           s == SyncTable(t)
           I == t.index.cur
           T == [index : File(Entry), data : [FileId -> File(Unit)], headId : FileId, headBytes : Nat]
<1>0. t \in Table /\ Chained(I, z) /\ Ordered(I) /\ HoldsAll(t, V) /\ HeadFits(t) /\ OldFilesSynced(t)
  BY DEF TableOK
<1>1. /\ t.index \in File(Entry) /\ t.data \in [FileId -> File(Unit)] /\ h \in FileId /\ t.headBytes \in Nat
      /\ Items(t) = Len(I) /\ Items(t) \in Nat
  BY <1>0, TableParts
<1>2. y \in File(Entry) /\ y.cur = I /\ y.dur = Items(t)
  BY <1>1, Syncing
<1>3. x \in File(Unit) /\ x.cur = t.data[h].cur /\ x.dur = Len(t.data[h].cur)
  <2>1. t.data[h] \in File(Unit)
    BY <1>1
  <2> QED BY <2>1, Syncing
<1>4. s = [t EXCEPT !.index = y, !.data[h] = x]
  BY DEF SyncTable
<1>5. t \in T
  BY <1>0 DEF Table
<1> HIDE DEF x, y, s, h
<1>6. s = [index |-> y, data |-> D, headId |-> h, headBytes |-> t.headBytes]
  BY <1>1, <1>4, <1>5 DEF h
<1>7. /\ D \in [FileId -> File(Unit)]
      /\ \A i \in FileId : D[i].cur = t.data[i].cur
      /\ D[h].dur = Len(t.data[h].cur)
      /\ \A i \in FileId : i # h => D[i] = t.data[i]
  BY <1>1, <1>3
<1> HIDE DEF D
<1>8. s.index = y /\ s.data = D /\ s.headId = h /\ s.headBytes = t.headBytes
  BY <1>6
<1>9. s \in Table
  BY <1>1, <1>2, <1>6, <1>7 DEF Table
<1>10. Items(s) = Items(t) /\ s.index.cur = I /\ s.index.dur = Items(t)
  BY <1>1, <1>2, <1>8 DEF Items
<1>11. HoldsAll(s, V)
  <2> SUFFICES ASSUME NEW n \in 1 .. Items(t) PROVE Holds(s, n, V[n - 1])
    BY <1>10 DEF HoldsAll
  <2>1. Holds(t, n, V[n - 1])
    BY <1>0 DEF HoldsAll
  <2>2. I[n].file \in FileId
    <3>1. n \in 0 .. Items(t)
      BY <1>1
    <3> QED BY <1>0, <3>1, TableEntries
  <2>3. s.data[I[n].file].cur = t.data[I[n].file].cur
    BY <1>7, <1>8, <2>2
  <2> QED BY <1>10, <2>1, <2>3 DEF Holds
<1>12. HeadFits(s)
  <2>1. s.data[s.headId].cur = t.data[t.headId].cur /\ s.headId = t.headId
    BY <1>1, <1>7, <1>8 DEF h
  <2> QED BY <1>0, <1>8, <1>10, <2>1 DEF HeadFits
<1>13. \A i \in FileId : i <= h => s.data[i].dur = Len(s.data[i].cur)
  <2>1. \A i \in FileId : i <= h => i = h \/ i < t.headId
    BY <1>1 DEF h, FileId
  <2> QED BY <1>0, <1>1, <1>7, <1>8, <2>1 DEF OldFilesSynced
<1>14. OldFilesSynced(s)
  <2>1. \A i \in FileId : i < h => i <= h
    BY <1>1 DEF FileId
  <2> QED BY <1>8, <1>13, <2>1 DEF OldFilesSynced
<1>15. TableOK(s, z, V)
  BY <1>0, <1>9, <1>10, <1>11, <1>12, <1>14 DEF TableOK
<1>16. Safe(s, Items(t))
  <2> DEFINE e == EndOf(s.index.cur, Items(s))
  <2>1. Items(s) \in 0 .. Items(s)
    BY <1>1, <1>10
  <2>2. e.off \in 0 .. Len(s.data[e.file].cur) /\ e.file <= s.headId
    BY <1>15, <2>1, EndsWithin, HeadPlace
  <2>3. e.file \in FileId
    BY <1>9, <2>1, TableEntries
  <2>4. Len(s.data[e.file].cur) \in Nat
    BY <1>9, <2>3, TableParts
  <2> HIDE DEF e
  <2>5. e.off <= s.data[e.file].dur
    BY <1>8, <1>13, <2>2, <2>3, <2>4
  <2>6. Items(t) <= s.index.dur
    BY <1>1, <1>10
  <2> QED BY <1>10, <2>5, <2>6 DEF Safe, e
<1> QED BY <1>10, <1>15, <1>16 DEF s

\* What a crash may leave of a table.
LEMMA CrashParts ==
    ASSUME NEW t \in Table, NEW c \in Crashed(t)
    PROVE  /\ c \in Table
           /\ Items(c) \in t.index.dur .. Items(t)
           /\ c.index.dur = Items(c)
           /\ \A m \in 1 .. Items(c) : c.index.cur[m] = t.index.cur[m]
           /\ \A i \in FileId : /\ c.data[i].dur = Len(c.data[i].cur)
                                /\ Len(c.data[i].cur) \in t.data[i].dur .. Len(t.data[i].cur)
                                /\ \A j \in 1 .. Len(c.data[i].cur) : c.data[i].cur[j] = t.data[i].cur[j]
<1> DEFINE loose == {i \in FileId : t.data[i].dur < Len(t.data[i].cur)}
           cuts  == {s \in [loose -> 0 .. 2 * MaxFileSize] :
                       \A i \in loose : s[i] \in t.data[i].dur .. Len(t.data[i].cur)}
           Left(s) == [i \in FileId |-> IF i \in loose THEN SyncFile(Truncate(t.data[i], s[i]))
                                                       ELSE t.data[i]]
           T == [index : File(Entry), data : [FileId -> File(Unit)], headId : FileId, headBytes : Nat]
<1>1. PICK n \in t.index.dur .. Items(t), s \in cuts :
         c = [t EXCEPT !.index = SyncFile(Truncate(t.index, n)), !.data = Left(s)]
  <2>1. PICK cut \in (t.index.dur .. Items(t)) \X cuts :
           c = [t EXCEPT !.index = SyncFile(Truncate(t.index, cut[1])), !.data = Left(cut[2])]
    BY DEF Crashed
  <2>2. cut[1] \in t.index.dur .. Items(t) /\ cut[2] \in cuts
    BY <2>1
  <2> HIDE DEF Left, cuts
  <2> QED BY <2>1, <2>2
<1>2. /\ t.index \in File(Entry) /\ t.index.dur \in Nat /\ Items(t) \in Nat /\ Items(t) = Len(t.index.cur)
      /\ t.headId \in FileId /\ t.headBytes \in Nat
      /\ \A i \in FileId : /\ t.data[i] \in File(Unit)
                           /\ t.data[i].dur \in Nat /\ Len(t.data[i].cur) \in Nat
                           /\ t.data[i].dur <= Len(t.data[i].cur)
  BY TableParts
<1> DEFINE y == SyncFile(Truncate(t.index, n))
           L == Left(s)
<1>3. ASSUME NEW S, NEW f \in File(S), NEW k \in 0 .. Len(f.cur)
      PROVE  LET g == SyncFile(Truncate(f, k))
             IN  /\ g \in File(S) /\ Len(g.cur) = k /\ g.dur = k
                 /\ \A j \in 1 .. k : g.cur[j] = f.cur[j]
  <2> DEFINE x == Truncate(f, k)
  <2>1. x \in File(S) /\ Len(x.cur) = k /\ \A j \in 1 .. k : x.cur[j] = f.cur[j]
    BY Truncating
  <2> HIDE DEF x
  <2>2. SyncFile(x) \in File(S) /\ SyncFile(x).cur = x.cur /\ SyncFile(x).dur = Len(x.cur)
    BY <2>1, Syncing
  <2> QED BY <2>1, <2>2 DEF x
<1>4. y \in File(Entry) /\ Len(y.cur) = n /\ y.dur = n /\ \A j \in 1 .. n : y.cur[j] = t.index.cur[j]
  <2>1. n \in 0 .. Len(t.index.cur)
    BY <1>2
  <2> HIDE DEF y
  <2> QED BY <1>2, <1>3, <2>1 DEF y
<1>5. ASSUME NEW i \in FileId
      PROVE  /\ L[i] \in File(Unit) /\ L[i].dur = Len(L[i].cur)
             /\ Len(L[i].cur) \in t.data[i].dur .. Len(t.data[i].cur)
             /\ \A j \in 1 .. Len(L[i].cur) : L[i].cur[j] = t.data[i].cur[j]
  <2>1. CASE i \in loose
    <3>1. L[i] = SyncFile(Truncate(t.data[i], s[i]))
      BY <2>1
    <3>2. s[i] \in t.data[i].dur .. Len(t.data[i].cur)
      BY <2>1
    <3>3. s[i] \in 0 .. Len(t.data[i].cur) /\ t.data[i] \in File(Unit)
      BY <1>2, <3>2
    <3> DEFINE g == SyncFile(Truncate(t.data[i], s[i]))
    <3>4. g \in File(Unit) /\ Len(g.cur) = s[i] /\ g.dur = s[i] /\ \A j \in 1 .. s[i] : g.cur[j] = t.data[i].cur[j]
      BY <1>3, <3>3
    <3> HIDE DEF g, L
    <3> QED BY <3>1, <3>2, <3>4 DEF g
  <2>2. CASE i \notin loose
    <3>1. L[i] = t.data[i] /\ ~ (t.data[i].dur < Len(t.data[i].cur))
      BY <2>2
    <3> HIDE DEF L
    <3> QED BY <1>2, <3>1
  <2> QED BY <2>1, <2>2
<1>6. L \in [FileId -> File(Unit)]
  <2>1. \A i \in FileId : L[i] \in File(Unit)
    BY <1>5
  <2>2. L = [i \in FileId |-> L[i]]
    OBVIOUS
  <2> HIDE DEF L
  <2> QED BY <2>1, <2>2
<1>7. t \in T
  BY DEF Table
<1>8. c = [t EXCEPT !.index = y, !.data = L]
  BY <1>1
<1> HIDE DEF y, L
<1>9. c = [index |-> y, data |-> L, headId |-> t.headId, headBytes |-> t.headBytes]
  BY <1>7, <1>8
<1>10. c \in Table /\ c.index = y /\ c.data = L
  BY <1>2, <1>4, <1>6, <1>9 DEF Table
<1>11. Items(c) = n
  BY <1>4, <1>10 DEF Items
<1>12. \A i \in FileId : /\ c.data[i].dur = Len(c.data[i].cur)
                         /\ Len(c.data[i].cur) \in t.data[i].dur .. Len(t.data[i].cur)
                         /\ \A j \in 1 .. Len(c.data[i].cur) : c.data[i].cur[j] = t.data[i].cur[j]
  BY <1>5, <1>10
<1> HIDE DEF loose, cuts, Left, T
<1> QED BY <1>4, <1>10, <1>11, <1>12

\* The repair of what a crash left: the table is in order and entirely durable,
\* it has the items that were safe and none that was not there.
LEMMA RepairOK ==
    ASSUME NEW z \in Nat, NEW V, NEW t, TableOK(t, z, V),
           NEW d \in 0 .. Items(t), Safe(t, d), NEW c \in Crashed(t)
    PROVE  /\ TableOK(Repair(c), z, V)
           /\ Items(Repair(c)) \in d .. Items(t)
           /\ Safe(Repair(c), Items(Repair(c)))
<1> DEFINE I == t.index.cur
           J == c.index.cur
           S == {n \in 0 .. Len(J) : EndOf(J, n).off <= Len(c.data[EndOf(J, n).file].cur)}
           kept == Max(S)
           last == EndOf(J, kept)
           D == [c.data EXCEPT ![last.file] = Truncate(c.data[last.file], last.off)]
           r == [index |-> Truncate(c.index, kept), data |-> D, headId |-> last.file, headBytes |-> last.off]
<1>0. t \in Table /\ OldFilesSynced(t)
  BY DEF TableOK
<1>1. /\ c \in Table
      /\ Items(c) \in t.index.dur .. Items(t)
      /\ c.index.dur = Items(c)
      /\ \A m \in 1 .. Items(c) : J[m] = I[m]
      /\ \A i \in FileId : /\ c.data[i].dur = Len(c.data[i].cur)
                           /\ Len(c.data[i].cur) \in t.data[i].dur .. Len(t.data[i].cur)
                           /\ \A j \in 1 .. Len(c.data[i].cur) : c.data[i].cur[j] = t.data[i].cur[j]
  BY <1>0, CrashParts
<1>2. /\ Items(t) \in Nat /\ Items(t) = Len(I) /\ I \in Seq(Entry) /\ t.index.dur \in Nat
      /\ t.headId \in Nat
      /\ \A i \in FileId : /\ t.data[i].dur \in Nat /\ Len(t.data[i].cur) \in Nat
                           /\ t.data[i].dur <= Len(t.data[i].cur)
  BY <1>0, TableParts DEF FileId
<1>3. /\ Items(c) \in Nat /\ Items(c) = Len(J) /\ J \in Seq(Entry) /\ Items(c) <= Items(t)
      /\ c.data \in [FileId -> File(Unit)]
      /\ \A i \in FileId : c.data[i] \in File(Unit) /\ Len(c.data[i].cur) \in Nat
  BY <1>1, TableParts, <1>2
<1>4. /\ \A n \in 0 .. Items(c) : EndOf(J, n) = EndOf(I, n)
      /\ \A n \in 1 .. Items(c) : StartOf(J, n) = StartOf(I, n)
  <2>1. Items(c) <= Len(I) /\ Items(c) <= Len(J)
    BY <1>2, <1>3
  <2> HIDE DEF I, J
  <2> QED BY <1>1, <1>2, <1>3, <2>1, SamePlaces
<1>5. d \in S
  <2> DEFINE f == EndOf(I, d)
  <2>1. d <= t.index.dur /\ f.off <= t.data[f.file].dur
    BY DEF Safe
  <2>2. d \in 0 .. Items(c)
    BY <1>1, <1>2, <1>3, <2>1
  <2>3. EndOf(J, d) = f
    BY <1>4, <2>2
  <2>4. f.file \in FileId /\ f.off \in Nat
    BY <1>0, TableEntries
  <2> HIDE DEF f
  <2>5. f.off <= Len(c.data[f.file].cur)
    <3>1. Len(c.data[f.file].cur) \in t.data[f.file].dur .. Len(t.data[f.file].cur)
      BY <1>1, <2>4
    <3>2. t.data[f.file].dur \in Nat
      BY <1>2, <2>4
    <3> QED BY <2>1, <2>4, <3>1, <3>2
  <2> QED BY <1>3, <2>2, <2>3, <2>5
<1>6. kept \in S /\ \A m \in S : m <= kept
  <2>1. S \subseteq 0 .. Len(J) /\ S \subseteq Nat
    BY <1>3
  <2>2. IsFiniteSet(0 .. Len(J))
    <3> DEFINE l == Len(J)
    <3>1. l \in Int /\ 0 \in Int
      BY <1>3
    <3> HIDE DEF l
    <3>2. IsFiniteSet(0 .. l)
      BY <3>1, FS_Interval
    <3> QED BY <3>2 DEF l
  <2>3. IsFiniteSet(S)
    BY <2>1, <2>2, FS_Subset
  <2> HIDE DEF S
  <2> QED BY <1>5, <2>1, <2>3, MaxIsGreatest
<1>7. kept \in 0 .. Items(c) /\ last.off <= Len(c.data[last.file].cur) /\ d <= kept
  BY <1>3, <1>5, <1>6
<1> HIDE DEF kept
<1>8. last = EndOf(I, kept) /\ kept \in 0 .. Items(t)
  BY <1>2, <1>3, <1>4, <1>7
<1>9. last.file \in FileId /\ last.off \in Nat /\ last.file \in Nat
  BY <1>0, <1>8, TableEntries DEF FileId
<1>10. last.file <= t.headId
  <2>1. Items(t) \in 0 .. Items(t)
    BY <1>2
  <2>2. last.file <= EndOf(I, Items(t)).file
    BY <1>8, <2>1, BeforeLast
  <2>3. EndOf(I, Items(t)).file \in Nat
    BY <1>0, <2>1, TableEntries DEF FileId
  <2>4. EndOf(I, Items(t)).file <= t.headId
    BY HeadPlace
  <2> HIDE DEF last, I
  <2> QED BY <1>2, <1>9, <2>2, <2>3, <2>4
<1>11. Repair(c) = r
  BY DEF Repair, kept
<1> HIDE DEF last
<1> DEFINE x == Truncate(c.data[last.file], last.off)
<1>12. /\ x \in File(Unit) /\ Len(x.cur) = last.off /\ x.dur = last.off
       /\ \A j \in 1 .. last.off : x.cur[j] = c.data[last.file].cur[j]
  <2> DEFINE f == c.data[last.file]
  <2>1. f \in File(Unit) /\ f.dur = Len(f.cur) /\ Len(f.cur) \in Nat /\ last.off <= Len(f.cur)
    BY <1>1, <1>3, <1>7, <1>9
  <2> HIDE DEF f
  <2>2. last.off \in 0 .. Len(f.cur)
    BY <1>9, <2>1
  <2>3. /\ Truncate(f, last.off) \in File(Unit) /\ Len(Truncate(f, last.off).cur) = last.off
        /\ Truncate(f, last.off).dur = IF f.dur > last.off THEN last.off ELSE f.dur
        /\ \A j \in 1 .. last.off : Truncate(f, last.off).cur[j] = f.cur[j]
    BY <2>1, <2>2, Truncating
  <2>4. Truncate(f, last.off).dur = last.off
    BY <1>9, <2>1, <2>3
  <2> QED BY <2>3, <2>4 DEF f
<1>13. D[last.file] = x /\ \A i \in FileId : i # last.file => D[i] = c.data[i]
  BY <1>3, <1>9
<1> HIDE DEF x
<1>14. D \in [FileId -> File(Unit)]
  BY <1>3, <1>12 DEF x
<1> HIDE DEF D
<1>15. \A i \in FileId : i < last.file => i # last.file /\ i < t.headId
  BY <1>2, <1>9, <1>10 DEF FileId
<1>16. \A i \in FileId : i < last.file =>
          Len(D[i].cur) = Len(t.data[i].cur) /\ D[i].dur = Len(D[i].cur)
  <2> SUFFICES ASSUME NEW i \in FileId, i < last.file
               PROVE  Len(D[i].cur) = Len(t.data[i].cur) /\ D[i].dur = Len(D[i].cur)
    OBVIOUS
  <2>1. D[i] = c.data[i] /\ t.data[i].dur = Len(t.data[i].cur)
    BY <1>0, <1>13, <1>15 DEF OldFilesSynced
  <2> QED BY <1>1, <1>2, <1>3, <2>1
<1>17. \A i \in FileId : i <= last.file => \A j \in 1 .. Len(D[i].cur) : D[i].cur[j] = t.data[i].cur[j]
  <2> SUFFICES ASSUME NEW i \in FileId, NEW j \in 1 .. Len(D[i].cur)
               PROVE  D[i].cur[j] = t.data[i].cur[j]
    OBVIOUS
  <2>1. CASE i = last.file
    <3>1. Len(D[i].cur) = last.off /\ D[i].cur[j] = c.data[i].cur[j]
      BY <1>12, <1>13, <2>1
    <3>2. j \in 1 .. Len(c.data[i].cur)
      BY <1>3, <1>7, <1>9, <2>1, <3>1
    <3> QED BY <1>1, <3>1, <3>2
  <2>2. CASE i # last.file
    BY <1>1, <1>13, <2>2
  <2> QED BY <2>1, <2>2
<1>18. TableOK(r, z, V) /\ Items(r) = kept
  <2>1. Items(c) \in kept .. Items(t)
    BY <1>2, <1>3, <1>7
  <2>2. \A m \in 1 .. kept : c.index.cur[m] = t.index.cur[m]
    BY <1>1, <1>3, <1>7
  <2>3. r = [index |-> Truncate(c.index, kept), data |-> D,
             headId |-> EndOf(c.index.cur, kept).file, headBytes |-> EndOf(c.index.cur, kept).off]
    BY DEF last
  <2>4. Len(D[EndOf(t.index.cur, kept).file].cur) = EndOf(t.index.cur, kept).off
    BY <1>8, <1>12, <1>13
  <2>5. /\ \A i \in FileId : i < EndOf(t.index.cur, kept).file =>
              Len(D[i].cur) = Len(t.data[i].cur) /\ D[i].dur = Len(D[i].cur)
        /\ \A i \in FileId : i <= EndOf(t.index.cur, kept).file =>
              \A j \in 1 .. Len(D[i].cur) : D[i].cur[j] = t.data[i].cur[j]
    BY <1>8, <1>16, <1>17
  <2>6. D \in [FileId -> File(Unit)] /\ kept \in 0 .. Items(t) /\ c \in Table
    BY <1>1, <1>8, <1>14
  <2> HIDE DEF r, D, kept
  <2> QED BY <1>8, <2>1, <2>2, <2>3, <2>4, <2>5, <2>6, CutOK
<1>19. Safe(r, kept)
  <2>1. r = [index |-> Truncate(c.index, kept), data |-> D,
             headId |-> EndOf(c.index.cur, kept).file, headBytes |-> EndOf(c.index.cur, kept).off]
        /\ r.data = D
    BY DEF last
  <2> HIDE DEF r
  <2>2. kept \in 0 .. kept /\ kept \in Nat
    BY <1>3, <1>7
  <2>3. /\ r.index.dur = IF c.index.dur > kept THEN kept ELSE c.index.dur
        /\ EndOf(r.index.cur, kept) = last
    <3>1. \A m \in 0 .. kept : EndOf(r.index.cur, m) = EndOf(c.index.cur, m)
      BY <1>1, <1>7, <1>14, <2>1, CutParts
    <3>2. r.index.dur = IF c.index.dur > kept THEN kept ELSE c.index.dur
      BY <1>1, <1>7, <1>14, <2>1, CutParts
    <3> QED BY <2>2, <3>1, <3>2 DEF last
  <2>4. r.index.dur = kept
    BY <1>1, <1>3, <1>7, <2>2, <2>3
  <2>5. last.off <= r.data[last.file].dur
    BY <1>9, <1>12, <1>13, <2>1
  <2> QED BY <2>2, <2>3, <2>4, <2>5 DEF Safe
<1>20. kept \in d .. Items(t)
  BY <1>2, <1>3, <1>7
<1> QED BY <1>11, <1>18, <1>19, <1>20

-----------------------------------------------------------------------------
(* The inductive invariant of freezer and key-value store.                 *)

(***************************************************************************)
(* The numbers below Total have an item in every table or its batch, those *)
(* below Kept survive a crash there, and those from Wiped on are in the    *)
(* key-value store.                                                        *)
(***************************************************************************)
Total == IF pc = "freeze" THEN Number ELSE frozen
Kept  == IF pc \in {"freeze", "sync"} THEN first ELSE frozen
Wiped == IF pc \in {"freeze", "sync", "wipe"} THEN first ELSE frozen

(***************************************************************************)
(* V gives the versions that all tables have of the blocks.                *)
(***************************************************************************)
TablesHold(V) ==
    /\ pc # "freeze" => batches = NoBatches
    /\ \A k \in Kind :
          /\ batches[k] \in Batch
          /\ TableOK(tables[k], Size[k], V)
          /\ TableOK(CommitBatch(tables[k], batches[k]), Size[k], V)
          /\ Items(CommitBatch(tables[k], batches[k])) = Total
          /\ Safe(tables[k], Kept)

FrozenIsChain(V) == \A n \in 1 .. HeadNumber : n < Total => V[n] = chain[n]

(***************************************************************************)
(* The thread's batch is below the head and out of reach of a rewind.      *)
(***************************************************************************)
ThreadInv ==
    /\ pc # "idle" => first <= limit /\ limit <= HeadNumber /\ RewindSpares(limit)
    /\ pc = "freeze" => frozen = first /\ Number <= limit + 1
    /\ pc \in {"sync", "wipe"} => Number = frozen
    /\ pc \in {"sync", "wipe", "reload", "sides", "dangling"} => frozen = limit + 1
    /\ pc \in {"freeze", "sync", "wipe"} =>
          \A i \in 1 .. Len(ancients) : ancients[i] = VersionAt(first + i - 1)

(***************************************************************************)
(* The freezer is not above the head, but for the block that a rewind is   *)
(* about to truncate.                                                      *)
(***************************************************************************)
RewindInv ==
    /\ frozen <= HeadNumber + IF rewind # None /\ rewind.phase = "delete" THEN 2 ELSE 1
    /\ rewind # None => rewind.target <= HeadNumber /\ \A n \in rewind.nums : n > HeadNumber

StoreInv ==
    \A n \in 1 .. HeadNumber :
       n >= Wiped => canon[n] = chain[n] /\ \E b \in stored : b.num = n /\ b.ver = chain[n]

(***************************************************************************)
(* A block of the chain is stored with the right parent: its version names *)
(* the rewind before it.                                                   *)
(***************************************************************************)
VersionInv ==
    /\ \A n \in 1 .. HeadNumber : chain[n] <= rewinds
    /\ \A b \in stored :
          /\ b.ver <= rewinds \/ b.ver > MaxRewinds
          /\ rewind # None \/ b.num > HeadNumber => b.ver # rewinds
          /\ b.num <= HeadNumber /\ b.ver = VersionAt(b.num) => b.pver = VersionAt(b.num - 1)

(***************************************************************************)
(* A block that is not on the chain, and will not be again.                *)
(***************************************************************************)
OffChain(b) ==
    /\ b.ver <= rewinds \/ b.ver > MaxRewinds
    /\ rewind # None \/ b.num > HeadNumber => b.ver # rewinds
    /\ b.num <= HeadNumber => b.ver # VersionAt(b.num)

(***************************************************************************)
(* What the thread puts in its batch is not on the chain: what is left at  *)
(* its numbers is not, and neither is what is on top of it.                *)
(***************************************************************************)
SideInv ==
    /\ pc \in {"reload", "sides"} =>
          \A b \in stored : b.num >= first /\ b.num <= limit => b.ver # VersionAt(b.num)
    /\ pc \notin {"sides", "dangling"} => doomed = {} /\ dangling = {}
    /\ pc \in {"sides", "dangling"} => upto = limit + 1 /\ first <= next
    /\ pc = "sides" => next <= upto
    /\ \A b \in dangling : b.num = next - 1
    /\ \A b \in doomed \cup dangling : OffChain(b)

(***************************************************************************)
(* A block that is about to be written is beside the chain.                *)
(***************************************************************************)
ImportInv ==
    importing # None => rewind = None /\ importing.num <= HeadNumber /\ importing.ver > MaxRewinds

ChainInv == ThreadInv /\ RewindInv /\ StoreInv /\ VersionInv /\ SideInv /\ ImportInv

(***************************************************************************)
(* The parent of a block is stored and stays, or the block itself is in    *)
(* the batch or about to be found, or it was written too late.             *)
(***************************************************************************)
Attached(b) ==
    \/ \E p \in stored \ doomed : IsParent(p, b)
    \/ b \in doomed \cup late
    \/ b.num = next /\ \E p \in dangling : IsParent(p, b)

(***************************************************************************)
(* As long as nothing fails, blocks above the head are those that a rewind *)
(* is about to delete, and the others have their parents.                  *)
(***************************************************************************)
ParentInv(V) ==
    faults = 0 =>
       \A b \in stored :
          \/ b.num > HeadNumber /\ rewind # None /\ b.num \in rewind.nums
          \/ /\ b.num <= HeadNumber
             /\ \/ b.num = 1
                \/ b.num - 1 < frozen /\ V[b.num - 1] = b.pver
                \/ Attached(b)

FreezerInv(V) == TablesHold(V) /\ FrozenIsChain(V) /\ ParentInv(V)

IInv == TypeOK /\ ChainInv /\ ~refused /\ \E V \in [Nat -> Version] : FreezerInv(V)

-----------------------------------------------------------------------------
(* Facts about states.                                                     *)

\* The constants.
LEMMA Constants ==
    /\ \A k \in Kind : Size[k] \in Nat /\ Size[k] > 0 /\ Size[k] <= MaxFileSize
    /\ MaxHead \in Nat /\ MaxRewinds \in Nat /\ MaxSides \in Nat /\ MaxFaults \in Nat
    /\ Threshold \in Nat /\ BatchLimit \in Nat /\ LastFile \in Nat /\ MaxHead <= LastFile
    /\ Version = 0 .. MaxRewinds + MaxSides /\ 0 \in Version /\ Version \subseteq Nat
BY FreezerAssumption, TableAssumption DEF Version

\* The types of the chain.
LEMMA ChainTypes ==
    ASSUME TypeOK
    PROVE  /\ HeadNumber \in Nat /\ HeadNumber = Len(chain) /\ HeadNumber <= MaxHead
           /\ \A n \in 1 .. HeadNumber : chain[n] \in Version
           /\ \A n \in 0 .. HeadNumber : VersionAt(n) \in Version
           /\ \A b \in stored : /\ b.num \in Nat /\ b.num >= 1 /\ b.num <= MaxHead
                                /\ b.ver \in Version /\ b.pver \in Version
           /\ frozen \in Nat /\ first \in Nat /\ limit \in Nat /\ Len(ancients) \in Nat
           /\ Number \in Nat /\ Number = first + Len(ancients)
           /\ rewinds \in Nat /\ rewinds <= MaxRewinds /\ sides \in Nat /\ faults \in Nat
           /\ upto \in Nat /\ next \in Nat
           /\ \A b \in doomed \cup dangling : /\ b.num \in Nat /\ b.num >= 1
                                              /\ b.ver \in Version /\ b.pver \in Version
<1>1. /\ HeadNumber \in Nat /\ HeadNumber = Len(chain) /\ HeadNumber <= MaxHead
      /\ \A n \in 1 .. HeadNumber : chain[n] \in Version
  BY LenProperties, ElementOfSeq DEF TypeOK, HeadNumber
<1>2. \A n \in 0 .. HeadNumber : VersionAt(n) \in Version
  BY <1>1, Constants DEF VersionAt
<1>3. \A b \in stored : /\ b.num \in Nat /\ b.num >= 1 /\ b.num <= MaxHead
                        /\ b.ver \in Version /\ b.pver \in Version
  BY Constants DEF TypeOK, Block
<1>4. Len(ancients) \in Nat /\ frozen \in Nat /\ first \in Nat /\ limit \in Nat
      /\ rewinds \in Nat /\ rewinds <= MaxRewinds /\ sides \in Nat /\ faults \in Nat
      /\ upto \in Nat /\ next \in Nat
  BY Constants, LenProperties DEF TypeOK
<1>5. \A b \in doomed \cup dangling : b.num \in Nat /\ b.num >= 1 /\ b.ver \in Version /\ b.pver \in Version
  <2>1. \A b \in Block : b.num \in Nat /\ b.num >= 1 /\ b.ver \in Version /\ b.pver \in Version
    BY Constants DEF Block
  <2> QED BY <2>1 DEF TypeOK
<1> QED BY <1>1, <1>2, <1>3, <1>4, <1>5 DEF Number

\* The bounds of what is wiped, safe, frozen and in the tables.
LEMMA Bounds ==
    ASSUME TypeOK, ThreadInv, RewindInv
    PROVE  /\ Wiped \in Nat /\ Kept \in Nat /\ Total \in Nat
           /\ Wiped <= Kept /\ Kept <= frozen /\ frozen <= Total
           /\ Total = frozen \/ (pc = "freeze" /\ Total <= limit + 1 /\ limit <= HeadNumber)
           /\ rewind = None => Total <= HeadNumber + 1
<1>1. /\ HeadNumber \in Nat /\ frozen \in Nat /\ first \in Nat /\ limit \in Nat /\ Len(ancients) \in Nat
      /\ Number \in Nat /\ Number = first + Len(ancients)
  BY ChainTypes
<1>2. pc \in {"idle", "freeze", "sync", "wipe", "reload", "sides", "dangling"}
  BY DEF TypeOK
<1>3. rewind = None => frozen <= HeadNumber + 1
  BY DEF RewindInv
<1>4. /\ pc = "freeze" => frozen = first /\ Number <= limit + 1 /\ limit <= HeadNumber
      /\ pc \in {"sync", "wipe"} => Number = frozen
  BY DEF ThreadInv
<1> QED BY <1>1, <1>2, <1>3, <1>4 DEF Wiped, Kept, Total

\* A table has the items that are safe in it.
LEMMA SafeIsThere ==
    ASSUME NEW z, NEW V, NEW t, TableOK(t, z, V), NEW d \in Nat, Safe(t, d)
    PROVE  d \in 0 .. Items(t)
<1>1. t \in Table
  BY DEF TableOK
<1>2. Items(t) \in Nat /\ t.index.dur \in Nat /\ t.index.dur <= Items(t)
  BY <1>1, TableParts
<1> QED BY <1>2 DEF Safe

\* What the tables hold depends only on them and on where the thread is.
LEMMA SameTables ==
    ASSUME NEW V, TablesHold(V), UNCHANGED <<tables, batches, frozen, pc, first, ancients>>
    PROVE  TablesHold(V)'
BY DEF TablesHold, Total, Kept, Number

\* The parent of a block on the canonical chain is frozen or stored.
LEMMA ParentThere ==
    ASSUME TypeOK, ChainInv, NEW V, FrozenIsChain(V), NEW n \in Nat, n >= 1, n <= HeadNumber
    PROVE  \/ n < frozen /\ V[n] = VersionAt(n)
           \/ \E p \in stored \ doomed : p.num = n /\ p.ver = VersionAt(n)
<1>1. HeadNumber \in Nat /\ frozen \in Nat /\ Wiped \in Nat /\ Total \in Nat /\ Wiped <= frozen /\ frozen <= Total
  BY Bounds, ChainTypes DEF ChainInv
<1>2. n \in 1 .. HeadNumber /\ VersionAt(n) = chain[n]
  BY <1>1 DEF VersionAt
<1>3. CASE n >= Wiped
  <2>1. PICK p \in stored : p.num = n /\ p.ver = chain[n]
    BY <1>2, <1>3 DEF ChainInv, StoreInv
  <2>2. p \notin doomed
    BY <1>2, <2>1 DEF ChainInv, SideInv, OffChain
  <2> QED BY <1>2, <2>1, <2>2
<1>4. CASE ~(n >= Wiped)
  <2>1. n < frozen /\ n < Total
    BY <1>1, <1>4
  <2> QED BY <1>2, <2>1 DEF FrozenIsChain
<1> QED BY <1>3, <1>4

\* Whether a block is off the chain depends only on the chain and the rewinds.
LEMMA SameOffChain ==
    ASSUME NEW b, OffChain(b), chain' = chain, rewinds' = rewinds, (rewind' # None) <=> (rewind # None)
    PROVE  OffChain(b)'
BY DEF OffChain, HeadNumber, VersionAt

\* What the thread has found does not change while it does not look.
LEMMA SameSides ==
    ASSUME SideInv, pc' = pc, first' = first, limit' = limit, upto' = upto, next' = next,
           doomed' = doomed, dangling' = dangling,
           \A b \in doomed \cup dangling : OffChain(b)',
           pc \in {"reload", "sides"} =>
              \A b \in stored' : b.num >= first /\ b.num <= limit => b.ver # VersionAt(b.num)'
    PROVE  SideInv'
BY DEF SideInv

\* Blocks keep their parents if none is deleted and the thread does not look.
LEMMA SameParents ==
    ASSUME NEW b, Attached(b), stored \subseteq stored', doomed' = doomed, late \subseteq late',
           next' = next, dangling' = dangling
    PROVE  Attached(b)'
BY DEF Attached, IsParent

\* Importing a block on top of the head.
LEMMA ImportBlockStep ==
    ASSUME TypeOK, ChainInv, NEW V, FreezerInv(V), ImportBlock
    PROVE  TypeOK' /\ ChainInv' /\ FreezerInv(V)'
<1>a. PICK H : H = HeadNumber
  OBVIOUS
<1>b. PICK b : b = [num |-> H + 1, ver |-> rewinds, pver |-> VersionAt(H)]
  OBVIOUS
<1>1. /\ rewind = None /\ H < MaxHead
      /\ chain' = Append(chain, b.ver) /\ canon' = [canon EXCEPT ![H + 1] = b.ver]
      /\ stored' = stored \cup {b}
      /\ UNCHANGED <<tables, frozen, pc, first, limit, ancients, batches>>
      /\ UNCHANGED <<upto, next, doomed, dangling, importing, late>>
      /\ UNCHANGED <<rewind, rewinds, sides, faults, refused>> /\ importing = None
  BY <1>a, <1>b DEF ImportBlock, ChainFree, threadVars, wipeVars, importVars, counters
<1>2. /\ H \in Nat /\ H = Len(chain) /\ H <= MaxHead /\ MaxHead \in Nat
      /\ \A n \in 0 .. H : VersionAt(n) \in Version
      /\ frozen \in Nat /\ first \in Nat /\ limit \in Nat /\ Len(ancients) \in Nat /\ Number = first + Len(ancients)
      /\ Number \in Nat /\ rewinds \in Nat /\ rewinds <= MaxRewinds
      /\ \A c \in stored : c.num \in Nat /\ c.num >= 1 /\ c.ver \in Version
  BY <1>a, ChainTypes, Constants
<1>3. rewinds \in Version /\ b.ver = rewinds /\ b.num = H + 1 /\ b.pver = VersionAt(H) /\ VersionAt(H) \in Version
  BY <1>b, <1>2, Constants
<1>4. b \in Block
  BY <1>1, <1>2, <1>b, <1>3 DEF Block
<1>5. /\ chain' \in Seq(Version) /\ Len(chain') = H + 1 /\ chain'[H + 1] = rewinds
      /\ \A n \in 1 .. H : chain'[n] = chain[n]
  <2>1. chain \in Seq(Version)
    BY DEF TypeOK
  <2> QED BY <1>1, <1>2, <1>3, <2>1
<1>6. /\ HeadNumber' = H + 1
      /\ \A n \in 0 .. H : VersionAt(n)' = VersionAt(n)
      /\ VersionAt(H + 1)' = rewinds
  <2>1. HeadNumber' = H + 1
    BY <1>5 DEF HeadNumber
  <2>2. \A n \in 0 .. H : VersionAt(n)' = VersionAt(n)
    <3>1. \A n \in 0 .. H : n = 0 \/ n \in 1 .. H
      BY <1>2
    <3> QED BY <1>5, <3>1 DEF VersionAt
  <2>3. VersionAt(H + 1)' = rewinds
    <3>1. H + 1 # 0
      BY <1>2
    <3> QED BY <1>5, <3>1 DEF VersionAt
  <2> QED BY <2>1, <2>2, <2>3
<1>7. TypeOK'
  <2>1. chain' \in Seq(Version) /\ HeadNumber' <= MaxHead
    BY <1>1, <1>2, <1>5, <1>6
  <2>2. canon' \in [1 .. MaxHead -> Version \cup {None}]
    BY <1>1, <1>3 DEF TypeOK
  <2>3. stored' \subseteq Block
    BY <1>1, <1>4 DEF TypeOK
  <2> QED BY <1>1, <2>1, <2>2, <2>3 DEF TypeOK
<1>8. ThreadInv'
  <2>1. ThreadInv
    BY DEF ChainInv
  <2>2. pc # "idle" => first <= limit /\ limit <= H + 1 /\ RewindSpares(limit)
    BY <1>2, <2>1, <1>a DEF ThreadInv
  <2>3. Number' = Number /\ RewindSpares(limit)' = RewindSpares(limit)
    BY <1>1 DEF Number, RewindSpares
  <2>4. ASSUME pc \in {"freeze", "sync", "wipe"}, NEW i \in 1 .. Len(ancients)
        PROVE  ancients[i] = VersionAt(first + i - 1)'
    <3>1. ancients[i] = VersionAt(first + i - 1)
      BY <2>1, <2>4 DEF ThreadInv
    <3>2. first + i - 1 \in 0 .. H
      <4>1. Number <= limit + 1 /\ limit <= H
        <5>1. limit <= H /\ (pc = "freeze" => Number <= limit + 1)
              /\ (pc \in {"sync", "wipe"} => Number = frozen /\ frozen = limit + 1)
          BY <2>1, <2>4, <1>a DEF ThreadInv
        <5> QED BY <1>2, <2>4, <5>1
      <4> QED BY <1>2, <4>1
    <3> QED BY <1>1, <1>6, <3>1, <3>2
  <2> QED BY <1>1, <1>6, <2>1, <2>2, <2>3, <2>4 DEF ThreadInv
<1>9. RewindInv'
  <2>1. frozen <= H + 1
    BY <1>1, <1>a DEF ChainInv, RewindInv
  <2>2. frozen <= H + 1 + 1
    BY <1>2, <2>1
  <2> QED BY <1>1, <1>6, <2>2 DEF RewindInv
<1>10. Wiped' = Wiped /\ Kept' = Kept /\ Total' = Total
  BY <1>1 DEF Wiped, Kept, Total, Number
<1>11. StoreInv'
  <2> SUFFICES ASSUME NEW n \in 1 .. H + 1, n >= Wiped
               PROVE  canon'[n] = chain'[n] /\ \E c \in stored' : c.num = n /\ c.ver = chain'[n]
    BY <1>6, <1>10 DEF StoreInv
  <2>0. canon \in [1 .. MaxHead -> Version \cup {None}] /\ n \in 1 .. MaxHead /\ H + 1 \in 1 .. MaxHead
    <3>1. canon \in [1 .. MaxHead -> Version \cup {None}]
      BY <1>a DEF TypeOK
    <3>2. n \in 1 .. MaxHead /\ H + 1 \in 1 .. MaxHead
      BY <1>1, <1>2
    <3> QED BY <3>1, <3>2
  <2>1. CASE n \in 1 .. H
    <3>1. canon[n] = chain[n] /\ \E c \in stored : c.num = n /\ c.ver = chain[n]
      BY <2>1, <1>a DEF ChainInv, StoreInv
    <3>2. n # H + 1
      BY <1>2, <2>1
    <3> QED BY <1>1, <1>5, <2>0, <2>1, <3>1, <3>2
  <2>2. CASE n = H + 1
    BY <1>1, <1>3, <1>5, <2>0, <2>2
  <2> QED BY <1>2, <2>1, <2>2
<1>12. VersionInv'
  <2>0. VersionInv
    BY DEF ChainInv
  <2>1. \A n \in 1 .. H + 1 : chain'[n] <= rewinds
    <3>1. \A n \in 1 .. H + 1 : n \in 1 .. H \/ n = H + 1
      BY <1>2
    <3>2. \A n \in 1 .. H : chain'[n] <= rewinds
      BY <1>5, <2>0, <1>a DEF VersionInv
    <3> QED BY <1>2, <1>5, <3>1, <3>2
  <2>2. ASSUME NEW c \in stored
        PROVE  /\ c.ver <= rewinds \/ c.ver > MaxRewinds
               /\ c.num > H + 1 => c.ver # rewinds
               /\ c.num <= H + 1 /\ c.ver = VersionAt(c.num)' => c.pver = VersionAt(c.num - 1)'
    <3>1. /\ c.ver <= rewinds \/ c.ver > MaxRewinds
          /\ c.num > H => c.ver # rewinds
          /\ c.num <= H /\ c.ver = VersionAt(c.num) => c.pver = VersionAt(c.num - 1)
      BY <2>0, <1>a DEF VersionInv
    <3>2. c.num \in Nat /\ c.num >= 1
      BY <1>2
    <3>3. c.num > H + 1 => c.num > H
      BY <1>2, <3>2
    <3>4. CASE c.num <= H
      <4>1. c.num \in 0 .. H /\ c.num - 1 \in 0 .. H
        BY <1>2, <3>2, <3>4
      <4> QED BY <1>6, <3>1, <3>3, <3>4, <4>1
    <3>5. CASE c.num > H
      <4>1. c.num <= H + 1 => c.num = H + 1
        BY <1>2, <3>2, <3>5
      <4> QED BY <1>6, <3>1, <3>5, <4>1
    <3> QED BY <1>2, <3>2, <3>4, <3>5
  <2>3. b.num <= H + 1 /\ ~(b.num > H + 1) /\ b.pver = VersionAt(b.num - 1)' /\ b.ver <= rewinds
    <3>1. H + 1 - 1 = H /\ H \in 0 .. H
      BY <1>2
    <3> QED BY <1>2, <1>3, <1>6, <3>1
  <2> QED BY <1>1, <1>6, <2>1, <2>2, <2>3 DEF VersionInv
<1>13. SideInv'
  <2>0. ThreadInv /\ SideInv
    BY DEF ChainInv
  <2>1. ASSUME NEW c \in doomed \cup dangling PROVE OffChain(c)'
    <3>1. /\ c.ver <= rewinds \/ c.ver > MaxRewinds
          /\ c.num > H => c.ver # rewinds
          /\ c.num <= H => c.ver # VersionAt(c.num)
      BY <2>0, <1>a DEF SideInv, OffChain
    <3>2. c.num \in Nat
      BY ChainTypes
    <3>3. c.num > H + 1 => c.num > H
      BY <1>2, <3>2
    <3>4. c.num <= H + 1 => c.ver # VersionAt(c.num)'
      <4>1. CASE c.num <= H
        <5>1. c.num \in 0 .. H
          BY <1>2, <3>2, <4>1
        <5> QED BY <1>6, <3>1, <4>1, <5>1
      <4>2. CASE c.num = H + 1
        <5>1. c.num > H
          BY <1>2, <4>2
        <5> QED BY <1>6, <3>1, <4>2, <5>1
      <4> QED BY <1>2, <3>2, <4>1, <4>2
    <3> QED BY <1>1, <1>6, <3>1, <3>3, <3>4 DEF OffChain
  <2>2. ASSUME pc \in {"reload", "sides"}, NEW c \in stored', c.num >= first, c.num <= limit
        PROVE  c.ver # VersionAt(c.num)'
    <3>1. limit <= H
      BY <2>0, <2>2, <1>a DEF ThreadInv
    <3>2. c # b
      BY <1>2, <1>3, <2>2, <3>1
    <3>3. c \in stored /\ c.num \in 0 .. H
      <4>1. c \in stored
        BY <1>1, <3>2
      <4> QED BY <1>2, <2>2, <3>1, <4>1
    <3>4. c.ver # VersionAt(c.num)
      BY <2>0, <2>2, <3>3 DEF SideInv
    <3> QED BY <1>6, <3>3, <3>4
  <2> QED BY <1>1, <2>0, <2>1, <2>2, SameSides
<1>17. ImportInv'
  BY <1>1 DEF ImportInv
<1>14. TablesHold(V)'
  BY <1>1, SameTables DEF FreezerInv
<1>15. FrozenIsChain(V)'
  <2>1. Total \in Nat /\ Total <= H + 1
    BY <1>1, Bounds, <1>a DEF ChainInv
  <2> SUFFICES ASSUME NEW n \in 1 .. H + 1, n < Total PROVE V[n] = chain'[n]
    BY <1>6, <1>10 DEF FrozenIsChain
  <2>2. n \in 1 .. H
    BY <1>2, <2>1
  <2> QED BY <1>5, <2>2, <1>a DEF FreezerInv, FrozenIsChain
<1>16. ParentInv(V)'
  <2> SUFFICES ASSUME faults = 0, NEW c \in stored'
               PROVE  /\ c.num <= H + 1
                      /\ \/ c.num = 1
                         \/ c.num - 1 < frozen /\ V[c.num - 1] = c.pver
                         \/ Attached(c)'
    BY <1>1, <1>6 DEF ParentInv
  <2>1. CASE c \in stored
    <3>1. /\ c.num <= H
          /\ \/ c.num = 1
             \/ c.num - 1 < frozen /\ V[c.num - 1] = c.pver
             \/ Attached(c)
      BY <1>1, <2>1, <1>a DEF FreezerInv, ParentInv
    <3>2. c.num <= H + 1
      BY <1>2, <2>1, <3>1
    <3>3. Attached(c) => Attached(c)'
      BY <1>1, SameParents
    <3> QED BY <1>1, <3>1, <3>2, <3>3
  <2>2. CASE c = b
    <3>1. c.num = H + 1 /\ c.num <= H + 1 /\ c.pver = VersionAt(H) /\ c.num - 1 = H
      BY <1>2, <1>3, <2>2
    <3>2. CASE H = 0
      BY <3>1, <3>2
    <3>3. CASE H # 0
      <4>1. \/ H < frozen /\ V[H] = VersionAt(H)
            \/ \E p \in stored \ doomed : p.num = H /\ p.ver = VersionAt(H)
        BY <1>2, <3>3, ParentThere, <1>a DEF FreezerInv
      <4> QED BY <1>1, <3>1, <4>1 DEF IsParent, Attached
    <3> QED BY <3>2, <3>3
  <2> QED BY <1>1, <2>1, <2>2
<1> QED BY <1>7, <1>8, <1>9, <1>11, <1>12, <1>13, <1>14, <1>15, <1>16, <1>17 DEF ChainInv, FreezerInv

\* The thread's steps, and imports that write nothing, leave ImportInv alone.
LEMMA SameImport ==
    ASSUME ImportInv, chain' = chain, rewind' = rewind, importing' = importing
    PROVE  ImportInv'
BY DEF ImportInv, HeadNumber

\* A block beside the chain is verified.
LEMMA VerifySideStep ==
    ASSUME TypeOK, ChainInv, NEW V, FreezerInv(V),
           NEW n \in 1 .. MaxHead, NEW pver \in Version, VerifySide(n, pver)
    PROVE  TypeOK' /\ ChainInv' /\ FreezerInv(V)'
<1>b. PICK b : b = [num |-> n, ver |-> MaxRewinds + sides + 1, pver |-> pver]
  OBVIOUS
<1>1. /\ rewind = None /\ sides < MaxSides /\ sides' = sides + 1 /\ n <= HeadNumber
      /\ importing' = b
      /\ UNCHANGED <<chain, canon, stored, tables, frozen, pc, first, limit, ancients, batches>>
      /\ UNCHANGED <<upto, next, doomed, dangling, late, rewind, rewinds, faults, refused>>
  <2>1. [num |-> n, ver |-> MaxRewinds + sides', pver |-> pver] = b
    <3>1. MaxRewinds + sides' = MaxRewinds + sides + 1
      BY ChainTypes, Constants DEF VerifySide
    <3> QED BY <1>b, <3>1
  <2> QED BY <2>1 DEF VerifySide, ChainFree, chainVars, threadVars, wipeVars
<1>2. /\ sides \in Nat /\ MaxRewinds \in Nat /\ MaxSides \in Nat /\ MaxHead \in Nat
  BY ChainTypes, Constants
<1>3. b.num = n /\ b.ver = MaxRewinds + sides + 1
  BY <1>b
<1>4. b \in Block /\ b.ver > MaxRewinds /\ sides' \in 0 .. MaxSides
  <2>1. MaxRewinds + sides + 1 \in Version /\ b.ver > MaxRewinds /\ sides' \in 0 .. MaxSides
    BY <1>1, <1>2, <1>3, Constants
  <2> QED BY <1>b, <2>1 DEF Block
<1>5. HeadNumber' = HeadNumber
  BY <1>1 DEF HeadNumber
<1>6. TypeOK'
  BY <1>1, <1>4, <1>5 DEF TypeOK
<1>7. ThreadInv' /\ RewindInv' /\ StoreInv' /\ VersionInv'
  BY <1>1, <1>5 DEF ChainInv, ThreadInv, RewindInv, StoreInv, VersionInv, Number, RewindSpares,
     VersionAt, Wiped
<1>8. SideInv'
  BY <1>1, SameOffChain DEF ChainInv, SideInv, VersionAt
<1>9. ImportInv'
  BY <1>1, <1>3, <1>4, <1>5 DEF ImportInv
<1>10. TablesHold(V)' /\ FrozenIsChain(V)'
  <2>1. TablesHold(V)'
    BY <1>1, SameTables DEF FreezerInv
  <2>2. FrozenIsChain(V)'
    BY <1>1, <1>5 DEF FreezerInv, FrozenIsChain, Total, Number
  <2> QED BY <2>1, <2>2
<1>11. ParentInv(V)'
  BY <1>1, <1>5, SameParents DEF FreezerInv, ParentInv
<1> QED BY <1>6, <1>7, <1>8, <1>9, <1>10, <1>11 DEF ChainInv, FreezerInv

\* And written, its parent gone or not.
LEMMA WriteSideStep ==
    ASSUME TypeOK, ChainInv, NEW V, FreezerInv(V), WriteSide
    PROVE  TypeOK' /\ ChainInv' /\ FreezerInv(V)'
<1>b. PICK b : b = importing
  OBVIOUS
<1>1. /\ b # None /\ importing' = None
      /\ stored' = stored \cup {b}
      /\ late' = IF InTime(b) THEN late ELSE late \cup {b}
      /\ UNCHANGED <<chain, canon, tables, frozen, pc, first, limit, ancients, batches>>
      /\ UNCHANGED <<upto, next, doomed, dangling, rewind, rewinds, sides, faults, refused>>
  BY <1>b DEF WriteSide, threadVars, wipeVars, counters
<1>2. /\ HeadNumber \in Nat /\ MaxRewinds \in Nat /\ limit \in Nat
      /\ rewinds \in Nat /\ rewinds <= MaxRewinds
  BY ChainTypes, Constants
<1>3. b \in Block /\ b.num \in Nat /\ b.num >= 1 /\ b.ver \in Nat
  <2>1. b \in Block
    BY <1>b, <1>1 DEF TypeOK
  <2> QED BY <2>1, Constants DEF Block
<1>4. rewind = None /\ b.num <= HeadNumber /\ b.ver > MaxRewinds
  BY <1>b, <1>1 DEF ChainInv, ImportInv
<1>5. HeadNumber' = HeadNumber /\ \A m : VersionAt(m)' = VersionAt(m)
  BY <1>1 DEF HeadNumber, VersionAt
<1>6. TypeOK'
  <2>1. stored' \subseteq Block /\ late' \subseteq Block
    BY <1>1, <1>3 DEF TypeOK
  <2> QED BY <1>1, <1>5, <2>1 DEF TypeOK
<1>7. ThreadInv' /\ RewindInv' /\ ImportInv'
  BY <1>1, <1>5 DEF ChainInv, ThreadInv, RewindInv, ImportInv, Number, RewindSpares, VersionAt
<1>8. \A m \in 0 .. HeadNumber : VersionAt(m) <= rewinds
  <2>1. \A m \in 0 .. HeadNumber : m = 0 \/ m \in 1 .. HeadNumber
    BY <1>2
  <2>2. \A m \in 1 .. HeadNumber : chain[m] <= rewinds
    BY DEF ChainInv, VersionInv
  <2> QED BY <1>2, <2>1, <2>2 DEF VersionAt
<1>9. b.ver # rewinds /\ b.ver # VersionAt(b.num)
  <2>1. b.num \in 0 .. HeadNumber
    BY <1>2, <1>3, <1>4
  <2>2. VersionAt(b.num) \in Nat /\ VersionAt(b.num) <= rewinds
    BY <1>8, <2>1, ChainTypes, Constants
  <2> QED BY <1>2, <1>3, <1>4, <2>2
<1>10. StoreInv'
  <2>1. Wiped' = Wiped
    BY <1>1 DEF Wiped
  <2>2. StoreInv
    BY DEF ChainInv
  <2> QED BY <1>1, <1>5, <2>1, <2>2 DEF StoreInv
<1>11. VersionInv'
  <2>0. VersionInv
    BY DEF ChainInv
  <2>1. \A m \in 1 .. HeadNumber : chain[m] <= rewinds
    BY <2>0 DEF VersionInv
  <2>2. ASSUME NEW c \in stored'
        PROVE  /\ c.ver <= rewinds \/ c.ver > MaxRewinds
               /\ c.num > HeadNumber => c.ver # rewinds
               /\ c.num <= HeadNumber /\ c.ver = VersionAt(c.num) => c.pver = VersionAt(c.num - 1)
    <3>1. CASE c \in stored
      BY <2>0, <3>1 DEF VersionInv
    <3>2. CASE c = b
      BY <1>4, <1>9, <3>2
    <3> QED BY <1>1, <2>2, <3>1, <3>2
  <2>3. \A c \in stored' : c.num <= HeadNumber /\ c.ver = VersionAt(c.num)' => c.pver = VersionAt(c.num - 1)'
    BY <1>5, <2>2
  <2> QED BY <1>1, <1>4, <1>5, <2>1, <2>2, <2>3 DEF VersionInv
<1>12. SideInv'
  <2>0. SideInv
    BY DEF ChainInv
  <2>1. \A c \in doomed \cup dangling : OffChain(c)'
    BY <1>1, <2>0, SameOffChain DEF SideInv
  <2>2. pc \in {"reload", "sides"} =>
           \A c \in stored' : c.num >= first /\ c.num <= limit => c.ver # VersionAt(c.num)'
    BY <1>1, <1>5, <1>9, <2>0 DEF SideInv
  <2> QED BY <1>1, <2>0, <2>1, <2>2, SameSides
<1>13. TablesHold(V)' /\ FrozenIsChain(V)'
  <2>1. TablesHold(V)'
    BY <1>1, SameTables DEF FreezerInv
  <2>2. FrozenIsChain(V)'
    BY <1>1, <1>5 DEF FreezerInv, FrozenIsChain, Total, Number
  <2> QED BY <2>1, <2>2
<1>14. ASSUME NEW c, Attached(c) PROVE Attached(c)'
  <2>1. stored \subseteq stored' /\ late \subseteq late'
    BY <1>1
  <2> QED BY <1>1, <1>14, <2>1, SameParents
<1>15. \/ b.num = 1
       \/ b.num - 1 < frozen /\ V[b.num - 1] = b.pver
       \/ Attached(b)'
  <2>1. CASE b.num = 1
    BY <2>1
  <2>2. CASE b.num # 1 /\ b.pver = VersionAt(b.num - 1)
    <3>1. b.num - 1 \in Nat /\ b.num - 1 >= 1 /\ b.num - 1 <= HeadNumber
      BY <1>2, <1>3, <1>4, <2>2
    <3>2. \/ b.num - 1 < frozen /\ V[b.num - 1] = VersionAt(b.num - 1)
          \/ \E p \in stored \ doomed : p.num = b.num - 1 /\ p.ver = VersionAt(b.num - 1)
      BY <3>1, ParentThere DEF FreezerInv
    <3>3. (\E p \in stored \ doomed : p.num = b.num - 1 /\ p.ver = VersionAt(b.num - 1)) => Attached(b)
      BY <2>2 DEF Attached, IsParent
    <3> QED BY <1>14, <2>2, <3>2, <3>3
  <2>3. CASE \/ \E p \in stored \ doomed : IsParent(p, b)
             \/ b.num = next /\ \E p \in dangling : IsParent(p, b)
    <3>1. Attached(b)
      BY <2>3 DEF Attached
    <3> QED BY <1>14, <3>1
  <2>4. CASE ~InTime(b)
    <3>1. b \in late'
      BY <1>1, <2>4
    <3> QED BY <3>1 DEF Attached
  <2> QED BY <2>1, <2>2, <2>3, <2>4 DEF InTime
<1>16. ParentInv(V)'
  <2> SUFFICES ASSUME faults = 0, NEW c \in stored'
               PROVE  /\ c.num <= HeadNumber
                      /\ \/ c.num = 1
                         \/ c.num - 1 < frozen /\ V[c.num - 1] = c.pver
                         \/ Attached(c)'
    BY <1>1, <1>5 DEF ParentInv
  <2>1. CASE c \in stored
    <3>1. /\ c.num <= HeadNumber
          /\ \/ c.num = 1
             \/ c.num - 1 < frozen /\ V[c.num - 1] = c.pver
             \/ Attached(c)
      BY <1>4, <2>1 DEF FreezerInv, ParentInv
    <3> QED BY <1>14, <3>1
  <2>2. CASE c = b
    BY <1>4, <1>15, <2>2
  <2> QED BY <1>1, <2>1, <2>2
<1> QED BY <1>6, <1>7, <1>10, <1>11, <1>12, <1>13, <1>16 DEF ChainInv, FreezerInv

\* The thread takes a batch.
LEMMA StartFreezeStep ==
    ASSUME ~DeepRaces, TypeOK, ChainInv, NEW V, FreezerInv(V), StartFreeze
    PROVE  TypeOK' /\ ChainInv' /\ FreezerInv(V)'
<1> DEFINE top == HeadNumber - Threshold
           m == Min({top, frozen + BatchLimit})
<1>1. /\ pc = "idle" /\ HeadNumber >= Threshold /\ top > frozen
      /\ first' = frozen /\ limit' = m /\ RewindSpares(limit')
      /\ ancients' = <<>> /\ batches' = NoBatches /\ pc' = "freeze"
      /\ UNCHANGED <<chain, canon, stored, tables, frozen>>
      /\ UNCHANGED <<upto, next, doomed, dangling, importing, late>>
      /\ UNCHANGED <<rewind, rewinds, sides, faults, refused>>
  BY DEF StartFreeze, ThreadStep, MayOverlap, chainVars, wipeVars, importVars, counters
<1>2. /\ HeadNumber \in Nat /\ HeadNumber <= MaxHead /\ frozen \in Nat /\ MaxHead \in Nat
      /\ Threshold \in Nat /\ BatchLimit \in Nat
  BY ChainTypes, Constants
<1>3. m \in Nat /\ m <= top /\ m >= frozen
  <2>1. {top, frozen + BatchLimit} \subseteq Nat /\ {top, frozen + BatchLimit} # {}
    BY <1>1, <1>2
  <2>2. m \in {top, frozen + BatchLimit} /\ m <= top
    BY <2>1, MinIsLeast
  <2> HIDE DEF m
  <2> QED BY <1>1, <1>2, <2>1, <2>2
<1> HIDE DEF m
<1>4. limit' \in Nat /\ limit' <= HeadNumber /\ frozen <= limit' /\ frozen <= HeadNumber
  BY <1>1, <1>2, <1>3
<1>5. HeadNumber' = HeadNumber /\ Len(ancients') = 0 /\ Number' = frozen
  <2>1. Len(ancients') = 0
    BY <1>1, EmptySeq
  <2> QED BY <1>1, <1>2, <2>1 DEF HeadNumber, Number
<1>6. TypeOK'
  <2>1. ancients' \in Seq(Version) /\ first' \in 0 .. MaxHead /\ limit' \in 0 .. MaxHead
    BY <1>1, <1>2, <1>4, EmptySeq
  <2> QED BY <1>1, <1>5, <2>1 DEF TypeOK
<1>7. ThreadInv'
  <2>2. frozen <= limit' + 1
    <3>1. \A x, y \in Nat : x <= y => x <= y + 1
      OBVIOUS
    <3> QED BY <1>2, <1>4, <3>1
  <2>3. RewindSpares(limit)'
    BY <1>1 DEF RewindSpares
  <2> QED BY <1>1, <1>4, <1>5, <2>2, <2>3 DEF ThreadInv
<1>8. Wiped' = Wiped /\ Kept' = Kept /\ Total' = Total
  BY <1>1, <1>5 DEF Wiped, Kept, Total
<1>9. RewindInv' /\ StoreInv' /\ VersionInv' /\ ImportInv'
  BY <1>1, <1>8, SameImport DEF ChainInv, RewindInv, StoreInv, VersionInv, HeadNumber, VersionAt
<1>12. SideInv'
  BY <1>1 DEF ChainInv, SideInv
<1>10. TablesHold(V)'
  <2>1. batches' = batches
    BY <1>1 DEF FreezerInv, TablesHold
  <2> QED BY <1>1, <1>8, <2>1 DEF FreezerInv, TablesHold
<1>11. FrozenIsChain(V)' /\ ParentInv(V)'
  BY <1>1, <1>8, SameParents DEF FreezerInv, FrozenIsChain, ParentInv, HeadNumber
<1> QED BY <1>6, <1>7, <1>9, <1>10, <1>11, <1>12 DEF ChainInv, FreezerInv

\* SetHead starts.
LEMMA StartRewindStep ==
    ASSUME ~DeepRaces, TypeOK, ChainInv, NEW V, FreezerInv(V),
           NEW target \in 0 .. MaxHead, StartRewind(target)
    PROVE  TypeOK' /\ ChainInv' /\ FreezerInv(V)'
<1>b. PICK r : r = [target |-> target, phase |-> "marker", nums |-> {}]
  OBVIOUS
<1>1. /\ rewind = None /\ rewinds < MaxRewinds /\ rewinds' = rewinds + 1 /\ target < HeadNumber
      /\ (pc # "idle" => limit <= target) /\ rewind' = r
      /\ UNCHANGED <<chain, canon, stored, tables, frozen, pc, first, limit, ancients, batches>>
      /\ UNCHANGED <<upto, next, doomed, dangling, importing, late>> /\ importing = None
      /\ UNCHANGED <<sides, faults, refused>>
  BY <1>b DEF StartRewind, ChainFree, MayOverlap, chainVars, threadVars, wipeVars, importVars
<1>2. /\ HeadNumber \in Nat /\ MaxRewinds \in Nat /\ rewinds \in Nat /\ MaxHead \in Nat
      /\ \A c \in stored : c.num \in Nat /\ c.ver \in Nat
      /\ \A n \in 1 .. HeadNumber : chain[n] \in Nat
  BY ChainTypes, Constants
<1>3. r \in Rewinds /\ r # None /\ r.target = target /\ r.phase = "marker" /\ r.nums = {}
  <2>1. r \in Rewinds
    BY <1>b DEF Rewinds
  <2> QED BY <1>b, <2>1, FreezerAssumption
<1>4. HeadNumber' = HeadNumber
  BY <1>1 DEF HeadNumber
<1>5. TypeOK'
  <2>1. rewinds' \in 0 .. MaxRewinds /\ rewind' \in Rewinds \cup {None}
    BY <1>1, <1>2, <1>3
  <2> QED BY <1>1, <1>4, <2>1 DEF TypeOK
<1>6. ThreadInv'
  <2>1. pc # "idle" => RewindSpares(limit)'
    BY <1>1, <1>3 DEF RewindSpares
  <2> QED BY <1>1, <1>4, <2>1 DEF ChainInv, ThreadInv, Number, VersionAt
<1>7. RewindInv'
  <2>1. frozen <= HeadNumber + 1
    BY <1>1 DEF ChainInv, RewindInv
  <2>2. target <= HeadNumber
    BY <1>1, <1>2
  <2> QED BY <1>1, <1>3, <1>4, <2>1, <2>2 DEF RewindInv
<1>8. StoreInv' /\ ImportInv'
  BY <1>1 DEF ChainInv, StoreInv, ImportInv, Wiped, HeadNumber, VersionAt
<1>12. SideInv'
  <2>0. SideInv
    BY DEF ChainInv
  <2>1. ASSUME NEW c \in doomed \cup dangling PROVE OffChain(c)'
    <3>1. /\ c.ver <= rewinds \/ c.ver > MaxRewinds
          /\ c.num <= HeadNumber => c.ver # VersionAt(c.num)
      BY <2>0 DEF SideInv, OffChain
    <3>2. c.ver \in Nat
      BY ChainTypes, Constants
    <3>3. c.ver <= rewinds + 1 \/ c.ver > MaxRewinds
      BY <1>2, <3>1, <3>2
    <3>4. c.ver # rewinds + 1
      BY <1>1, <1>2, <3>1, <3>2
    <3> QED BY <1>1, <1>4, <3>1, <3>3, <3>4 DEF OffChain, VersionAt
  <2> QED BY <1>1, <2>0, <2>1 DEF SideInv, VersionAt
<1>9. VersionInv'
  <2>0. VersionInv
    BY DEF ChainInv
  <2>1. \A n \in 1 .. HeadNumber : chain[n] <= rewinds + 1
    BY <1>2, <2>0 DEF VersionInv
  <2>2. ASSUME NEW c \in stored
        PROVE  /\ c.ver <= rewinds + 1 \/ c.ver > MaxRewinds
               /\ c.ver # rewinds + 1
               /\ c.num <= HeadNumber /\ c.ver = VersionAt(c.num) => c.pver = VersionAt(c.num - 1)
    <3>1. /\ c.ver <= rewinds \/ c.ver > MaxRewinds
          /\ c.num <= HeadNumber /\ c.ver = VersionAt(c.num) => c.pver = VersionAt(c.num - 1)
      BY <2>0 DEF VersionInv
    <3> QED BY <1>1, <1>2, <3>1
  <2>3. \A n : VersionAt(n)' = VersionAt(n)
    BY <1>1 DEF VersionAt
  <2>4. \A c \in stored : c.num <= HeadNumber /\ c.ver = VersionAt(c.num)' => c.pver = VersionAt(c.num - 1)'
    BY <2>2, <2>3
  <2> QED BY <1>1, <1>4, <2>1, <2>2, <2>4 DEF VersionInv
<1>10. TablesHold(V)' /\ FrozenIsChain(V)'
  <2>1. TablesHold(V)'
    BY <1>1, SameTables DEF FreezerInv
  <2>2. FrozenIsChain(V)'
    BY <1>1, <1>4 DEF FreezerInv, FrozenIsChain, Total, Number
  <2> QED BY <2>1, <2>2
<1>11. ParentInv(V)'
  BY <1>1, <1>4, SameParents DEF FreezerInv, ParentInv
<1> QED BY <1>5, <1>6, <1>7, <1>8, <1>9, <1>10, <1>11, <1>12 DEF ChainInv, FreezerInv

\* The markers of the head move down.
LEMMA RewindMarkerStep ==
    ASSUME TypeOK, ChainInv, NEW V, FreezerInv(V), RewindMarker
    PROVE  TypeOK' /\ ChainInv' /\ FreezerInv(V)'
<1>a. PICK H : H = HeadNumber
  OBVIOUS
<1>b. PICK more : more = {H} \cup IF rewind.nums = {} THEN LeftoversAbove(H) ELSE {}
  OBVIOUS
<1>1. /\ rewind # None /\ rewind.phase = "marker" /\ H > rewind.target
      /\ chain' = SubSeq(chain, 1, H - 1)
      /\ rewind' = [rewind EXCEPT !.phase = "delete", !.nums = @ \cup more]
      /\ UNCHANGED <<canon, stored, tables, frozen, pc, first, limit, ancients, batches>>
      /\ UNCHANGED <<upto, next, doomed, dangling, importing, late>>
      /\ UNCHANGED <<rewinds, sides, faults, refused>>
  <2>1. rewind' = [rewind EXCEPT !.phase = "delete", !.nums = @ \cup more]
    <3>1. rewind' = [rewind EXCEPT !.phase = "delete",
                    !.nums = @ \cup {H} \cup IF @ = {} THEN LeftoversAbove(H) ELSE {}]
      BY <1>a DEF RewindMarker
    <3>2. rewind.nums \cup {H} \cup (IF rewind.nums = {} THEN LeftoversAbove(H) ELSE {})
            = rewind.nums \cup more
      BY <1>b
    <3> HIDE DEF LeftoversAbove
    <3> QED BY <3>1, <3>2
  <2> QED BY <1>a, <2>1 DEF RewindMarker, threadVars, wipeVars, importVars, counters
<1>2. /\ H \in Nat /\ H <= MaxHead /\ MaxHead \in Nat /\ H = Len(chain)
      /\ rewind \in Rewinds /\ rewind.target \in Nat /\ rewind.nums \subseteq 1 .. MaxHead
      /\ frozen \in Nat /\ first \in Nat /\ limit \in Nat /\ Len(ancients) \in Nat /\ Number = first + Len(ancients)
      /\ chain \in Seq(Version)
      /\ \A c \in stored : c.num \in Nat /\ c.num >= 1
  <2>1. rewind \in Rewinds /\ chain \in Seq(Version)
    BY <1>1 DEF TypeOK
  <2>2. rewind.target \in Nat /\ rewind.nums \subseteq 1 .. MaxHead
    BY <2>1, Constants DEF Rewinds
  <2> QED BY <1>a, <2>1, <2>2, ChainTypes, Constants
<1>3. more \subseteq 1 .. MaxHead /\ \A n \in more : n >= H
  <2>1. LeftoversAbove(H) \subseteq H + 1 .. MaxHead
    BY DEF LeftoversAbove
  <2>2. \A n \in more : n = H \/ n \in H + 1 .. MaxHead
    BY <1>b, <2>1
  <2>3. H >= 1
    BY <1>1, <1>2
  <2>4. \A n \in more : n \in 1 .. MaxHead /\ n >= H
    BY <1>2, <2>2, <2>3
  <2> QED BY <2>4
<1>4. /\ chain' \in Seq(Version) /\ Len(chain') = H - 1 /\ \A n \in 1 .. H - 1 : chain'[n] = chain[n]
  <2>1. H - 1 \in Nat
    BY <1>1, <1>2
  <2>2. \A n \in 1 .. H - 1 : chain[n] \in Version
    BY <1>2, ElementOfSeq
  <2>3. /\ SubSeq(chain, 1, H - 1) \in Seq(Version)
        /\ Len(SubSeq(chain, 1, H - 1)) = IF 1 <= H - 1 THEN H - 1 - 1 + 1 ELSE 0
        /\ \A i \in 1 .. H - 1 - 1 + 1 : SubSeq(chain, 1, H - 1)[i] = chain[1 + i - 1]
    BY <2>1, <2>2, SubSeqProperties
  <2>4. \A n \in 1 .. H - 1 : n \in 1 .. H - 1 - 1 + 1 /\ 1 + n - 1 = n
    BY <2>1
  <2>5. Len(SubSeq(chain, 1, H - 1)) = H - 1
    BY <2>1, <2>3
  <2> QED BY <1>1, <2>3, <2>4, <2>5
<1>5. /\ HeadNumber' = H - 1 /\ \A n \in 0 .. H - 1 : VersionAt(n)' = VersionAt(n)
  <2>1. \A n \in 0 .. H - 1 : n = 0 \/ n \in 1 .. H - 1
    BY <1>2
  <2> QED BY <1>4, <2>1 DEF HeadNumber, VersionAt
<1>6. PICK nums, target : nums = rewind.nums \cup more /\ target = rewind.target
  OBVIOUS
<1>7. /\ rewind' \in Rewinds /\ rewind' # None /\ rewind'.phase = "delete"
      /\ rewind'.target = target /\ rewind'.nums = nums
  <2>1. rewind' \in Rewinds /\ rewind'.phase = "delete" /\ rewind'.target = target /\ rewind'.nums = nums
    BY <1>1, <1>2, <1>3, <1>6 DEF Rewinds
  <2> QED BY <2>1, FreezerAssumption
<1>8. TypeOK'
  <2>1. HeadNumber' <= MaxHead
    BY <1>2, <1>5
  <2> QED BY <1>1, <1>4, <1>7, <2>1 DEF TypeOK
<1>9. target <= H - 1 /\ H - 1 \in Nat
  BY <1>1, <1>2, <1>6
<1>10. ThreadInv'
  <2>0. ThreadInv
    BY DEF ChainInv
  <2>1. pc # "idle" => first <= limit /\ limit <= target
    BY <1>1, <1>6, <2>0 DEF ThreadInv, RewindSpares
  <2>2. pc # "idle" => limit <= H - 1 /\ RewindSpares(limit)'
    <3>1. pc # "idle" => limit <= H - 1
      BY <1>2, <1>6, <1>9, <2>1
    <3> QED BY <1>1, <1>7, <2>1, <3>1 DEF RewindSpares
  <2>3. ASSUME pc \in {"freeze", "sync", "wipe"}, NEW i \in 1 .. Len(ancients)
        PROVE  ancients[i] = VersionAt(first + i - 1)'
    <3>1. ancients[i] = VersionAt(first + i - 1)
      BY <2>0, <2>3 DEF ThreadInv
    <3>2. /\ pc = "freeze" => Number <= limit + 1
          /\ pc \in {"sync", "wipe"} => Number = frozen /\ frozen = limit + 1
      BY <2>0 DEF ThreadInv
    <3>3. first + i - 1 \in 0 .. H - 1
      BY <1>2, <2>2, <2>3, <3>2
    <3> QED BY <1>1, <1>5, <3>1, <3>3
  <2>4. Number' = Number
    BY <1>1 DEF Number
  <2> QED BY <1>1, <1>5, <2>0, <2>1, <2>2, <2>3, <2>4 DEF ThreadInv
<1>11. RewindInv'
  <2>1. frozen <= H + 1 /\ \A n \in rewind.nums : n > H
    BY <1>a, <1>1 DEF ChainInv, RewindInv
  <2>2. frozen <= H - 1 + 2 /\ \A n \in nums : n > H - 1
    <3>1. \A n \in nums : n \in Nat /\ n >= H
      <4>1. \A n \in more : n \in Nat /\ n >= H
        BY <1>2, <1>3
      <4>2. \A n \in rewind.nums : n \in Nat /\ n >= H
        BY <1>2, <2>1
      <4> QED BY <1>6, <4>1, <4>2
    <3> QED BY <1>2, <2>1, <3>1
  <2> QED BY <1>1, <1>5, <1>7, <1>9, <2>2 DEF RewindInv
<1>12. \A n \in 1 .. H - 1 : n \in 1 .. H
  BY <1>2
<1>13. Wiped' = Wiped /\ Kept' = Kept /\ Total' = Total
  BY <1>1 DEF Wiped, Kept, Total, Number
<1>14. StoreInv'
  <2>1. StoreInv
    BY DEF ChainInv
  <2> QED BY <1>a, <1>1, <1>4, <1>5, <1>12, <1>13, <2>1 DEF StoreInv
<1>15. VersionInv'
  <2>0. VersionInv
    BY DEF ChainInv
  <2>1. \A n \in 1 .. H - 1 : chain'[n] <= rewinds
    BY <1>a, <1>4, <1>12, <2>0 DEF VersionInv
  <2>2. ASSUME NEW c \in stored
        PROVE  /\ c.ver <= rewinds \/ c.ver > MaxRewinds
               /\ c.ver # rewinds
               /\ c.num <= H - 1 /\ c.ver = VersionAt(c.num)' => c.pver = VersionAt(c.num - 1)'
    <3>1. /\ c.ver <= rewinds \/ c.ver > MaxRewinds
          /\ c.ver # rewinds
          /\ c.num <= H /\ c.ver = VersionAt(c.num) => c.pver = VersionAt(c.num - 1)
      BY <1>a, <1>1, <2>0 DEF VersionInv
    <3>2. c.num <= H - 1 => c.num \in 0 .. H - 1 /\ c.num - 1 \in 0 .. H - 1 /\ c.num <= H
      BY <1>2
    <3> QED BY <1>5, <3>1, <3>2
  <2> QED BY <1>1, <1>5, <1>7, <2>1, <2>2 DEF VersionInv
<1>16. SideInv'
  <2>0. SideInv /\ ThreadInv
    BY DEF ChainInv
  <2>1. ASSUME NEW c \in doomed \cup dangling PROVE OffChain(c)'
    <3>1. /\ c.ver <= rewinds \/ c.ver > MaxRewinds
          /\ c.ver # rewinds
          /\ c.num <= H => c.ver # VersionAt(c.num)
      BY <2>0, <1>a, <1>1 DEF SideInv, OffChain
    <3>2. c.num \in Nat
      BY ChainTypes
    <3>3. c.num <= H - 1 => c.num \in 0 .. H - 1 /\ c.num <= H
      BY <1>2, <3>2
    <3> QED BY <1>1, <1>5, <1>7, <3>1, <3>3 DEF OffChain
  <2>2. ASSUME pc \in {"reload", "sides"}, NEW c \in stored, c.num >= first, c.num <= limit
        PROVE  c.ver # VersionAt(c.num)'
    <3>1. limit <= target
      BY <1>1, <1>6, <2>0, <2>2 DEF ThreadInv, RewindSpares
    <3>2. c.num \in 0 .. H - 1
      BY <1>1, <1>2, <1>6, <1>9, <2>2, <3>1
    <3>3. c.ver # VersionAt(c.num)
      BY <2>0, <2>2 DEF SideInv
    <3> QED BY <1>5, <3>2, <3>3
  <2> QED BY <1>1, <2>0, <2>1, <2>2, SameSides
<1>20. ImportInv'
  BY <1>1 DEF ChainInv, ImportInv
<1>17. TablesHold(V)'
  BY <1>1, SameTables DEF FreezerInv
<1>18. FrozenIsChain(V)'
  <2>1. FrozenIsChain(V)
    BY DEF FreezerInv
  <2> QED BY <1>a, <1>4, <1>5, <1>12, <1>13, <2>1 DEF FrozenIsChain
<1>19. ParentInv(V)'
  <2>0. \A c \in stored : Attached(c) => Attached(c)'
    BY <1>1, SameParents
  <2> SUFFICES ASSUME faults = 0, NEW c \in stored
               PROVE  \/ c.num > H - 1 /\ c.num \in nums
                      \/ /\ c.num <= H - 1
                         /\ \/ c.num = 1
                            \/ c.num - 1 < frozen /\ V[c.num - 1] = c.pver
                            \/ Attached(c)
    BY <1>1, <1>5, <1>7, <2>0 DEF ParentInv
  <2>1. \/ c.num > H /\ c.num \in rewind.nums
        \/ /\ c.num <= H
           /\ \/ c.num = 1
              \/ c.num - 1 < frozen /\ V[c.num - 1] = c.pver
              \/ Attached(c)
    BY <1>a DEF FreezerInv, ParentInv
  <2>2. H \in nums
    BY <1>b, <1>6
  <2>3. c.num = H \/ c.num > H \/ c.num <= H - 1
    BY <1>2
  <2>4. CASE c.num = H
    BY <1>2, <2>2, <2>4
  <2>5. CASE c.num > H
    <3>1. c.num > H - 1 /\ ~(c.num <= H)
      BY <1>2, <2>5
    <3> QED BY <1>6, <2>1, <3>1
  <2>6. CASE c.num <= H - 1
    <3>1. ~(c.num > H)
      BY <1>2, <2>6
    <3> QED BY <2>1, <2>6, <3>1
  <2> QED BY <2>3, <2>4, <2>5, <2>6
<1> QED BY <1>8, <1>10, <1>11, <1>14, <1>15, <1>16, <1>17, <1>18, <1>19, <1>20 DEF ChainInv, FreezerInv

\* SetHead deletes what it collected.
LEMMA FinishRewindStep ==
    ASSUME TypeOK, ChainInv, NEW V, FreezerInv(V), FinishRewind
    PROVE  TypeOK' /\ ChainInv' /\ FreezerInv(V)'
<1>1. /\ rewind # None /\ rewind.phase = "marker" /\ rewind' = None
      /\ stored' = {b \in stored : b.num \notin rewind.nums}
      /\ canon' = [n \in DOMAIN canon |-> IF n \in rewind.nums THEN None ELSE canon[n]]
      /\ UNCHANGED <<chain, tables, frozen, pc, first, limit, ancients, batches>>
      /\ UNCHANGED <<upto, next, doomed, dangling, importing, late>>
      /\ UNCHANGED <<rewinds, sides, faults, refused>>
  BY DEF FinishRewind, threadVars, wipeVars, importVars, counters
<1>2. /\ HeadNumber \in Nat /\ HeadNumber <= MaxHead /\ MaxHead \in Nat
      /\ \A c \in stored : c.num \in Nat /\ c.num >= 1
      /\ frozen \in Nat
  BY ChainTypes, Constants
<1>3. \A n \in rewind.nums : n > HeadNumber
  BY <1>1 DEF ChainInv, RewindInv
<1>4. HeadNumber' = HeadNumber /\ Wiped' = Wiped /\ Total' = Total
  BY <1>1 DEF HeadNumber, Wiped, Total, Number
<1>5. canon \in [1 .. MaxHead -> Version \cup {None}]
  BY DEF TypeOK
<1>6. TypeOK'
  <2>1. canon' \in [1 .. MaxHead -> Version \cup {None}]
    BY <1>1, <1>5
  <2>2. stored' \subseteq Block
    BY <1>1 DEF TypeOK
  <2> QED BY <1>1, <1>4, <2>1, <2>2 DEF TypeOK
<1>7. ThreadInv'
  BY <1>1, <1>4 DEF ChainInv, ThreadInv, RewindSpares, Number, VersionAt
<1>8. RewindInv'
  BY <1>1, <1>4 DEF ChainInv, RewindInv
<1>9. \A c \in stored : c.num <= HeadNumber => c \in stored'
  BY <1>1, <1>2, <1>3
<1>10. StoreInv'
  <2> SUFFICES ASSUME NEW n \in 1 .. HeadNumber, n >= Wiped
               PROVE  canon'[n] = chain[n] /\ \E c \in stored' : c.num = n /\ c.ver = chain[n]
    BY <1>1, <1>4 DEF StoreInv
  <2>1. canon[n] = chain[n] /\ \E c \in stored : c.num = n /\ c.ver = chain[n]
    BY DEF ChainInv, StoreInv
  <2>2. n \notin rewind.nums /\ n \in 1 .. MaxHead
    BY <1>2, <1>3
  <2>3. canon'[n] = canon[n]
    BY <1>1, <1>5, <2>2
  <2> QED BY <1>2, <1>9, <2>1, <2>3
<1>11. VersionInv'
  <2>1. VersionInv
    BY DEF ChainInv
  <2>2. \A n : VersionAt(n)' = VersionAt(n)
    BY <1>1 DEF VersionAt
  <2>3. ASSUME NEW c \in stored'
        PROVE  /\ c.ver <= rewinds \/ c.ver > MaxRewinds
               /\ c.ver # rewinds
               /\ c.num <= HeadNumber /\ c.ver = VersionAt(c.num)' => c.pver = VersionAt(c.num - 1)'
    BY <1>1, <2>1, <2>2 DEF VersionInv
  <2>4. \A n \in 1 .. HeadNumber : chain[n] <= rewinds
    BY <2>1 DEF VersionInv
  <2> QED BY <1>1, <1>4, <2>3, <2>4 DEF VersionInv
<1>12. SideInv'
  <2>0. SideInv
    BY DEF ChainInv
  <2>1. \A c \in doomed \cup dangling : OffChain(c)'
    BY <1>1, <1>4, <2>0 DEF SideInv, OffChain, VersionAt
  <2>2. pc \in {"reload", "sides"} =>
           \A c \in stored' : c.num >= first /\ c.num <= limit => c.ver # VersionAt(c.num)'
    BY <1>1, <2>0 DEF SideInv, VersionAt
  <2> QED BY <1>1, <2>0, <2>1, <2>2, SameSides
<1>15. ImportInv'
  BY <1>1 DEF ChainInv, ImportInv
<1>13. TablesHold(V)' /\ FrozenIsChain(V)'
  <2>1. TablesHold(V)'
    BY <1>1, SameTables DEF FreezerInv
  <2>2. FrozenIsChain(V)'
    BY <1>1, <1>4 DEF FreezerInv, FrozenIsChain
  <2> QED BY <2>1, <2>2
<1>14. ParentInv(V)'
  <2> SUFFICES ASSUME faults = 0, NEW c \in stored'
               PROVE  /\ c.num <= HeadNumber
                      /\ \/ c.num = 1
                         \/ c.num - 1 < frozen /\ V[c.num - 1] = c.pver
                         \/ Attached(c)'
    BY <1>1, <1>4 DEF ParentInv
  <2>1. c \in stored /\ c.num \notin rewind.nums
    BY <1>1
  <2>2. /\ c.num <= HeadNumber
        /\ \/ c.num = 1
           \/ c.num - 1 < frozen /\ V[c.num - 1] = c.pver
           \/ Attached(c)
    BY <2>1 DEF FreezerInv, ParentInv
  <2>3. ASSUME NEW p \in stored, IsParent(p, c) PROVE p \in stored'
    <3>1. p.num <= HeadNumber
      BY <1>2, <2>1, <2>2, <2>3 DEF IsParent
    <3> QED BY <1>9, <3>1
  <2>4. Attached(c) => Attached(c)'
    BY <1>1, <2>3 DEF Attached, IsParent
  <2> QED BY <2>2, <2>4
<1> QED BY <1>6, <1>7, <1>8, <1>10, <1>11, <1>12, <1>13, <1>14, <1>15 DEF ChainInv, FreezerInv

\* What comes after the items of a table does not matter to it.
LEMMA SameVersions ==
    ASSUME NEW z, NEW V, NEW W, NEW t, TableOK(t, z, V),
           \A n \in Nat : n < Items(t) => W[n] = V[n]
    PROVE  TableOK(t, z, W)
<1>1. t \in Table /\ HoldsAll(t, V)
  BY DEF TableOK
<1>2. Items(t) \in Nat
  BY <1>1, TableParts
<1>3. \A n \in 1 .. Items(t) : W[n - 1] = V[n - 1]
  BY <1>2
<1>4. HoldsAll(t, W)
  BY <1>1, <1>3 DEF HoldsAll
<1> QED BY <1>4 DEF TableOK

\* The thread reads a block of the chain.
LEMMA CanonicalIsChain ==
    ASSUME TypeOK, StoreInv, NEW n \in Nat, n >= Wiped, n <= HeadNumber
    PROVE  Canonical(n) = VersionAt(n)
<1>1. CASE n = 0
  BY <1>1 DEF Canonical, VersionAt
<1>2. CASE n # 0
  <2>1. n \in 1 .. HeadNumber
    BY <1>2, ChainTypes
  <2> QED BY <1>2, <2>1 DEF StoreInv, Canonical, VersionAt
<1> QED BY <1>1, <1>2

\* One block of the batch goes to all tables.
LEMMA FreezeBlockStep ==
    ASSUME TypeOK, ChainInv, NEW V \in [Nat -> Version], FreezerInv(V), FreezeBlock
    PROVE  TypeOK' /\ ChainInv' /\ \E W \in [Nat -> Version] : FreezerInv(W)'
<1>a. PICK N, ver : N = Number /\ ver = Canonical(N)
  OBVIOUS
<1>b. PICK app : app = [k \in Kind |-> AppendItem(tables[k], batches[k], Item(k, N, ver))]
  OBVIOUS
<1>c. PICK W : W = [V EXCEPT ![N] = ver]
  OBVIOUS
<1>1. /\ pc = "freeze" /\ N <= limit
      /\ tables' = [k \in Kind |-> app[k].table]
      /\ batches' = [k \in Kind |-> app[k].batch]
      /\ ancients' = Append(ancients, ver)
      /\ UNCHANGED <<chain, canon, stored, frozen, pc, first, limit>>
      /\ UNCHANGED <<upto, next, doomed, dangling, importing, late>>
      /\ UNCHANGED <<rewind, rewinds, sides, faults, refused>>
  BY <1>a, <1>b DEF FreezeBlock, ThreadStep, chainVars, wipeVars, importVars, counters
<1>2. /\ HeadNumber \in Nat /\ HeadNumber <= MaxHead /\ MaxHead \in Nat /\ LastFile \in Nat /\ MaxHead <= LastFile
      /\ frozen \in Nat /\ first \in Nat /\ limit \in Nat /\ Len(ancients) \in Nat
      /\ N = first + Len(ancients) /\ N \in Nat
      /\ \A n \in 0 .. HeadNumber : VersionAt(n) \in Version
  BY <1>a, ChainTypes, Constants
<1>3. /\ first = frozen /\ N <= limit /\ limit <= HeadNumber /\ first <= limit /\ RewindSpares(limit)
      /\ \A i \in 1 .. Len(ancients) : ancients[i] = VersionAt(first + i - 1)
  BY <1>1 DEF ChainInv, ThreadInv
<1>4. Total = N /\ Kept = first /\ Wiped = first /\ N >= first /\ N <= HeadNumber
  BY <1>a, <1>1, <1>2, <1>3 DEF Total, Kept, Wiped
<1>5. ver = VersionAt(N) /\ ver \in Version /\ ver \in Nat
  <2>1. ver = VersionAt(N)
    BY <1>a, <1>2, <1>4, CanonicalIsChain DEF ChainInv
  <2>2. N \in 0 .. HeadNumber
    BY <1>2, <1>4
  <2> QED BY <1>2, <2>1, <2>2, Constants
<1>6. W \in [Nat -> Version] /\ W[N] = ver /\ \A n \in Nat : n # N => W[n] = V[n]
  BY <1>2, <1>5, <1>c
<1>7. /\ ancients' \in Seq(Version) /\ Len(ancients') = Len(ancients) + 1
      /\ ancients'[Len(ancients) + 1] = ver
      /\ \A i \in 1 .. Len(ancients) : ancients'[i] = ancients[i]
  <2>1. ancients \in Seq(Version)
    BY DEF TypeOK
  <2> QED BY <1>1, <1>5, <2>1
<1>8. Number' = N + 1 /\ Total' = N + 1 /\ Kept' = first /\ Wiped' = first
  <2>1. Number' = N + 1
    BY <1>1, <1>2, <1>7 DEF Number
  <2> QED BY <1>1, <2>1 DEF Total, Kept, Wiped
<1>9. ASSUME NEW k \in Kind
      PROVE  /\ batches'[k] \in Batch
             /\ TableOK(tables'[k], Size[k], W)
             /\ TableOK(CommitBatch(tables'[k], batches'[k]), Size[k], W)
             /\ Items(CommitBatch(tables'[k], batches'[k])) = N + 1
             /\ Safe(tables'[k], first)
  <2> DEFINE t == tables[k]
             b == batches[k]
             z == Size[k]
             c == CommitBatch(t, b)
             item == Item(k, N, ver)
             a == AppendItem(t, b, item)
  <2>1. /\ b \in Batch /\ TableOK(t, z, V) /\ TableOK(c, z, V) /\ Items(c) = N /\ Safe(t, first)
    BY <1>4 DEF FreezerInv, TablesHold
  <2>2. t \in Table /\ z \in Nat /\ z > 0 /\ z <= MaxFileSize
    BY <2>1, Constants DEF TableOK
  <2>3. Items(t) <= Items(c) /\ Items(t) \in Nat
    <3>1. Items(c) = Items(t) + Len(b.index) /\ Len(b.index) \in Nat
      BY <2>1, <2>2, Committing, LenProperties DEF Batch
    <3> QED BY <2>2, <3>1, TableParts
  <2>4. item \in Seq(Unit) /\ Len(item) = z /\ \A i \in 1 .. z : item[i] = [num |-> N, ver |-> ver]
    <3>1. item = [i \in 1 .. z |-> [num |-> N, ver |-> ver]]
      BY DEF Item
    <3>2. [num |-> N, ver |-> ver] \in Unit
      BY <1>2, <1>5 DEF Unit
    <3>3. item \in [1 .. z -> Unit]
      BY <3>1, <3>2
    <3> HIDE DEF item, z
    <3> QED BY <2>2, <3>1, <3>3
  <2>5. first \in 0 .. Items(t)
    BY <1>2, <2>1, SafeIsThere
  <2>6. tables'[k] = a.table /\ batches'[k] = a.batch
    BY <1>1, <1>b
  <2> HIDE DEF t, b, z, item
  <2>7. TableOK(t, z, W)
    <3>1. \A n \in Nat : n < Items(t) => n # N
      BY <1>2, <2>1, <2>3
    <3> QED BY <1>6, <2>1, <3>1, SameVersions
  <2> HIDE DEF c
  <2>8. TableOK(c, z, W)
    <3>1. \A n \in Nat : n < Items(c) => n # N
      BY <1>2, <2>1
    <3> QED BY <1>6, <2>1, <3>1, SameVersions
  <2>9. Items(c) <= LastFile
    BY <1>2, <1>4, <2>1
  <2>10. \A i \in 1 .. z : item[i] = [num |-> Items(c), ver |-> W[Items(c)]]
    BY <1>6, <2>1, <2>4
  <2>11. /\ TableOK(a.table, z, W) /\ a.batch \in Batch
         /\ TableOK(CommitBatch(a.table, a.batch), z, W)
         /\ Items(CommitBatch(a.table, a.batch)) = Items(c) + 1
         /\ \A d \in 0 .. Items(t) : Safe(t, d) => Safe(a.table, d)
    BY <2>1, <2>2, <2>4, <2>7, <2>8, <2>9, <2>10, AppendOK DEF c
  <2> HIDE DEF a
  <2> QED BY <2>1, <2>5, <2>6, <2>11 DEF z
<1>10. TablesHold(W)'
  BY <1>1, <1>8, <1>9 DEF TablesHold
<1>11. FrozenIsChain(W)'
  <2> SUFFICES ASSUME NEW n \in 1 .. HeadNumber, n < N + 1 PROVE W[n] = chain[n]
    BY <1>1, <1>8 DEF FrozenIsChain, HeadNumber
  <2>1. CASE n = N
    <3>1. n # 0
      BY <1>2
    <3> QED BY <1>5, <1>6, <2>1, <3>1 DEF VersionAt
  <2>2. CASE n # N
    <3>1. n < N /\ n \in Nat
      BY <1>2, <2>2
    <3>2. V[n] = chain[n]
      BY <1>4, <3>1 DEF FreezerInv, FrozenIsChain
    <3> QED BY <1>6, <2>2, <3>1, <3>2
  <2> QED BY <2>1, <2>2
<1>12. ParentInv(W)'
  <2>1. \A b \in stored : b.num \in Nat /\ b.num >= 1
    BY ChainTypes
  <2>2. \A b \in stored : b.num - 1 < frozen => W[b.num - 1] = V[b.num - 1]
    <3> SUFFICES ASSUME NEW b \in stored, b.num - 1 < frozen PROVE W[b.num - 1] = V[b.num - 1]
      OBVIOUS
    <3>1. b.num - 1 \in Nat /\ b.num - 1 # N
      BY <1>2, <1>3, <1>4, <2>1
    <3> QED BY <1>6, <3>1
  <2>3. \A b \in stored : Attached(b) => Attached(b)'
    BY <1>1, SameParents
  <2> QED BY <1>1, <2>2, <2>3 DEF FreezerInv, ParentInv, HeadNumber
<1>13. TypeOK'
  <2>2. \A k \in Kind : tables'[k].headId \in FileId
    BY <1>9 DEF TableOK, Table
  <2> QED BY <1>1, <1>7, <2>2 DEF TypeOK, HeadNumber
<1>14. ThreadInv'
  <2>1. N + 1 <= limit + 1
    BY <1>2, <1>3
  <2>2. ASSUME NEW i \in 1 .. Len(ancients) + 1 PROVE ancients'[i] = VersionAt(first + i - 1)
    <3>1. CASE i = Len(ancients) + 1
      <4>1. first + i - 1 = N
        BY <1>2, <3>1
      <4> QED BY <1>5, <1>7, <3>1, <4>1
    <3>2. CASE i # Len(ancients) + 1
      <4>1. i \in 1 .. Len(ancients)
        BY <1>2, <3>2
      <4> QED BY <1>3, <1>7, <4>1
    <3> QED BY <3>1, <3>2
  <2>4. \A i \in 1 .. Len(ancients)' : ancients'[i] = VersionAt(first + i - 1)'
    BY <1>1, <1>7, <2>2 DEF VersionAt
  <2>5. RewindSpares(limit)' /\ HeadNumber' = HeadNumber
    BY <1>1, <1>3 DEF RewindSpares, HeadNumber
  <2> QED BY <1>1, <1>3, <1>8, <2>1, <2>4, <2>5 DEF ThreadInv
<1>15. RewindInv' /\ StoreInv' /\ VersionInv' /\ ImportInv'
  BY <1>1, <1>4, <1>8, SameImport DEF ChainInv, RewindInv, StoreInv, VersionInv, HeadNumber, VersionAt
<1>17. SideInv'
  BY <1>1 DEF ChainInv, SideInv
<1>16. FreezerInv(W)'
  BY <1>10, <1>11, <1>12 DEF FreezerInv
<1> QED BY <1>6, <1>13, <1>14, <1>15, <1>16, <1>17 DEF ChainInv

\* The batch is given up: the tables go back to what was frozen before.
LEMMA RollBackStep ==
    ASSUME ~TornWrites, TypeOK, ChainInv, NEW V, FreezerInv(V),
           NEW k \in Kind, NEW n \in 0 .. MaxFileSize, RollBack(k, n)
    PROVE  TypeOK' /\ ChainInv' /\ FreezerInv(V)'
<1>1. /\ pc = "freeze" /\ Aborts(k, n)
      /\ tables' = [j \in Kind |->
                     TruncateHead(IF j = k THEN TornCommit(tables[k], SubSeq(WriteOut(k), 1, n))
                                           ELSE tables[j],
                                  frozen)]
      /\ batches' = NoBatches /\ pc' = "idle"
      /\ faults' = (IF BlockMissing THEN faults ELSE faults + 1)
      /\ UNCHANGED <<chain, canon, stored, frozen, first, limit, ancients>>
      /\ UNCHANGED <<upto, next, doomed, dangling, importing, late>>
      /\ UNCHANGED <<rewind, rewinds, sides, refused>>
  BY DEF RollBack, chainVars, wipeVars, importVars
<1>2. n = 0 /\ (~BlockMissing => faults < MaxFaults)
  <2>1. CASE BlockMissing
    BY <1>1, <2>1 DEF Aborts
  <2>2. CASE ~BlockMissing
    <3>1. WriteFails(k, n)
      BY <1>1, <2>2 DEF Aborts
    <3>2. faults < MaxFaults /\ ~(n > 0)
      BY <3>1 DEF WriteFails
    <3>3. n \in Nat
      BY TableAssumption
    <3> QED BY <3>2, <3>3
  <2> QED BY <2>1, <2>2
<1>3. /\ frozen \in Nat /\ frozen = first /\ faults \in Nat /\ MaxFaults \in Nat /\ faults <= MaxFaults
      /\ Kept = frozen /\ Wiped = frozen /\ frozen <= Total /\ Total \in Nat
  <2>1. frozen = first
    BY <1>1 DEF ChainInv, ThreadInv
  <2>2. faults <= MaxFaults
    BY Constants DEF TypeOK
  <2> QED BY <1>1, <2>1, <2>2, ChainTypes, Constants, Bounds DEF Kept, Wiped, ChainInv
<1>4. Kept' = frozen /\ Wiped' = frozen /\ Total' = frozen
  BY <1>1 DEF Kept, Wiped, Total
<1>5. ASSUME NEW j \in Kind
      PROVE  /\ tables'[j] = TruncateHead(tables[j], frozen) /\ batches'[j] = EmptyBatch
             /\ TableOK(tables'[j], Size[j], V) /\ Items(tables'[j]) = frozen /\ Safe(tables'[j], frozen)
  <2> DEFINE t == tables[j]
             z == Size[j]
  <2>1. TableOK(t, z, V) /\ Safe(t, frozen) /\ z \in Nat
    BY <1>3, Constants DEF FreezerInv, TablesHold
  <2>2. tables'[j] = TruncateHead(t, frozen)
    <3>1. CASE j # k
      BY <1>1, <3>1
    <3>2. CASE j = k
      <4>1. SubSeq(WriteOut(k), 1, n) = <<>>
        BY <1>2, SubSeqEmpty
      <4>2. TornCommit(t, <<>>) = t
        <5> DEFINE T == [index : File(Entry), data : [FileId -> File(Unit)], headId : FileId, headBytes : Nat]
        <5>1. t \in Table /\ t \in T
          BY <2>1 DEF TableOK, Table
        <5>2. t.data \in [FileId -> File(Unit)] /\ t.headId \in FileId /\ t.data[t.headId] \in File(Unit)
          BY <5>1, TableParts
        <5> DEFINE f == t.data[t.headId]
        <5>3. Write(f, <<>>) = f
          <6>1. f \in [cur : Seq(Unit), dur : Nat]
            BY <5>2 DEF File
          <6>2. f.cur \o <<>> = f.cur
            BY <6>1, ConcatEmptySeq
          <6> HIDE DEF f
          <6>3. Write(f, <<>>) = [f EXCEPT !.cur = f.cur]
            BY <6>2 DEF Write
          <6> QED BY <6>1, <6>3
        <5>4. TornCommit(t, <<>>) = [t EXCEPT !.data[t.headId] = t.data[t.headId]]
          BY <5>3 DEF TornCommit
        <5> HIDE DEF t
        <5> QED BY <5>1, <5>2, <5>4
      <4>3. tables'[j] = TruncateHead(TornCommit(t, SubSeq(WriteOut(k), 1, n)), frozen)
        BY <1>1, <3>2
      <4> QED BY <4>1, <4>2, <4>3
    <3> QED BY <3>1, <3>2
  <2> HIDE DEF t, z
  <2>3. frozen \in 0 .. Items(t) /\ frozen \in 0 .. frozen
    BY <1>3, <2>1, SafeIsThere
  <2>4. /\ TableOK(TruncateHead(t, frozen), z, V) /\ Items(TruncateHead(t, frozen)) = frozen
        /\ Safe(TruncateHead(t, frozen), frozen)
    BY <2>1, <2>3, TruncateOK
  <2>5. batches'[j] = EmptyBatch
    BY <1>1 DEF NoBatches
  <2> QED BY <2>2, <2>4, <2>5 DEF t, z
<1>6. TablesHold(V)'
  <2>1. \A j \in Kind : /\ batches'[j] \in Batch /\ CommitBatch(tables'[j], batches'[j]) = tables'[j]
    BY <1>5, CommittingNothing DEF TableOK
  <2> QED BY <1>1, <1>4, <1>5, <2>1 DEF TablesHold
<1>7. FrozenIsChain(V)'
  <2>1. \A m \in 1 .. HeadNumber : m < frozen => m < Total
    BY <1>3, ChainTypes
  <2> QED BY <1>1, <1>4, <2>1 DEF FreezerInv, FrozenIsChain, HeadNumber
<1>8. faults' \in 0 .. MaxFaults /\ (faults' = 0 => faults = 0)
  BY <1>1, <1>2, <1>3
<1>9. ParentInv(V)'
  <2>1. \A b \in stored : Attached(b) => Attached(b)'
    BY <1>1, SameParents
  <2> QED BY <1>1, <1>8, <2>1 DEF FreezerInv, ParentInv, HeadNumber
<1>10. TypeOK'
  <2>1. \A j \in Kind : tables'[j].headId \in FileId
    BY <1>5 DEF TableOK, Table
  <2> QED BY <1>1, <1>8, <2>1 DEF TypeOK, HeadNumber
<1>11. ThreadInv' /\ RewindInv' /\ StoreInv' /\ VersionInv' /\ ImportInv'
  BY <1>1, <1>3, <1>4, SameImport DEF ChainInv, ThreadInv, RewindInv, StoreInv, VersionInv, HeadNumber, VersionAt
<1>12. SideInv'
  BY <1>1 DEF ChainInv, SideInv
<1> QED BY <1>6, <1>7, <1>9, <1>10, <1>11, <1>12 DEF ChainInv, FreezerInv

\* The batch is committed to all tables.
LEMMA CommitFreezeStep ==
    ASSUME TypeOK, ChainInv, NEW V, FreezerInv(V), CommitFreeze
    PROVE  TypeOK' /\ ChainInv' /\ FreezerInv(V)'
<1>1. /\ pc = "freeze" /\ Number > limit
      /\ tables' = [k \in Kind |-> CommitBatch(tables[k], batches[k])]
      /\ batches' = NoBatches /\ frozen' = Number /\ pc' = "sync"
      /\ UNCHANGED <<chain, canon, stored, first, limit, ancients>>
      /\ UNCHANGED <<upto, next, doomed, dangling, importing, late>>
      /\ UNCHANGED <<rewind, rewinds, sides, faults, refused>>
  BY DEF CommitFreeze, ThreadStep, chainVars, wipeVars, importVars, counters
<1>2. /\ HeadNumber \in Nat /\ HeadNumber <= MaxHead /\ MaxHead \in Nat
      /\ frozen \in Nat /\ first \in Nat /\ limit \in Nat /\ Number \in Nat
  BY ChainTypes, Constants
<1>3. first = frozen /\ Number = limit + 1 /\ limit <= HeadNumber /\ first <= limit
  BY <1>1, <1>2 DEF ChainInv, ThreadInv
<1>4. Kept = first /\ Total = Number /\ Wiped = first
  BY <1>1 DEF Kept, Total, Wiped
<1>5. Number' = Number /\ Kept' = first /\ Total' = Number /\ Wiped' = first
  BY <1>1 DEF Number, Kept, Total, Wiped
<1>6. ASSUME NEW k \in Kind
      PROVE  /\ tables'[k] = CommitBatch(tables[k], batches[k]) /\ batches'[k] = EmptyBatch
             /\ TableOK(tables'[k], Size[k], V) /\ Items(tables'[k]) = Number /\ Safe(tables'[k], first)
  <2> DEFINE t == tables[k]
             b == batches[k]
             c == CommitBatch(t, b)
  <2>1. b \in Batch /\ TableOK(t, Size[k], V) /\ TableOK(c, Size[k], V) /\ Items(c) = Number /\ Safe(t, first)
    BY <1>4 DEF FreezerInv, TablesHold
  <2>2. tables'[k] = c /\ batches'[k] = EmptyBatch
    BY <1>1 DEF NoBatches
  <2> HIDE DEF t, b
  <2>3. first \in 0 .. Items(t) /\ t \in Table
    BY <1>2, <2>1, SafeIsThere DEF TableOK
  <2>4. Safe(c, first)
    BY <2>1, <2>3, CommitSafe
  <2> QED BY <2>1, <2>2, <2>4 DEF t, b
<1>7. TablesHold(V)'
  <2>1. \A j \in Kind : /\ batches'[j] \in Batch /\ CommitBatch(tables'[j], batches'[j]) = tables'[j]
    BY <1>6, CommittingNothing DEF TableOK
  <2> QED BY <1>1, <1>5, <1>6, <2>1 DEF TablesHold
<1>8. FrozenIsChain(V)' /\ ParentInv(V)'
  <2>1. FrozenIsChain(V)'
    BY <1>1, <1>4, <1>5 DEF FreezerInv, FrozenIsChain, HeadNumber
  <2>2. \A b \in stored : b.num - 1 < frozen => b.num - 1 < Number
    BY <1>2, <1>3, ChainTypes
  <2>3. ParentInv(V)'
    <3> SUFFICES ASSUME faults = 0, NEW c \in stored
                 PROVE  \/ c.num > HeadNumber /\ rewind # None /\ c.num \in rewind.nums
                        \/ /\ c.num <= HeadNumber
                           /\ \/ c.num = 1
                              \/ c.num - 1 < Number /\ V[c.num - 1] = c.pver
                              \/ Attached(c)
      <4>1. \A b \in stored : Attached(b) => Attached(b)'
        BY <1>1, SameParents
      <4> QED BY <1>1, <4>1 DEF ParentInv, HeadNumber
    <3> QED BY <1>1, <2>2 DEF FreezerInv, ParentInv
  <2> QED BY <2>1, <2>3
<1>9. TypeOK'
  <2>1. \A j \in Kind : tables'[j].headId \in FileId
    BY <1>6 DEF TableOK, Table
  <2>2. frozen' \in 0 .. MaxHead + 1
    BY <1>1, <1>2, <1>3
  <2> QED BY <1>1, <2>1, <2>2 DEF TypeOK, HeadNumber
<1>10. ThreadInv'
  <2>1. \A i \in 1 .. Len(ancients)' : ancients'[i] = VersionAt(first + i - 1)'
    BY <1>1 DEF ChainInv, ThreadInv, VersionAt
  <2>2. RewindSpares(limit)' /\ HeadNumber' = HeadNumber
    BY <1>1 DEF ChainInv, ThreadInv, RewindSpares, HeadNumber
  <2> QED BY <1>1, <1>3, <1>5, <2>1, <2>2 DEF ThreadInv
<1>11. RewindInv'
  <2>1. frozen' <= HeadNumber + 1
    BY <1>1, <1>2, <1>3
  <2>2. frozen' <= HeadNumber + 2
    BY <1>1, <1>2, <2>1
  <2> QED BY <1>1, <2>1, <2>2 DEF ChainInv, RewindInv, HeadNumber
<1>12. StoreInv' /\ VersionInv' /\ ImportInv'
  BY <1>1, <1>4, <1>5, SameImport DEF ChainInv, StoreInv, VersionInv, HeadNumber, VersionAt
<1>13. SideInv'
  BY <1>1 DEF ChainInv, SideInv
<1> QED BY <1>7, <1>8, <1>9, <1>10, <1>11, <1>12, <1>13 DEF ChainInv, FreezerInv

\* All tables are synced.
LEMMA SyncFreezeStep ==
    ASSUME TypeOK, ChainInv, NEW V, FreezerInv(V), SyncFreeze
    PROVE  TypeOK' /\ ChainInv' /\ FreezerInv(V)'
<1>1. /\ pc = "sync" /\ pc' = "wipe"
      /\ tables' = [k \in Kind |-> SyncTable(tables[k])]
      /\ UNCHANGED <<chain, canon, stored, frozen, batches, first, limit, ancients>>
      /\ UNCHANGED <<upto, next, doomed, dangling, importing, late>>
      /\ UNCHANGED <<rewind, rewinds, sides, faults, refused>>
  BY DEF SyncFreeze, ThreadStep, chainVars, wipeVars, importVars, counters
<1>2. Total = frozen /\ Total' = frozen /\ Kept' = frozen /\ Wiped' = Wiped
  BY <1>1 DEF Total, Kept, Wiped
<1>3. ASSUME NEW k \in Kind
      PROVE  /\ batches[k] = EmptyBatch
             /\ TableOK(tables'[k], Size[k], V) /\ Items(tables'[k]) = frozen /\ Safe(tables'[k], frozen)
  <2> DEFINE t == tables[k]
  <2>1. batches[k] = EmptyBatch /\ TableOK(t, Size[k], V) /\ Items(CommitBatch(t, batches[k])) = frozen
    BY <1>1, <1>2 DEF FreezerInv, TablesHold, NoBatches
  <2>2. Items(t) = frozen
    BY <2>1, CommittingNothing DEF TableOK
  <2>3. tables'[k] = SyncTable(t)
    BY <1>1
  <2> HIDE DEF t
  <2>4. TableOK(SyncTable(t), Size[k], V) /\ Items(SyncTable(t)) = frozen /\ Safe(SyncTable(t), frozen)
    BY <2>1, <2>2, Constants, SyncOK
  <2> QED BY <2>1, <2>3, <2>4
<1>4. TablesHold(V)'
  <2>1. \A j \in Kind : /\ batches[j] \in Batch /\ CommitBatch(tables'[j], batches[j]) = tables'[j]
    BY <1>3, CommittingNothing DEF TableOK
  <2>2. batches = NoBatches
    BY <1>1 DEF FreezerInv, TablesHold
  <2> QED BY <1>1, <1>2, <1>3, <2>1, <2>2 DEF TablesHold
<1>5. FrozenIsChain(V)' /\ ParentInv(V)'
  BY <1>1, <1>2, SameParents DEF FreezerInv, FrozenIsChain, ParentInv, HeadNumber
<1>6. TypeOK'
  <2>1. \A j \in Kind : tables'[j].headId \in FileId
    BY <1>3 DEF TableOK, Table
  <2> QED BY <1>1, <2>1 DEF TypeOK, HeadNumber
<1>7. ThreadInv' /\ RewindInv' /\ StoreInv' /\ VersionInv' /\ ImportInv'
  BY <1>1, <1>2, SameImport DEF ChainInv, ThreadInv, RewindInv, StoreInv, VersionInv, HeadNumber, VersionAt,
     RewindSpares, Number
<1>8. SideInv'
  BY <1>1 DEF ChainInv, SideInv
<1> QED BY <1>4, <1>5, <1>6, <1>7, <1>8 DEF ChainInv, FreezerInv

\* The frozen blocks leave the key-value store.
LEMMA WipeCanonicalStep ==
    ASSUME TypeOK, ChainInv, NEW V, FreezerInv(V), WipeCanonical
    PROVE  TypeOK' /\ ChainInv' /\ FreezerInv(V)'
<1>a. PICK gone : gone = {n \in first .. first + Len(ancients) - 1 : n # 0}
  OBVIOUS
<1>1. /\ pc = "wipe" /\ pc' = "reload"
      /\ stored' = {b \in stored : ~(b.num \in gone /\ b.ver = ancients[b.num - first + 1])}
      /\ canon' = [n \in DOMAIN canon |-> IF n \in gone THEN None ELSE canon[n]]
      /\ UNCHANGED <<chain, tables, frozen, batches, first, limit, ancients>>
      /\ UNCHANGED <<upto, next, doomed, dangling, importing, late>>
      /\ UNCHANGED <<rewind, rewinds, sides, faults, refused>>
  BY <1>a DEF WipeCanonical, ThreadStep, wipeVars, importVars, counters
<1>2. /\ HeadNumber \in Nat /\ HeadNumber <= MaxHead /\ MaxHead \in Nat
      /\ frozen \in Nat /\ first \in Nat /\ limit \in Nat /\ Len(ancients) \in Nat /\ Number = first + Len(ancients)
      /\ \A b \in stored : b.num \in Nat /\ b.num >= 1
  BY ChainTypes, Constants
<1>3. /\ Number = frozen /\ frozen = limit + 1 /\ first <= limit /\ limit <= HeadNumber
      /\ \A i \in 1 .. Len(ancients) : ancients[i] = VersionAt(first + i - 1)
  BY <1>1 DEF ChainInv, ThreadInv
<1>4. gone = {n \in first .. limit : n # 0}
  BY <1>a, <1>2, <1>3
<1>5. ASSUME NEW n \in gone
      PROVE  /\ n \in Nat /\ n # 0 /\ n < frozen /\ n \in 1 .. HeadNumber
             /\ ancients[n - first + 1] = VersionAt(n)
  <2>1. n \in Nat /\ n # 0 /\ n >= first /\ n <= limit
    BY <1>2, <1>4, <1>5
  <2>2. n - first + 1 \in 1 .. Len(ancients) /\ first + (n - first + 1) - 1 = n
    BY <1>2, <1>3, <2>1
  <2>3. ancients[n - first + 1] = VersionAt(first + (n - first + 1) - 1)
    BY <1>3, <2>2
  <2> QED BY <1>2, <1>3, <2>1, <2>2, <2>3
<1>6. Total = frozen /\ Total' = frozen /\ Kept' = frozen /\ Kept = frozen /\ Wiped' = frozen /\ Wiped = first
      /\ HeadNumber' = HeadNumber
  BY <1>1 DEF Total, Kept, Wiped, HeadNumber
<1>7. canon \in [1 .. MaxHead -> Version \cup {None}]
  BY DEF TypeOK
<1>8. TypeOK'
  <2>1. canon' \in [1 .. MaxHead -> Version \cup {None}]
    BY <1>1, <1>7
  <2>2. stored' \subseteq Block
    BY <1>1 DEF TypeOK
  <2> QED BY <1>1, <1>6, <2>1, <2>2 DEF TypeOK
<1>9. ThreadInv' /\ RewindInv'
  BY <1>1, <1>3, <1>6 DEF ChainInv, ThreadInv, RewindInv, RewindSpares
<1>10. StoreInv'
  <2> SUFFICES ASSUME NEW n \in 1 .. HeadNumber, n >= frozen
               PROVE  canon'[n] = chain[n] /\ \E c \in stored' : c.num = n /\ c.ver = chain[n]
    BY <1>1, <1>6 DEF StoreInv
  <2>1. n >= first /\ n \notin gone /\ n \in 1 .. MaxHead
    BY <1>2, <1>3, <1>5
  <2>2. canon[n] = chain[n] /\ \E c \in stored : c.num = n /\ c.ver = chain[n]
    BY <1>6, <2>1 DEF ChainInv, StoreInv
  <2>3. canon'[n] = canon[n]
    BY <1>1, <1>7, <2>1
  <2> QED BY <1>1, <2>1, <2>2, <2>3
<1>11. VersionInv'
  BY <1>1, <1>6 DEF ChainInv, VersionInv, VersionAt
<1>12. SideInv'
  <2> SUFFICES ASSUME NEW b \in stored', b.num >= first, b.num <= limit PROVE b.ver # VersionAt(b.num)
    BY <1>1 DEF ChainInv, SideInv, VersionAt
  <2>1. b \in stored /\ ~(b.num \in gone /\ b.ver = ancients[b.num - first + 1])
    BY <1>1
  <2>2. b.num \in gone
    BY <1>2, <1>3, <1>4, <2>1
  <2>3. ancients[b.num - first + 1] = VersionAt(b.num)
    BY <1>5, <2>2
  <2> QED BY <2>1, <2>2, <2>3
<1>16. ImportInv'
  BY <1>1, SameImport DEF ChainInv
<1>13. TablesHold(V)'
  BY <1>1, <1>6 DEF FreezerInv, TablesHold
<1>14. FrozenIsChain(V)'
  BY <1>1, <1>6 DEF FreezerInv, FrozenIsChain
<1>15. ParentInv(V)'
  <2> SUFFICES ASSUME faults = 0, NEW c \in stored'
               PROVE  \/ c.num > HeadNumber /\ rewind # None /\ c.num \in rewind.nums
                      \/ /\ c.num <= HeadNumber
                         /\ \/ c.num = 1
                            \/ c.num - 1 < frozen /\ V[c.num - 1] = c.pver
                            \/ Attached(c)'
    BY <1>1, <1>6 DEF ParentInv
  <2>1. c \in stored
    BY <1>1
  <2>2. \/ c.num > HeadNumber /\ rewind # None /\ c.num \in rewind.nums
        \/ /\ c.num <= HeadNumber
           /\ \/ c.num = 1
              \/ c.num - 1 < frozen /\ V[c.num - 1] = c.pver
              \/ Attached(c)
    BY <1>1, <2>1 DEF FreezerInv, ParentInv
  <2>3. ASSUME NEW p \in stored, IsParent(p, c), p \notin stored'
        PROVE  c.num - 1 < frozen /\ V[c.num - 1] = c.pver
    <3>1. p.num \in gone /\ p.ver = ancients[p.num - first + 1]
      BY <1>1, <2>3
    <3>2. p.ver = VersionAt(p.num) /\ p.num < frozen /\ p.num \in 1 .. HeadNumber /\ p.num # 0
      BY <1>5, <3>1
    <3>3. V[p.num] = VersionAt(p.num)
      BY <1>6, <3>2 DEF FreezerInv, FrozenIsChain, VersionAt
    <3>4. p.num = c.num - 1 /\ p.ver = c.pver
      BY <2>3 DEF IsParent
    <3> QED BY <3>2, <3>3, <3>4
  <2>4. Attached(c) => Attached(c)' \/ (c.num - 1 < frozen /\ V[c.num - 1] = c.pver)
    BY <1>1, <2>3 DEF Attached, IsParent
  <2> QED BY <2>2, <2>4
<1> QED BY <1>8, <1>9, <1>10, <1>11, <1>12, <1>13, <1>14, <1>15, <1>16 DEF ChainInv, FreezerInv

\* The number of frozen blocks is reloaded.
LEMMA ReloadFrozenStep ==
    ASSUME TypeOK, ChainInv, NEW V, FreezerInv(V), ReloadFrozen
    PROVE  TypeOK' /\ ChainInv' /\ FreezerInv(V)'
<1>1. /\ pc = "reload" /\ pc' = "sides" /\ upto' = frozen /\ next' = first
      /\ UNCHANGED <<chain, canon, stored, tables, frozen, batches, first, limit, ancients>>
      /\ UNCHANGED <<doomed, dangling, importing, late, rewind, rewinds, sides, faults, refused>>
  BY DEF ReloadFrozen, ThreadStep, chainVars, importVars, counters
<1>2. /\ frozen \in Nat /\ first \in Nat /\ limit \in Nat /\ MaxHead \in Nat
      /\ first \in 0 .. MaxHead /\ frozen \in 0 .. MaxHead + 1
  BY ChainTypes, Constants DEF TypeOK
<1>3. frozen = limit + 1 /\ first <= limit /\ limit <= HeadNumber
  BY <1>1 DEF ChainInv, ThreadInv
<1>4. HeadNumber' = HeadNumber /\ Total' = Total /\ Wiped' = Wiped /\ Kept' = Kept
  BY <1>1 DEF HeadNumber, Total, Wiped, Kept
<1>5. first <= frozen /\ first \in 0 .. MaxHead + 2
  BY <1>2, <1>3
<1>6. TypeOK'
  BY <1>1, <1>2, <1>4, <1>5 DEF TypeOK
<1>7. ThreadInv' /\ RewindInv' /\ StoreInv' /\ VersionInv'
  BY <1>1, <1>3, <1>4 DEF ChainInv, ThreadInv, RewindInv, StoreInv, VersionInv, RewindSpares, VersionAt
<1>8. ImportInv'
  BY <1>1, SameImport DEF ChainInv
<1>9. doomed = {} /\ dangling = {}
  BY <1>1 DEF ChainInv, SideInv
<1>10. SideInv'
  <2>1. \A b \in stored : b.num >= first /\ b.num <= limit => b.ver # VersionAt(b.num)
    BY <1>1 DEF ChainInv, SideInv
  <2> QED BY <1>1, <1>2, <1>3, <1>5, <1>9, <2>1 DEF SideInv, VersionAt
<1>11. TablesHold(V)' /\ FrozenIsChain(V)'
  BY <1>1, <1>4 DEF FreezerInv, TablesHold, FrozenIsChain
<1>12. ParentInv(V)'
  <2>1. ASSUME NEW b, Attached(b) PROVE Attached(b)'
    BY <1>1, <1>9, <2>1 DEF Attached, IsParent
  <2> QED BY <1>1, <1>4, <2>1 DEF FreezerInv, ParentInv
<1> QED BY <1>6, <1>7, <1>8, <1>10, <1>11, <1>12 DEF ChainInv, FreezerInv

\* The thread finds blocks off the chain at the next number, among them all on
\* top of those that it found before.
LEMMA Finding ==
    ASSUME TypeOK, ChainInv, NEW V, FreezerInv(V),
           pc \in {"sides", "dangling"}, pc = "sides" => next < upto, next <= MaxHead + 1,
           NEW found, found \subseteq AllHashes(next), \A b \in found : OffChain(b),
           \A b \in AllHashes(next), p \in dangling : IsParent(p, b) => b \in found,
           dangling' = found, doomed' = doomed \cup found, next' = next + 1,
           UNCHANGED <<chain, canon, stored, tables, frozen, pc, first, limit, ancients, batches>>,
           UNCHANGED <<upto, importing, late, rewind, rewinds, sides, faults, refused>>
    PROVE  TypeOK' /\ ChainInv' /\ FreezerInv(V)'
<1>1. next \in Nat /\ upto \in Nat /\ first \in Nat /\ MaxHead \in Nat
  BY ChainTypes, Constants
<1>2. \A b \in found : b \in stored /\ b.num = next
  BY DEF AllHashes
<1>3. HeadNumber' = HeadNumber /\ Total' = Total /\ Wiped' = Wiped /\ Kept' = Kept
  BY DEF HeadNumber, Total, Wiped, Kept, Number
<1>4. TypeOK'
  <2>1. doomed' \subseteq Block /\ dangling' \subseteq Block
    BY <1>2 DEF TypeOK
  <2>2. next' \in 0 .. MaxHead + 2
    BY <1>1
  <2> QED BY <1>3, <2>1, <2>2 DEF TypeOK
<1>5. ThreadInv' /\ RewindInv' /\ StoreInv' /\ VersionInv'
  BY <1>3 DEF ChainInv, ThreadInv, RewindInv, StoreInv, VersionInv, RewindSpares, VersionAt, Number
<1>6. ImportInv'
  BY SameImport DEF ChainInv
<1>7. SideInv'
  <2>1. SideInv
    BY DEF ChainInv
  <2>2. ASSUME NEW b \in doomed' \cup dangling' PROVE OffChain(b)'
    <3>1. OffChain(b)
      BY <2>1, <2>2 DEF SideInv
    <3> QED BY <3>1, SameOffChain
  <2>3. upto = limit + 1 /\ first <= next
    BY <2>1 DEF SideInv
  <2>4. first <= next' /\ (pc = "sides" => next' <= upto) /\ next' - 1 = next
    BY <1>1, <2>3
  <2> QED BY <1>2, <2>1, <2>2, <2>3, <2>4 DEF SideInv, VersionAt
<1>8. TablesHold(V)' /\ FrozenIsChain(V)'
  <2>1. TablesHold(V)'
    BY SameTables DEF FreezerInv
  <2>2. FrozenIsChain(V)'
    BY <1>3 DEF FreezerInv, FrozenIsChain
  <2> QED BY <2>1, <2>2
<1>9. ASSUME NEW b \in stored, Attached(b) PROVE Attached(b)'
  <2>1. CASE \E p \in stored \ doomed : IsParent(p, b)
    <3>1. PICK p \in stored \ doomed : IsParent(p, b)
      BY <2>1
    <3>2. CASE p \in found
      <4>1. p.num = next /\ p.num = b.num - 1 /\ b.num \in Nat
        BY <1>2, <3>1, <3>2, ChainTypes DEF IsParent
      <4>2. b.num = next'
        BY <1>1, <4>1
      <4> QED BY <3>1, <3>2, <4>2 DEF Attached, IsParent
    <3>3. CASE p \notin found
      BY <3>1, <3>3 DEF Attached, IsParent
    <3> QED BY <3>2, <3>3
  <2>2. CASE b \in doomed \cup late
    BY <2>2 DEF Attached
  <2>3. CASE b.num = next /\ \E p \in dangling : IsParent(p, b)
    <3>1. b \in found
      BY <2>3 DEF AllHashes
    <3> QED BY <3>1 DEF Attached
  <2> QED BY <1>9, <2>1, <2>2, <2>3 DEF Attached
<1>10. ParentInv(V)'
  BY <1>3, <1>9 DEF FreezerInv, ParentInv
<1> QED BY <1>4, <1>5, <1>6, <1>7, <1>8, <1>10 DEF ChainInv, FreezerInv

\* The hashes at one of the frozen numbers.
LEMMA ReadSidesStep ==
    ASSUME TypeOK, ChainInv, NEW V, FreezerInv(V), ReadSides
    PROVE  TypeOK' /\ ChainInv' /\ FreezerInv(V)'
<1>1. /\ pc = "sides" /\ next < upto
      /\ dangling' = AllHashes(next) /\ doomed' = doomed \cup AllHashes(next) /\ next' = next + 1
      /\ UNCHANGED <<chain, canon, stored, tables, frozen, pc, first, limit, ancients, batches>>
      /\ UNCHANGED <<upto, importing, late, rewind, rewinds, sides, faults, refused>>
  BY DEF ReadSides, ThreadStep, chainVars, importVars, counters
<1>2. /\ next \in Nat /\ upto \in Nat /\ limit \in Nat /\ HeadNumber \in Nat /\ MaxHead \in Nat
      /\ upto <= MaxHead + 1
  BY ChainTypes, Constants DEF TypeOK
<1>3. upto = limit + 1 /\ first <= next /\ limit <= HeadNumber
  BY <1>1 DEF ChainInv, SideInv, ThreadInv
<1>4. next <= limit /\ next <= HeadNumber /\ next <= MaxHead + 1
  BY <1>1, <1>2, <1>3
<1>5. ASSUME NEW b \in AllHashes(next) PROVE OffChain(b)
  <2>1. b \in stored /\ b.num = next
    BY <1>5 DEF AllHashes
  <2>2. b.ver # VersionAt(b.num)
    BY <1>1, <1>3, <1>4, <2>1 DEF ChainInv, SideInv
  <2>3. /\ b.ver <= rewinds \/ b.ver > MaxRewinds
        /\ rewind # None \/ b.num > HeadNumber => b.ver # rewinds
    BY <2>1 DEF ChainInv, VersionInv
  <2> QED BY <2>2, <2>3 DEF OffChain
<1>6. PICK found : found = AllHashes(next)
  OBVIOUS
<1> QED BY <1>1, <1>4, <1>5, <1>6, Finding

\* And those of the blocks on top of what was found.
LEMMA ReadDanglingStep ==
    ASSUME TypeOK, ChainInv, NEW V, FreezerInv(V), ReadDangling
    PROVE  TypeOK' /\ ChainInv' /\ FreezerInv(V)'
<1>1. /\ pc = "dangling" /\ dangling # {}
      /\ dangling' = Children(dangling) /\ doomed' = doomed \cup Children(dangling) /\ next' = next + 1
      /\ UNCHANGED <<chain, canon, stored, tables, frozen, pc, first, limit, ancients, batches>>
      /\ UNCHANGED <<upto, importing, late, rewind, rewinds, sides, faults, refused>>
  BY DEF ReadDangling, ThreadStep, chainVars, importVars, counters
<1>2. next \in Nat /\ MaxHead \in Nat /\ HeadNumber \in Nat
  BY ChainTypes, Constants
<1>3. \A b \in dangling : b.num = next - 1 /\ OffChain(b)
  BY DEF ChainInv, SideInv
<1>4. next <= MaxHead + 1
  <2>1. PICK b \in dangling : TRUE
    BY <1>1
  <2>2. b.num \in 1 .. MaxHead
    BY <2>1 DEF TypeOK, Block
  <2> QED BY <1>2, <1>3, <2>2
<1>5. ASSUME NEW b \in Children(dangling) PROVE OffChain(b)
  <2>1. b \in stored
    BY <1>5 DEF Children, AllHashes
  <2>2. PICK p \in dangling : p.num = b.num - 1 /\ p.ver = b.pver
    BY <1>5 DEF Children, IsParent
  <2>3. p.num <= HeadNumber => p.ver # VersionAt(p.num)
    BY <1>3 DEF OffChain
  <2>4. /\ b.ver <= rewinds \/ b.ver > MaxRewinds
        /\ rewind # None \/ b.num > HeadNumber => b.ver # rewinds
        /\ b.num <= HeadNumber /\ b.ver = VersionAt(b.num) => b.pver = VersionAt(b.num - 1)
    BY <2>1 DEF ChainInv, VersionInv
  <2>5. b.num <= HeadNumber => p.num <= HeadNumber
    BY <1>2, <2>1, <2>2, ChainTypes
  <2> QED BY <2>2, <2>3, <2>4, <2>5 DEF OffChain
<1>6. PICK found : found = Children(dangling)
  OBVIOUS
<1>7. /\ found \subseteq AllHashes(next)
      /\ \A b \in AllHashes(next), p \in dangling : IsParent(p, b) => b \in found
  BY <1>6 DEF Children
<1> QED BY <1>1, <1>4, <1>5, <1>6, <1>7, Finding

\* The batch is written: no block of the chain goes, and no block loses its
\* parent that is not found afterwards.
LEMMA Deleting ==
    ASSUME TypeOK, ChainInv, NEW V, FreezerInv(V), WriteBatch,
           pc \in {"sides", "dangling"}, pc' \in {"dangling", "idle"},
           dangling' = dangling, next' = next \/ dangling = {},
           UNCHANGED <<chain, canon, tables, frozen, batches, first, limit>>,
           UNCHANGED <<importing, late, rewind, rewinds, sides, faults, refused>>
    PROVE  /\ stored' \subseteq Block /\ doomed' \subseteq Block /\ HeadNumber' = HeadNumber
           /\ RewindInv' /\ StoreInv' /\ VersionInv' /\ ImportInv' /\ FreezerInv(V)'
<1>1. stored' = stored \ doomed /\ doomed' = {}
  BY DEF WriteBatch
<1>2. HeadNumber' = HeadNumber /\ Total' = Total /\ Wiped' = Wiped /\ Kept' = Kept
  BY DEF HeadNumber, Total, Wiped, Kept
<1>3. stored' \subseteq Block /\ doomed' \subseteq Block
  BY <1>1 DEF TypeOK
<1>4. StoreInv'
  <2> SUFFICES ASSUME NEW n \in 1 .. HeadNumber, n >= Wiped
               PROVE  canon[n] = chain[n] /\ \E c \in stored' : c.num = n /\ c.ver = chain[n]
    BY <1>2 DEF StoreInv
  <2>1. canon[n] = chain[n] /\ \E c \in stored : c.num = n /\ c.ver = chain[n]
    BY DEF ChainInv, StoreInv
  <2>2. n <= HeadNumber /\ VersionAt(n) = chain[n]
    BY ChainTypes DEF VersionAt
  <2>3. \A c \in doomed : c.num <= HeadNumber => c.ver # VersionAt(c.num)
    BY DEF ChainInv, SideInv, OffChain
  <2> QED BY <1>1, <2>1, <2>2, <2>3
<1>5. VersionInv' /\ RewindInv' /\ ImportInv'
  BY <1>1, <1>2, SameImport DEF ChainInv, VersionInv, RewindInv, VersionAt
<1>6. TablesHold(V)' /\ FrozenIsChain(V)'
  BY <1>2 DEF FreezerInv, TablesHold, FrozenIsChain
<1>7. ASSUME NEW b \in stored', Attached(b) PROVE Attached(b)'
  <2>1. b \notin doomed /\ stored' \ doomed' = stored \ doomed
    BY <1>1, <1>7
  <2> QED BY <1>7, <2>1 DEF Attached, IsParent
<1>8. ParentInv(V)'
  BY <1>1, <1>2, <1>7 DEF FreezerInv, ParentInv
<1> QED BY <1>2, <1>3, <1>4, <1>5, <1>6, <1>8 DEF FreezerInv

\* What was found at the frozen numbers goes.
LEMMA WipeSidesStep ==
    ASSUME TypeOK, ChainInv, NEW V, FreezerInv(V), WipeSides
    PROVE  TypeOK' /\ ChainInv' /\ FreezerInv(V)'
<1>1. /\ pc = "sides" /\ pc' = "dangling" /\ next >= upto /\ next' = upto /\ WriteBatch
      /\ UNCHANGED <<chain, canon, tables, frozen, batches, first, limit, ancients>>
      /\ UNCHANGED <<upto, dangling, importing, late, rewind, rewinds, sides, faults, refused>>
  BY DEF WipeSides, ThreadStep, importVars, counters
<1>2. next \in Nat /\ upto \in Nat
  BY ChainTypes
<1>3. upto = limit + 1 /\ first <= next /\ next <= upto
  BY <1>1 DEF ChainInv, SideInv
<1>4. next' = next
  BY <1>1, <1>2, <1>3
<1>5. /\ stored' \subseteq Block /\ doomed' \subseteq Block /\ HeadNumber' = HeadNumber
      /\ RewindInv' /\ StoreInv' /\ VersionInv' /\ ImportInv' /\ FreezerInv(V)'
  BY <1>1, <1>4, Deleting
<1>6. TypeOK'
  BY <1>1, <1>4, <1>5 DEF TypeOK
<1>7. ThreadInv'
  BY <1>1, <1>5 DEF ChainInv, ThreadInv, RewindSpares
<1>8. SideInv'
  <2>1. SideInv /\ doomed' = {}
    BY <1>1 DEF ChainInv, WriteBatch
  <2>2. \A b \in dangling : b.num = next - 1 /\ OffChain(b)'
    BY <1>1, <2>1, SameOffChain DEF SideInv
  <2> QED BY <1>1, <1>3, <1>4, <2>1, <2>2 DEF SideInv
<1> QED BY <1>5, <1>6, <1>7, <1>8 DEF ChainInv

\* And what was found on top.
LEMMA WipeDanglingStep ==
    ASSUME TypeOK, ChainInv, NEW V, FreezerInv(V), WipeDangling
    PROVE  TypeOK' /\ ChainInv' /\ FreezerInv(V)'
<1>1. /\ pc = "dangling" /\ pc' = "idle" /\ dangling = {} /\ WriteBatch
      /\ upto' = 0 /\ next' = 0 /\ ancients' = <<>>
      /\ UNCHANGED <<chain, canon, tables, frozen, batches, first, limit>>
      /\ UNCHANGED <<dangling, importing, late, rewind, rewinds, sides, faults, refused>>
  BY DEF WipeDangling, ThreadStep, importVars, counters
<1>2. /\ stored' \subseteq Block /\ doomed' \subseteq Block /\ HeadNumber' = HeadNumber
      /\ RewindInv' /\ StoreInv' /\ VersionInv' /\ ImportInv' /\ FreezerInv(V)'
  BY <1>1, Deleting
<1>3. TypeOK'
  <2>1. ancients' \in Seq(Version) /\ 0 \in 0 .. MaxHead + 1 /\ 0 \in 0 .. MaxHead + 2
    BY <1>1, Constants
  <2> QED BY <1>1, <1>2, <2>1 DEF TypeOK
<1>4. ThreadInv' /\ SideInv'
  BY <1>1 DEF ThreadInv, SideInv, WriteBatch
<1> QED BY <1>2, <1>3, <1>4 DEF ChainInv

\* SetHead truncates the freezer below a frozen block.
LEMMA RewindDeleteStep ==
    ASSUME TypeOK, ChainInv, NEW V, FreezerInv(V), RewindDelete
    PROVE  TypeOK' /\ ChainInv' /\ FreezerInv(V)'
<1>a. PICK num : num = HeadNumber + 1
  OBVIOUS
<1>1. /\ rewind # None /\ rewind.phase = "delete"
      /\ IF num + 1 <= frozen
         THEN /\ pc # "freeze"
              /\ tables' = [k \in Kind |-> TruncateHead(tables[k], num)]
              /\ frozen' = num
         ELSE UNCHANGED <<tables, frozen>>
      /\ rewind' = [rewind EXCEPT !.phase = "marker"]
      /\ UNCHANGED <<chain, canon, stored, pc, first, limit, ancients, batches>>
      /\ UNCHANGED <<upto, next, doomed, dangling, importing, late>>
      /\ UNCHANGED <<rewinds, sides, faults, refused>>
  BY <1>a DEF RewindDelete, chainVars, threadVars, wipeVars, importVars, counters
<1>2. /\ HeadNumber \in Nat /\ HeadNumber <= MaxHead /\ MaxHead \in Nat
      /\ frozen \in Nat /\ first \in Nat /\ limit \in Nat
      /\ \A c \in stored : c.num \in Nat /\ c.num >= 1
  BY ChainTypes, Constants
<1>3. /\ rewind' \in Rewinds /\ rewind' # None /\ rewind'.phase = "marker"
      /\ rewind'.target = rewind.target /\ rewind'.nums = rewind.nums
  <2>1. rewind \in Rewinds
    BY <1>1 DEF TypeOK
  <2> QED BY <1>1, <2>1, FreezerAssumption DEF Rewinds
<1>4. HeadNumber' = HeadNumber
  BY <1>1 DEF HeadNumber
<1>7. SideInv' /\ ImportInv'
  <2>1. SideInv /\ ImportInv
    BY DEF ChainInv
  <2>2. \A b \in doomed \cup dangling : OffChain(b)'
    BY <1>1, <1>3, <2>1, SameOffChain DEF SideInv
  <2>3. pc \in {"reload", "sides"} =>
           \A c \in stored' : c.num >= first /\ c.num <= limit => c.ver # VersionAt(c.num)'
    BY <1>1, <2>1 DEF SideInv, VersionAt
  <2> QED BY <1>1, <2>1, <2>2, <2>3, SameSides DEF ImportInv
<1>8. \A b \in stored : Attached(b) => Attached(b)'
  BY <1>1, SameParents
<1>5. CASE ~(num + 1 <= frozen)
  <2>1. UNCHANGED <<tables, frozen>> /\ frozen <= HeadNumber + 1
    BY <1>a, <1>1, <1>2, <1>5
  <2>2. Total' = Total /\ Wiped' = Wiped
    BY <1>1, <2>1 DEF Total, Wiped, Number
  <2>3. TypeOK'
    BY <1>1, <1>3, <1>4, <2>1 DEF TypeOK
  <2>4. ThreadInv'
    <3>1. RewindSpares(limit)' <=> RewindSpares(limit)
      BY <1>1, <1>3 DEF RewindSpares
    <3> QED BY <1>1, <1>4, <2>1, <3>1 DEF ChainInv, ThreadInv, Number, VersionAt
  <2>5. RewindInv'
    BY <1>1, <1>3, <1>4, <2>1 DEF ChainInv, RewindInv
  <2>6. StoreInv' /\ VersionInv'
    BY <1>1, <1>3, <1>4, <2>1, <2>2 DEF ChainInv, StoreInv, VersionInv, VersionAt
  <2>7. TablesHold(V)'
    BY <1>1, <2>1, SameTables DEF FreezerInv
  <2>8. FrozenIsChain(V)' /\ ParentInv(V)'
    BY <1>1, <1>3, <1>4, <1>8, <2>1, <2>2 DEF FreezerInv, FrozenIsChain, ParentInv
  <2> QED BY <1>7, <2>3, <2>4, <2>5, <2>6, <2>7, <2>8 DEF ChainInv, FreezerInv
<1>6. CASE num + 1 <= frozen
  <2>1. /\ tables' = [k \in Kind |-> TruncateHead(tables[k], num)] /\ frozen' = num
        /\ pc # "freeze" /\ num \in Nat /\ num < frozen
    BY <1>a, <1>1, <1>2, <1>6
  <2>2. pc = "idle"
    <3>1. pc \in {"idle", "freeze", "sync", "wipe", "reload", "sides", "dangling"}
      BY DEF TypeOK
    <3>2. pc \in {"sync", "wipe", "reload", "sides", "dangling"} => frozen = limit + 1 /\ limit <= HeadNumber
      BY DEF ChainInv, ThreadInv
    <3>3. frozen = limit + 1 /\ limit <= HeadNumber => FALSE
      BY <1>a, <1>2, <1>6
    <3> QED BY <2>1, <3>1, <3>2, <3>3
  <2>3. /\ Total = frozen /\ Wiped = frozen /\ Kept = frozen
        /\ Total' = num /\ Wiped' = num /\ Kept' = num
    BY <1>1, <2>1, <2>2 DEF Total, Wiped, Kept
  <2>4. batches = NoBatches
    BY <2>2 DEF FreezerInv, TablesHold
  <2>5. ASSUME NEW k \in Kind
        PROVE  /\ TableOK(tables'[k], Size[k], V) /\ Items(tables'[k]) = num /\ Safe(tables'[k], num)
               /\ batches[k] = EmptyBatch
    <3> DEFINE t == tables[k]
               z == Size[k]
    <3>1. TableOK(t, z, V) /\ Items(CommitBatch(t, batches[k])) = frozen /\ Safe(t, frozen) /\ z \in Nat
      BY <2>3, Constants DEF FreezerInv, TablesHold
    <3>2. batches[k] = EmptyBatch /\ tables'[k] = TruncateHead(t, num)
      BY <2>1, <2>4 DEF NoBatches
    <3> HIDE DEF t, z
    <3>3. Items(t) = frozen
      BY <3>1, <3>2, CommittingNothing DEF TableOK
    <3>4. num \in 0 .. Items(t) /\ num \in 0 .. frozen /\ frozen \in 0 .. Items(t)
      BY <1>2, <2>1, <3>3
    <3>5. Safe(t, num)
      BY <3>1, <3>4, SafeBelow
    <3>6. num \in 0 .. num
      BY <2>1
    <3>7. /\ TableOK(TruncateHead(t, num), z, V)
          /\ Items(TruncateHead(t, num)) = num
          /\ Safe(TruncateHead(t, num), num)
      BY <3>1, <3>4, <3>5, <3>6, TruncateOK
    <3> QED BY <3>2, <3>7 DEF z
  <2>6. TablesHold(V)'
    <3>1. \A j \in Kind : /\ batches[j] \in Batch /\ CommitBatch(tables'[j], batches[j]) = tables'[j]
      BY <2>5, CommittingNothing DEF TableOK
    <3> QED BY <1>1, <2>1, <2>3, <2>4, <2>5, <3>1 DEF TablesHold
  <2>7. FrozenIsChain(V)'
    <3>1. \A n \in 1 .. HeadNumber : n < frozen
      BY <1>a, <1>2, <2>1
    <3> QED BY <1>1, <1>4, <2>3, <3>1 DEF FreezerInv, FrozenIsChain
  <2>8. ParentInv(V)'
    <3>1. \A c \in stored : c.num <= HeadNumber => c.num - 1 < num
      BY <1>a, <1>2
    <3> QED BY <1>1, <1>3, <1>4, <1>8, <2>1, <3>1 DEF FreezerInv, ParentInv
  <2>9. TypeOK'
    <3>1. \A j \in Kind : tables'[j].headId \in FileId
      BY <2>5 DEF TableOK, Table
    <3>2. frozen' \in 0 .. MaxHead + 1
      BY <1>a, <1>2, <2>1
    <3> QED BY <1>1, <1>3, <1>4, <3>1, <3>2 DEF TypeOK
  <2>10. ThreadInv'
    BY <1>1, <2>2 DEF ThreadInv
  <2>11. RewindInv'
    <3>1. frozen' <= HeadNumber + 1
      BY <1>a, <1>2, <2>1
    <3> QED BY <1>1, <1>3, <1>4, <3>1 DEF ChainInv, RewindInv
  <2>12. StoreInv'
    <3>1. \A n \in 1 .. HeadNumber : ~(n >= num)
      BY <1>a, <1>2
    <3> QED BY <1>4, <2>3, <3>1 DEF StoreInv
  <2>13. VersionInv'
    BY <1>1, <1>3, <1>4 DEF ChainInv, VersionInv, VersionAt
  <2> QED BY <1>7, <2>6, <2>7, <2>8, <2>9, <2>10, <2>11, <2>12, <2>13 DEF ChainInv, FreezerInv
<1> QED BY <1>5, <1>6

\* What opening the database after a crash makes of the tables.
LEMMA RepairTablesOK ==
    ASSUME NEW V, NEW d \in Nat, NEW total,
           \A k \in Kind : /\ TableOK(tables[k], Size[k], V)
                           /\ Safe(tables[k], d) /\ Items(tables[k]) <= total,
           total \in Nat,
           NEW ts, \A k \in Kind : ts[k] \in Reopened(k)
    PROVE  \E n \in d .. total :
              \A k \in Kind : /\ TableOK(RepairTables(ts)[k], Size[k], V)
                              /\ Items(RepairTables(ts)[k]) = n
                              /\ Safe(RepairTables(ts)[k], n)
<1>1. ASSUME NEW k \in Kind
      PROVE  /\ TableOK(ts[k], Size[k], V) /\ Items(ts[k]) \in d .. total
             /\ Items(ts[k]) \in Nat /\ Safe(ts[k], Items(ts[k]))
  <2> DEFINE t == tables[k]
             z == Size[k]
  <2>1. PICK c \in Crashed(t) : ts[k] = Repair(c)
    BY DEF Reopened
  <2>2. TableOK(t, z, V) /\ Safe(t, d) /\ z \in Nat /\ Items(t) <= total
    BY Constants
  <2> HIDE DEF t, z
  <2>3. d \in 0 .. Items(t) /\ Items(t) \in Nat
    BY <2>2, SafeIsThere, TableParts DEF TableOK
  <2>4. /\ TableOK(Repair(c), z, V)
        /\ Items(Repair(c)) \in d .. Items(t)
        /\ Safe(Repair(c), Items(Repair(c)))
    BY <2>2, <2>3, RepairOK
  <2>5. Items(Repair(c)) \in d .. total /\ Items(Repair(c)) \in Nat
    BY <2>2, <2>3, <2>4
  <2> QED BY <2>1, <2>4, <2>5 DEF z
<1> DEFINE S == {Items(ts[k]) : k \in Kind}
           n == Min(S)
<1>2. S \subseteq Nat /\ S # {}
  BY <1>1, FreezerAssumption
<1>3. n \in S /\ \A m \in S : n <= m
  <2> HIDE DEF S
  <2> QED BY <1>2, MinIsLeast
<1>4. n \in d .. total /\ n \in Nat
  BY <1>1, <1>3
<1>5. \A k \in Kind : RepairTables(ts)[k] = TruncateHead(ts[k], n)
  BY DEF RepairTables
<1>6. \A k \in Kind : n \in 0 .. Items(ts[k])
  BY <1>1, <1>3, <1>4
<1> HIDE DEF n, S
<1>7. ASSUME NEW k \in Kind
      PROVE  /\ TableOK(RepairTables(ts)[k], Size[k], V)
             /\ Items(RepairTables(ts)[k]) = n
             /\ Safe(RepairTables(ts)[k], n)
  <2> DEFINE t == ts[k]
             z == Size[k]
  <2>1. /\ TableOK(t, z, V) /\ Safe(t, Items(t)) /\ z \in Nat /\ Items(t) \in Nat
        /\ n \in 0 .. Items(t) /\ RepairTables(ts)[k] = TruncateHead(t, n)
    BY <1>1, <1>5, <1>6, Constants
  <2> HIDE DEF t, z
  <2>2. Items(t) \in 0 .. Items(t) /\ n \in 0 .. n
    BY <1>4, <2>1
  <2>3. Safe(t, n)
    BY <2>1, <2>2, SafeBelow
  <2>4. /\ TableOK(TruncateHead(t, n), z, V)
        /\ Items(TruncateHead(t, n)) = n
        /\ Safe(TruncateHead(t, n), n)
    BY <2>1, <2>2, <2>3, TruncateOK
  <2> QED BY <2>1, <2>4 DEF z
<1> QED BY <1>4, <1>7

\* A crash and a restart.
LEMMA CrashStep ==
    ASSUME ~DeepRaces, TypeOK, ChainInv, NEW V, FreezerInv(V), CrashAndRestart
    PROVE  TypeOK' /\ ChainInv' /\ ~refused' /\ FreezerInv(V)'
<1>1. /\ faults < MaxFaults /\ faults' = faults + 1
      /\ frozen > 0 => RewindSpares(frozen - 1)
      /\ frozen' = Min({Items(tables'[k]) : k \in Kind})
      /\ refused' = Gap(frozen')
      /\ pc' = "idle" /\ first' = 0 /\ limit' = 0 /\ ancients' = <<>>
      /\ batches' = NoBatches /\ rewind' = None /\ importing' = None
      /\ upto' = 0 /\ next' = 0 /\ doomed' = {} /\ dangling' = {}
      /\ UNCHANGED <<chain, canon, stored, late, rewinds, sides>>
  BY DEF CrashAndRestart, MayOverlap, chainVars
<1>2. /\ HeadNumber \in Nat /\ HeadNumber <= MaxHead /\ MaxHead \in Nat
      /\ frozen \in Nat /\ limit \in Nat /\ faults \in Nat /\ MaxFaults \in Nat
      /\ \A n \in 1 .. HeadNumber : chain[n] \in Version
  BY ChainTypes, Constants
<1>3. /\ Wiped \in Nat /\ Kept \in Nat /\ Total \in Nat /\ Wiped <= Kept /\ Kept <= Total
  BY <1>2, Bounds DEF ChainInv
<1>4. Total <= HeadNumber + 1
  <2>1. Total = frozen \/ (pc = "freeze" /\ Total <= limit + 1 /\ limit <= HeadNumber)
    BY Bounds DEF ChainInv
  <2>2. rewind = None => Total <= HeadNumber + 1
    BY Bounds DEF ChainInv
  <2>3. rewind # None => frozen <= HeadNumber + 1
    <3> SUFFICES ASSUME rewind # None, frozen > 0 PROVE frozen <= HeadNumber + 1
      BY <1>2
    <3>1. frozen - 1 <= rewind.target /\ rewind.target <= HeadNumber
      BY <1>1 DEF RewindSpares, ChainInv, RewindInv
    <3>2. rewind.target \in Nat
      BY Constants DEF TypeOK, Rewinds
    <3> QED BY <1>2, <3>1, <3>2
  <2> QED BY <1>2, <1>3, <2>1, <2>2, <2>3
<1>5. PICK n \in Kept .. Total :
         \A k \in Kind : TableOK(tables'[k], Size[k], V) /\ Items(tables'[k]) = n /\ Safe(tables'[k], n)
  <2>1. ASSUME NEW k \in Kind
        PROVE  /\ TableOK(tables[k], Size[k], V) /\ Safe(tables[k], Kept)
               /\ Items(tables[k]) <= Total
    <3>1. /\ batches[k] \in Batch /\ TableOK(tables[k], Size[k], V) /\ Safe(tables[k], Kept)
          /\ Items(CommitBatch(tables[k], batches[k])) = Total
      BY DEF FreezerInv, TablesHold
    <3>2. tables[k] \in Table
      BY <3>1 DEF TableOK
    <3>3. Items(CommitBatch(tables[k], batches[k])) = Items(tables[k]) + Len(batches[k].index)
      BY <3>1, <3>2, Committing
    <3>4. Items(tables[k]) \in Nat /\ Len(batches[k].index) \in Nat
      BY <3>1, <3>2, TableParts, LenProperties DEF Batch
    <3> QED BY <3>1, <3>3, <3>4
  <2>2. PICK ts : /\ \A k \in Kind : ts[k] \in Reopened(k)
                  /\ tables' = RepairTables(ts)
    BY DEF CrashAndRestart
  <2>3. \E n \in Kept .. Total :
           \A k \in Kind : /\ TableOK(RepairTables(ts)[k], Size[k], V)
                           /\ Items(RepairTables(ts)[k]) = n
                           /\ Safe(RepairTables(ts)[k], n)
    BY <1>3, <2>1, <2>2, RepairTablesOK
  <2> QED BY <2>2, <2>3
<1>6. frozen' = n /\ n \in Nat /\ Wiped <= n /\ n <= Total
  <2>1. {Items(tables'[k]) : k \in Kind} = {n}
    BY <1>5, FreezerAssumption
  <2>2. n \in Nat /\ Wiped <= n /\ n <= Total
    BY <1>3, <1>5
  <2>3. Min({n}) = n
    BY <2>2, MinIsLeast
  <2> QED BY <1>1, <2>1, <2>2, <2>3
<1>7. HeadNumber' = HeadNumber /\ Total' = n /\ Wiped' = n /\ Kept' = n
  BY <1>1, <1>6 DEF HeadNumber, Total, Wiped, Kept
<1>8. refused' = FALSE
  <2>1. \A m \in 1 .. HeadNumber : m >= n => canon[m] # None
    <3>1. \A m \in 1 .. HeadNumber : m >= n => m >= Wiped
      BY <1>3, <1>6
    <3>2. \A m \in 1 .. HeadNumber : m >= n => canon[m] = chain[m]
      BY <3>1 DEF ChainInv, StoreInv
    <3> QED BY <1>2, <3>2, FreezerAssumption
  <2>2. n > 0 /\ HeadNumber >= n => n \in 1 .. HeadNumber
    BY <1>2, <1>6
  <2>3. ~(n > 0) /\ HeadNumber > 0 => 1 \in 1 .. HeadNumber /\ 1 >= n
    BY <1>2, <1>6
  <2>4. n >= n
    BY <1>6
  <2>5. Gap(n) = FALSE
    BY <2>1, <2>2, <2>3, <2>4 DEF Gap
  <2> QED BY <1>1, <1>6, <2>5
<1>9. TablesHold(V)'
  <2>1. \A j \in Kind : /\ batches'[j] \in Batch /\ CommitBatch(tables'[j], batches'[j]) = tables'[j]
    BY <1>1, <1>5, CommittingNothing DEF TableOK, NoBatches
  <2> QED BY <1>1, <1>5, <1>7, <2>1 DEF TablesHold
<1>10. FrozenIsChain(V)'
  <2>1. \A m \in 1 .. HeadNumber : m < n => m < Total
    BY <1>2, <1>3, <1>6
  <2> QED BY <1>1, <1>7, <2>1 DEF FreezerInv, FrozenIsChain
<1>11. ParentInv(V)'
  <2>1. faults' # 0
    BY <1>1, <1>2
  <2> QED BY <2>1 DEF ParentInv
<1>12. TypeOK'
  <2>1. \A j \in Kind : tables'[j].headId \in FileId
    BY <1>5 DEF TableOK, Table
  <2>2. frozen' \in 0 .. MaxHead + 1 /\ faults' \in 0 .. MaxFaults /\ 0 \in 0 .. MaxHead
        /\ 0 \in 0 .. MaxHead + 1 /\ 0 \in 0 .. MaxHead + 2
    BY <1>1, <1>2, <1>3, <1>4, <1>6
  <2>3. ancients' \in Seq(Version) /\ doomed' \subseteq Block /\ dangling' \subseteq Block
    BY <1>1
  <2>4. refused' \in BOOLEAN
    BY <1>8
  <2> QED BY <1>1, <1>7, <2>1, <2>2, <2>3, <2>4 DEF TypeOK
<1>13. ThreadInv' /\ SideInv' /\ ImportInv'
  BY <1>1 DEF ThreadInv, SideInv, ImportInv
<1>14. RewindInv'
  <2>1. n <= HeadNumber + 1
    BY <1>2, <1>3, <1>4, <1>6
  <2> QED BY <1>1, <1>6, <1>7, <2>1 DEF RewindInv
<1>15. StoreInv'
  <2>1. \A m \in 1 .. HeadNumber : m >= n => m >= Wiped
    BY <1>3, <1>6
  <2> QED BY <1>1, <1>7, <2>1 DEF ChainInv, StoreInv
<1>16. VersionInv'
  BY <1>1, <1>7 DEF ChainInv, VersionInv, VersionAt
<1> QED BY <1>8, <1>9, <1>10, <1>11, <1>12, <1>13, <1>14, <1>15, <1>16 DEF ChainInv, FreezerInv

-----------------------------------------------------------------------------
(* The invariant is inductive.                                             *)

LEMMA InitIInv == Init => IInv
<1> SUFFICES ASSUME Init PROVE IInv
  OBVIOUS
<1>1. /\ chain = <<>> /\ canon = [n \in 1 .. MaxHead |-> None] /\ stored = {}
      /\ tables = [k \in Kind |-> EmptyTable] /\ frozen = 0
      /\ pc = "idle" /\ first = 0 /\ limit = 0 /\ ancients = <<>>
      /\ batches = NoBatches /\ rewind = None /\ importing = None /\ late = {}
      /\ upto = 0 /\ next = 0 /\ doomed = {} /\ dangling = {}
      /\ rewinds = 0 /\ sides = 0 /\ faults = 0 /\ refused = FALSE
  BY DEF Init
<1>2. HeadNumber = 0
  BY <1>1, EmptySeq DEF HeadNumber
<1> DEFINE V == [n \in Nat |-> 0]
<1>3. V \in [Nat -> Version]
  BY Constants
<1> HIDE DEF V
<1>4. Total = 0 /\ Kept = 0
  BY <1>1 DEF Total, Kept
<1>5. \A k \in Kind : /\ tables[k] = EmptyTable /\ batches[k] = EmptyBatch
                      /\ TableOK(EmptyTable, Size[k], V) /\ Safe(EmptyTable, 0) /\ Items(EmptyTable) = 0
  BY <1>1, EmptyTableOK DEF NoBatches
<1>6. TablesHold(V)
  <2>1. EmptyTable \in Table
    BY <1>5, FreezerAssumption DEF TableOK
  <2>2. EmptyBatch \in Batch /\ CommitBatch(EmptyTable, EmptyBatch) = EmptyTable
    BY <2>1, CommittingNothing
  <2> QED BY <1>1, <1>4, <1>5, <2>2 DEF TablesHold
<1>7. FrozenIsChain(V) /\ ParentInv(V)
  BY <1>1, <1>2 DEF FrozenIsChain, ParentInv
<1>8. TypeOK
  <2>1. chain \in Seq(Version) /\ ancients \in Seq(Version)
    BY <1>1, EmptySeq
  <2>2. 0 \in 0 .. MaxHead /\ 0 \in 0 .. MaxHead + 1 /\ 0 <= MaxHead
        /\ 0 \in 0 .. MaxHead + 2 /\ 0 \in 0 .. MaxRewinds /\ 0 \in 0 .. MaxSides /\ 0 \in 0 .. MaxFaults
    BY Constants
  <2>3. \A k \in Kind : tables[k].headId \in FileId
    BY <1>5 DEF TableOK, Table
  <2> QED BY <1>1, <1>2, <2>1, <2>2, <2>3 DEF TypeOK
<1>9. ChainInv
  BY <1>1, <1>2 DEF ChainInv, ThreadInv, RewindInv, StoreInv, VersionInv, SideInv, ImportInv
<1> QED BY <1>1, <1>3, <1>6, <1>7, <1>8, <1>9 DEF IInv, FreezerInv

\* Only opening the database can refuse it.
LEMMA RefusesOnOpening ==
    ASSUME Next PROVE CrashAndRestart \/ refused' = refused
BY DEF Next, Thread, SetHead, ImportBlock, VerifySide, WriteSide, StartFreeze, FreezeBlock, CommitFreeze, RollBack,
       SyncFreeze, WipeCanonical, ReloadFrozen, ReadSides, WipeSides, ReadDangling, WipeDangling,
       StartRewind, RewindMarker, RewindDelete, FinishRewind, ThreadStep

\* The steps of the thread.
LEMMA ThreadSteps ==
    ASSUME ~DeepRaces, ~TornWrites, TypeOK, ChainInv, NEW V \in [Nat -> Version], FreezerInv(V), Thread
    PROVE  TypeOK' /\ ChainInv' /\ \E W \in [Nat -> Version] : FreezerInv(W)'
<1>1. CASE StartFreeze
  BY <1>1, StartFreezeStep
<1>2. CASE FreezeBlock
  BY <1>2, FreezeBlockStep
<1>3. CASE CommitFreeze
  BY <1>3, CommitFreezeStep
<1>4. CASE \E k \in Kind, n \in 0 .. MaxFileSize : RollBack(k, n)
  BY <1>4, RollBackStep
<1>5. CASE SyncFreeze
  BY <1>5, SyncFreezeStep
<1>6. CASE WipeCanonical
  BY <1>6, WipeCanonicalStep
<1>7. CASE WipeSides
  BY <1>7, WipeSidesStep
<1>8. CASE WipeDangling
  BY <1>8, WipeDanglingStep
<1>9. CASE ReloadFrozen
  BY <1>9, ReloadFrozenStep
<1>10. CASE ReadSides
  BY <1>10, ReadSidesStep
<1>11. CASE ReadDangling
  BY <1>11, ReadDanglingStep
<1> QED BY <1>1, <1>2, <1>3, <1>4, <1>5, <1>6, <1>7, <1>8, <1>9, <1>10, <1>11 DEF Thread

\* Everything stays as it is.
LEMMA StutterStep ==
    ASSUME IInv, UNCHANGED vars PROVE IInv'
<1>1. /\ UNCHANGED <<chain, canon, stored, tables, frozen, pc, first, limit, ancients, batches>>
      /\ UNCHANGED <<upto, next, doomed, dangling, importing, late>>
      /\ UNCHANGED <<rewind, rewinds, sides, faults, refused>>
  BY DEF vars, chainVars, threadVars, wipeVars, importVars, counters
<1>2. PICK V \in [Nat -> Version] : FreezerInv(V)
  BY DEF IInv
<1>3. HeadNumber' = HeadNumber /\ Total' = Total /\ Wiped' = Wiped
  BY <1>1 DEF HeadNumber, Total, Wiped, Number
<1>4. TypeOK'
  BY <1>1, <1>3 DEF IInv, TypeOK
<1>5. ThreadInv' /\ RewindInv' /\ StoreInv' /\ VersionInv' /\ ImportInv'
  BY <1>1, <1>3, SameImport DEF IInv, ChainInv, ThreadInv, RewindInv, StoreInv, VersionInv, RewindSpares,
     Number, VersionAt
<1>7. SideInv'
  BY <1>1, SameOffChain DEF IInv, ChainInv, SideInv, VersionAt
<1>6. TablesHold(V)' /\ FrozenIsChain(V)' /\ ParentInv(V)'
  BY <1>1, <1>2, <1>3, SameTables, SameParents DEF FreezerInv, FrozenIsChain, ParentInv
<1> QED BY <1>1, <1>4, <1>5, <1>6, <1>7 DEF IInv, ChainInv, FreezerInv

LEMMA NextIInv ==
    ASSUME ~DeepRaces, ~TornWrites, IInv, [Next]_vars PROVE IInv'
<1>1. CASE UNCHANGED vars
  BY <1>1, StutterStep
<1>2. CASE Next
  <2>1. TypeOK /\ ChainInv /\ ~refused
    BY DEF IInv
  <2>2. PICK V \in [Nat -> Version] : FreezerInv(V)
    BY DEF IInv
  <2>3. TypeOK' /\ ChainInv' /\ \E W \in [Nat -> Version] : FreezerInv(W)'
    <3>1. CASE ImportBlock
      BY <2>1, <2>2, <3>1, ImportBlockStep
    <3>2. CASE \E n \in 1 .. MaxHead, pver \in Version : VerifySide(n, pver)
      BY <2>1, <2>2, <3>2, VerifySideStep
    <3>7. CASE WriteSide
      BY <2>1, <2>2, <3>7, WriteSideStep
    <3>3. CASE Thread
      BY <2>1, <2>2, <3>3, ThreadSteps
    <3>4. CASE \E target \in 0 .. MaxHead : StartRewind(target)
      BY <2>1, <2>2, <3>4, StartRewindStep
    <3>5. CASE SetHead
      BY <2>1, <2>2, <3>5, RewindMarkerStep, RewindDeleteStep, FinishRewindStep DEF SetHead
    <3>6. CASE CrashAndRestart
      BY <2>1, <2>2, <3>6, CrashStep
    <3> QED BY <1>2, <3>1, <3>2, <3>3, <3>4, <3>5, <3>6, <3>7 DEF Next
  <2>4. ~refused'
    BY <1>2, <2>1, <2>2, CrashStep, RefusesOnOpening
  <2> QED BY <2>3, <2>4 DEF IInv
<1> QED BY <1>1, <1>2

-----------------------------------------------------------------------------
(* What follows from it.                                                   *)

\* An item reads as it was appended.
LEMMA RetrieveItem ==
    ASSUME NEW k \in Kind, NEW V \in [Nat -> Version], NEW t, TableOK(t, Size[k], V),
           NEW n \in Nat, n < Items(t)
    PROVE  /\ t.index.cur[n + 1].off <= Len(t.data[t.index.cur[n + 1].file].cur)
           /\ Retrieve(t, n) = Item(k, n, V[n])
<1> DEFINE z == Size[k]
           end == t.index.cur[n + 1]
           from == StartOf(t.index.cur, n + 1)
           data == t.data[end.file].cur
           unit == [num |-> n, ver |-> V[n]]
<1>1. t \in Table /\ Chained(t.index.cur, z) /\ HoldsAll(t, V) /\ z \in Nat
  BY Constants DEF TableOK
<1>2. Items(t) \in Nat /\ Items(t) = Len(t.index.cur)
  BY <1>1, TableParts
<1>3. n + 1 \in 1 .. Items(t) /\ (n + 1) - 1 = n
  BY <1>2
<1>4. end = EndOf(t.index.cur, n + 1) /\ from \in Nat
  BY <1>1, <1>3, TableEntries
<1>5. end.off = from + z
  BY <1>1, <1>2, <1>3 DEF Chained
<1>6. /\ end.off <= Len(data)
      /\ \A i \in from + 1 .. end.off : data[i] = unit
  <2> DEFINE v == V[n]
  <2> HIDE DEF v
  <2>1. V[(n + 1) - 1] = v
    BY <1>3 DEF v
  <2>2. Holds(t, n + 1, v)
    BY <1>1, <1>3, <2>1 DEF HoldsAll
  <2>3. /\ end.off <= Len(data)
        /\ \A i \in from + 1 .. end.off : data[i] = [num |-> (n + 1) - 1, ver |-> v]
    BY <2>2, Zenon DEF Holds
  <2>4. [num |-> (n + 1) - 1, ver |-> v] = unit
    BY <1>3 DEF v
  <2> HIDE DEF end, from, data, unit
  <2> QED BY <2>3, <2>4
<1>7. from = IF EndOf(t.index.cur, n).file = end.file THEN EndOf(t.index.cur, n).off ELSE 0
  BY <1>3, <1>4 DEF StartOf
<1>8. Retrieve(t, n) = SubSeq(data, from + 1, end.off)
  BY <1>7 DEF Retrieve
<1>9. unit \in Unit
  BY Constants DEF Unit
<1> HIDE DEF z, end, from, data, unit
<1>10. /\ SubSeq(data, from + 1, end.off) \in Seq(Unit)
       /\ Len(SubSeq(data, from + 1, end.off)) = z
       /\ \A i \in 1 .. z : SubSeq(data, from + 1, end.off)[i] = unit
  <2>1. from + 1 \in Int /\ end.off \in Int /\ end.off - (from + 1) + 1 = z
    BY <1>1, <1>4, <1>5
  <2>2. \A i \in from + 1 .. end.off : data[i] \in Unit
    BY <1>6, <1>9
  <2>3. /\ SubSeq(data, from + 1, end.off) \in Seq(Unit)
        /\ Len(SubSeq(data, from + 1, end.off))
             = IF from + 1 <= end.off THEN end.off - (from + 1) + 1 ELSE 0
        /\ \A i \in 1 .. end.off - (from + 1) + 1 :
              SubSeq(data, from + 1, end.off)[i] = data[from + 1 + i - 1]
    BY <2>1, <2>2, SubSeqProperties
  <2>4. Len(SubSeq(data, from + 1, end.off)) = z
    BY <1>1, <1>4, <1>5, <2>1, <2>3
  <2>5. \A i \in 1 .. z : from + 1 + i - 1 \in from + 1 .. end.off
    BY <1>1, <1>4, <1>5
  <2> QED BY <1>6, <2>1, <2>3, <2>4, <2>5
<1>11. Item(k, n, V[n]) = [i \in 1 .. z |-> unit]
  BY DEF Item, z, unit
<1>12. [i \in 1 .. z |-> unit] \in Seq(Unit) /\ Len([i \in 1 .. z |-> unit]) = z
       /\ \A i \in 1 .. z : [j \in 1 .. z |-> unit][i] = unit
  BY <1>1, <1>9
<1> DEFINE s1 == SubSeq(data, from + 1, end.off)
           s2 == [i \in 1 .. z |-> unit]
<1>13. s1 = s2
  <2>1. /\ s1 \in Seq(Unit) /\ s2 \in Seq(Unit) /\ Len(s1) = Len(s2)
        /\ \A i \in 1 .. Len(s1) : s1[i] = s2[i]
    BY <1>10, <1>12
  <2> HIDE DEF s1, s2
  <2> QED BY <2>1, SeqEqual
<1>14. Retrieve(t, n) = Item(k, n, V[n])
  BY <1>8, <1>11, <1>13
<1>15. end.off <= Len(data)
  BY <1>6
<1> QED BY <1>14, <1>15 DEF end, data

\* What is frozen can be read.
LEMMA FrozenReads ==
    ASSUME TypeOK, ChainInv, NEW V \in [Nat -> Version], FreezerInv(V), NEW n \in Nat, n < frozen
    PROVE  Frozen(n, V[n])
<1> SUFFICES ASSUME NEW k \in Kind
             PROVE  TableOK(tables[k], Size[k], V) /\ n < Items(tables[k]) /\ Items(tables[k]) \in Nat
  BY RetrieveItem DEF Frozen
<1>1. TableOK(tables[k], Size[k], V) /\ Safe(tables[k], Kept)
  BY DEF FreezerInv, TablesHold
<1>2. Items(tables[k]) \in Nat
  BY <1>1, TableParts DEF TableOK
<1>3. frozen \in Nat /\ Kept \in Nat
  BY ChainTypes, Bounds DEF ChainInv
<1>4. CASE pc = "freeze"
  <2>1. Kept = frozen
    BY <1>4 DEF Kept, ChainInv, ThreadInv
  <2>2. frozen \in 0 .. Items(tables[k])
    BY <1>1, <1>3, <2>1, SafeIsThere
  <2> QED BY <1>1, <1>2, <1>3, <2>2
<1>5. CASE pc # "freeze"
  <2>1. batches[k] = EmptyBatch /\ Items(CommitBatch(tables[k], batches[k])) = frozen
    BY <1>5 DEF FreezerInv, TablesHold, NoBatches, Total
  <2>2. Items(tables[k]) = frozen
    BY <1>1, <2>1, CommittingNothing DEF TableOK
  <2> QED BY <1>1, <1>3, <2>2
<1> QED BY <1>4, <1>5

(***************************************************************************)
(* If no rewind reaches the blocks of the thread's batch and no crash      *)
(* interrupts one that reaches frozen blocks (~DeepRaces), and if a write  *)
(* that fails leaves none of its data (~TornWrites): the state has its     *)
(* type, for any tables, limits and length of the chain.                   *)
(***************************************************************************)
THEOREM TypeCorrect ==
    ASSUME ~DeepRaces, ~TornWrites PROVE Spec => []TypeOK
<1>1. IInv /\ [Next]_vars => IInv'
  BY NextIInv
<1>2. IInv => TypeOK
  BY DEF IInv
<1> QED BY <1>1, <1>2, InitIInv, PTL DEF Spec

(***************************************************************************)
(* Under the same conditions every block of the chain can be read, from    *)
(* the freezer or from the key-value store, at any moment of freezeRange,  *)
(* SetHead and repair, and after a crash at any of them.                   *)
(***************************************************************************)
THEOREM ChainAlwaysReadable ==
    ASSUME ~DeepRaces, ~TornWrites PROVE Spec => []ChainReadable
<1>1. IInv /\ [Next]_vars => IInv'
  BY NextIInv
<1>2. ASSUME IInv PROVE ChainReadable
  <2>1. TypeOK /\ ChainInv
    BY <1>2 DEF IInv
  <2>2. PICK V \in [Nat -> Version] : FreezerInv(V)
    BY <1>2 DEF IInv
  <2> SUFFICES ASSUME NEW n \in 1 .. HeadNumber
               PROVE  IF n < frozen THEN Frozen(n, VersionAt(n)) ELSE Canonical(n) = VersionAt(n)
    BY DEF ChainReadable
  <2>3. /\ n \in Nat /\ n # 0 /\ n <= HeadNumber /\ frozen \in Nat
        /\ Wiped \in Nat /\ Total \in Nat /\ Wiped <= frozen /\ frozen <= Total
    <3>1. HeadNumber \in Nat /\ frozen \in Nat
      BY <2>1, ChainTypes
    <3>2. /\ Wiped \in Nat /\ Kept \in Nat /\ Total \in Nat
          /\ Wiped <= Kept /\ Kept <= frozen /\ frozen <= Total
      BY <2>1, Bounds DEF ChainInv
    <3> QED BY <3>1, <3>2
  <2>4. CASE n < frozen
    <3>1. V[n] = VersionAt(n)
      BY <2>2, <2>3, <2>4 DEF FreezerInv, FrozenIsChain, VersionAt
    <3>2. Frozen(n, V[n])
      BY <2>1, <2>2, <2>3, <2>4, FrozenReads
    <3> QED BY <2>4, <3>1, <3>2
  <2>5. CASE ~(n < frozen)
    <3>1. n >= Wiped
      BY <2>3, <2>5
    <3>2. Canonical(n) = VersionAt(n)
      BY <2>1, <2>3, <3>1, CanonicalIsChain DEF ChainInv
    <3> QED BY <2>5, <3>2
  <2> QED BY <2>4, <2>5
<1> QED BY <1>1, <1>2, InitIInv, PTL DEF Spec

(***************************************************************************)
(* Under the same conditions all tables end with the same item unless a    *)
(* batch is being written, and every item of every table reads as it was   *)
(* appended (freezer_table.go, freezer_batch.go).                          *)
(***************************************************************************)
THEOREM TablesAlwaysAgree ==
    ASSUME ~DeepRaces, ~TornWrites PROVE Spec => []TablesAgree
<1>1. IInv /\ [Next]_vars => IInv'
  BY NextIInv
<1>2. ASSUME IInv PROVE TablesAgree
  <2>1. TypeOK /\ ChainInv
    BY <1>2 DEF IInv
  <2>2. PICK V \in [Nat -> Version] : FreezerInv(V)
    BY <1>2 DEF IInv
  <2> SUFFICES ASSUME pc # "freeze"
               PROVE  /\ \A k \in Kind : Items(tables[k]) = frozen
                      /\ \A n \in 0 .. frozen - 1 : \E ver \in Version : Frozen(n, ver)
    BY DEF TablesAgree
  <2>3. ASSUME NEW k \in Kind PROVE Items(tables[k]) = frozen
    <3>1. /\ batches[k] = EmptyBatch /\ TableOK(tables[k], Size[k], V)
          /\ Items(CommitBatch(tables[k], batches[k])) = frozen
      BY <2>2 DEF FreezerInv, TablesHold, NoBatches, Total
    <3> QED BY <3>1, CommittingNothing DEF TableOK
  <2>4. ASSUME NEW n \in 0 .. frozen - 1 PROVE \E ver \in Version : Frozen(n, ver)
    <3>1. n \in Nat /\ n < frozen
      BY <2>1, ChainTypes
    <3>2. Frozen(n, V[n]) /\ V[n] \in Version
      BY <2>1, <2>2, <3>1, FrozenReads
    <3> QED BY <3>2
  <2> QED BY <2>3, <2>4
<1> QED BY <1>1, <1>2, InitIInv, PTL DEF Spec

(***************************************************************************)
(* Under the same conditions NewDatabaseWithFreezer opens the database     *)
(* after every crash.                                                      *)
(***************************************************************************)
THEOREM DatabaseAlwaysOpens ==
    ASSUME ~DeepRaces, ~TornWrites PROVE Spec => []AlwaysOpens
<1>1. IInv /\ [Next]_vars => IInv'
  BY NextIInv
<1>2. IInv => AlwaysOpens
  BY DEF IInv, AlwaysOpens
<1> QED BY <1>1, <1>2, InitIInv, PTL DEF Spec

(***************************************************************************)
(* Under the same conditions the freezer does not reach above the head     *)
(* when no rewind is going on, which NewBlockChain assumes.                *)
(***************************************************************************)
THEOREM NoAncientsAboveHead ==
    ASSUME ~DeepRaces, ~TornWrites PROVE Spec => []NoExtraAncients
<1>1. IInv /\ [Next]_vars => IInv'
  BY NextIInv
<1>2. IInv => NoExtraAncients
  BY DEF IInv, ChainInv, RewindInv, NoExtraAncients
<1> QED BY <1>1, <1>2, InitIInv, PTL DEF Spec

(***************************************************************************)
(* Under the same conditions, and as long as nothing has failed, side      *)
(* chains of any shape that the freezer cut off are gone entirely, but for *)
(* blocks that were written after the thread had read the hashes at their  *)
(* number, on a parent in its batch or already gone: nothing else is left  *)
(* without its parent by the reads and writes of chain_freezer.go:181-231, *)
(* whatever is imported or rewound in between.                             *)
(***************************************************************************)
THEOREM OrphansAreLate ==
    ASSUME ~DeepRaces, ~TornWrites PROVE Spec => []OnlyLateOrphans
<1>1. IInv /\ [Next]_vars => IInv'
  BY NextIInv
<1>2. ASSUME IInv PROVE OnlyLateOrphans
  <2>1. TypeOK /\ ChainInv
    BY <1>2 DEF IInv
  <2>2. PICK V \in [Nat -> Version] : FreezerInv(V)
    BY <1>2 DEF IInv
  <2> SUFFICES ASSUME pc = "idle", faults = 0, rewind = None, NEW b \in stored
               PROVE  HasParent(b) \/ b \in late
    BY DEF OnlyLateOrphans, Quiet
  <2>3. \/ b.num = 1
        \/ b.num - 1 < frozen /\ V[b.num - 1] = b.pver
        \/ Attached(b)
    BY <2>2 DEF FreezerInv, ParentInv
  <2>4. Attached(b) => b \in late \/ \E p \in stored : IsParent(p, b)
    BY <2>1 DEF Attached, ChainInv, SideInv
  <2>5. b.num - 1 \in Nat
    BY <2>1, ChainTypes
  <2>6. CASE b.num - 1 < frozen /\ V[b.num - 1] = b.pver
    <3>1. Frozen(b.num - 1, V[b.num - 1])
      BY <2>1, <2>2, <2>5, <2>6, FrozenReads
    <3> QED BY <2>6, <3>1 DEF HasParent
  <2> QED BY <2>3, <2>4, <2>6 DEF HasParent
<1> QED BY <1>1, <1>2, InitIInv, PTL DEF Spec

=============================================================================
