--------------------------- MODULE StoredIndexProofs ---------------------------
(***************************************************************************)
(* That the index of blocks always leads to the messages of the recording, *)
(* proved for every value of the constants.                                *)
(***************************************************************************)
EXTENDS StoredSessionProofs

----------------------------------------------------------------------------
(* What is recorded.                                                       *)

(* The cells of an open recording up to where the process writes next.     *)
OnRecord(fs, f) == SubSeq(fs[f.name], 1, f.pos - Len(f.unsaved)) \o f.unsaved

(* Sequences of cells are put together.                                    *)
LEMMA CellsJoin ==
  ASSUME NEW p \in Seq(Cell), NEW q \in Seq(Cell), NEW r \in Seq(Cell)
  PROVE  (p \o q) \o r = p \o (q \o r)
BY ConcatAssociative

(* What follows in the file is not part of the history.                    *)
LEMMA RecordedIs ==
  ASSUME NEW fs, NEW f, AllRecordings(fs), Open(fs, f)
  PROVE  /\ OnRecord(fs, f) \in Seq(Cell) /\ Len(OnRecord(fs, f)) = f.pos
         /\ f.pos \in Nat /\ f.pos >= 1
         /\ SubSeq(Seen(fs, f), 1, f.pos) = OnRecord(fs, f)
         /\ Recorded(fs, f) = SubSeq(OnRecord(fs, f), 2, f.pos)
         /\ Recorded(fs, f) \in Seq(Cell) /\ Len(Recorded(fs, f)) = f.pos - 1
<1> DEFINE cells == fs[f.name]
           at    == f.pos - Len(f.unsaved)
           pos   == f.pos
           l     == Len(cells)
           u     == Len(f.unsaved)
           kept  == SubSeq(cells, 1, at)
           p     == kept \o f.unsaved
           rest  == SubSeq(cells, pos + 1, l)
<1>1. cells \in Seq(Cell) /\ f.unsaved \in Seq(Cell)
  BY DEF AllRecordings, IsRecording, Open
<1>2. pos \in Nat /\ u \in Nat /\ l \in Nat /\ u < pos /\ pos <= l + u /\ at = pos - u
  BY <1>1 DEF Open
<1>3. Seen(fs, f) = p \o rest /\ OnRecord(fs, f) = p
  BY DEF Seen, OnRecord
<1> HIDE DEF cells
<1> HIDE DEF pos, u, at
<1>4. at \in Nat /\ 1 <= at /\ at <= l
  BY <1>2
<1>5. kept \in Seq(Cell) /\ Len(kept) = at
  BY <1>1, <1>4, Slice
<1> HIDE DEF kept
<1>6. p \in Seq(Cell) /\ Len(p) = pos
  <2>1. p \in Seq(Cell) /\ Len(p) = Len(kept) + u
    BY <1>1, <1>5, ConcatProperties DEF u
  <2> HIDE DEF p
  <2> QED BY <1>2, <1>5, <2>1
<1>7. rest \in Seq(Cell)
  <2>1. pos + 1 \in Int /\ l \in Int /\ \A i \in (pos + 1) .. l : cells[i] \in Cell
    BY <1>1, <1>2, ElementOfSeq
  <2> QED BY <2>1, SubSeqProperties
<1> HIDE DEF p, rest, l
<1>8. SubSeq(p \o rest, 1, pos) = SubSeq(p, 1, pos)
  BY <1>2, <1>6, <1>7, SliceOfFirst
<1>9. SubSeq(p, 1, pos) = p
  BY <1>6, SubSeqFull
<1>10. SubSeq(p \o rest, 2, pos) = SubSeq(p, 2, pos)
  BY <1>2, <1>6, <1>7, SliceOfFirst
<1>11. SubSeq(p, 2, pos) \in Seq(Cell) /\ Len(SubSeq(p, 2, pos)) = pos - 1
  <2>1. SubSeq(p, 2, pos) \in Seq(Cell) /\ Len(SubSeq(p, 2, pos)) = pos - 2 + 1
    BY <1>2, <1>6, Slice
  <2> QED BY <1>2, <2>1
<1>12. Recorded(fs, f) = SubSeq(p \o rest, 2, pos)
  BY <1>3 DEF Recorded, pos
<1> QED BY <1>2, <1>3, <1>6, <1>8, <1>9, <1>10, <1>11, <1>12 DEF pos

(* What is written is recorded after what was.                             *)
LEMMA WrittenRecorded ==
  ASSUME NEW fs, NEW f, AllRecordings(fs), Open(fs, f), NEW ms \in Seq(Cell)
  PROVE  Recorded(fs, Written(f, ms)) = Recorded(fs, f) \o ms
<1> DEFINE g   == Written(f, ms)
           p   == OnRecord(fs, f)
           q   == OnRecord(fs, g)
           pos == f.pos
           n   == Len(ms)
           u   == Len(f.unsaved)
           at  == pos - u
           kept == SubSeq(fs[f.name], 1, at)
<1>1. Open(fs, g) /\ g.name = f.name
  BY WrittenOpen
<1>2. g.pos = pos + n /\ g.unsaved = f.unsaved \o ms
  BY DEF Open, Written
<1>3. f.unsaved \in Seq(Cell) /\ pos \in Nat /\ n \in Nat /\ u \in Nat /\ u < pos
  BY DEF Open
<1>4. kept \in Seq(Cell)
  <2>1. fs[f.name] \in Seq(Cell)
    BY DEF AllRecordings, IsRecording, Open
  <2>2. at \in Nat /\ 1 <= at /\ at <= Len(fs[f.name])
    <3> DEFINE l == Len(fs[f.name])
    <3>1. pos <= l + u /\ l \in Nat
      BY <2>1 DEF Open
    <3>2. at = pos - u
      OBVIOUS
    <3> HIDE DEF l, u, pos, at
    <3>3. at \in Nat /\ 1 <= at /\ at <= l
      BY <1>3, <3>1, <3>2
    <3> QED BY <3>3 DEF l
  <2> HIDE DEF at
  <2> QED BY <2>1, <2>2, Slice
<1>5. g.pos - Len(g.unsaved) = at
  <2>1. Len(g.unsaved) = u + n
    BY <1>2, <1>3, ConcatProperties
  <2> HIDE DEF g, n, u, pos
  <2> QED BY <1>2, <1>3, <2>1
<1>6. q = p \o ms
  <2>1. q = kept \o (f.unsaved \o ms)
    BY <1>1, <1>2, <1>5 DEF OnRecord
  <2>2. p = kept \o f.unsaved
    BY DEF OnRecord
  <2> HIDE DEF kept
  <2>3. (kept \o f.unsaved) \o ms = kept \o (f.unsaved \o ms)
    <3> DEFINE uns == f.unsaved
    <3>1. uns \in Seq(Cell)
      BY <1>3
    <3> HIDE DEF uns
    <3>2. (kept \o uns) \o ms = kept \o (uns \o ms)
      BY <1>4, <3>1, ConcatAssociative
    <3> QED BY <3>2 DEF uns
  <2> HIDE DEF p, q
  <2> QED BY <2>1, <2>2, <2>3
<1> HIDE DEF kept, at
<1>7. /\ p \in Seq(Cell) /\ Len(p) = pos /\ pos >= 1
      /\ Recorded(fs, f) = SubSeq(p, 2, pos)
  BY RecordedIs
<1>8. Recorded(fs, g) = SubSeq(q, 2, pos + n)
  BY <1>1, <1>2, RecordedIs
<1> HIDE DEF p, q, g
<1>9. SubSeq(p \o ms, 2, Len(p) + Len(ms)) = SubSeq(p, 2, Len(p)) \o ms
  <2>1. 2 <= Len(p) + 1
    BY <1>3, <1>7
  <2>2. p \in Seq(Cell)
    BY <1>7
  <2> HIDE DEF n
  <2> QED BY <2>1, <2>2, SliceAcross
<1> QED BY <1>6, <1>7, <1>8, <1>9 DEF g

(* Flushing does not change what is recorded.                              *)
LEMMA FlushedRecorded ==
  ASSUME NEW fs, NEW f, AllRecordings(fs), Open(fs, f)
  PROVE  Recorded(Flushed(fs, f), [f EXCEPT !.unsaved = << >>]) = Recorded(fs, f)
<1> DEFINE g == [f EXCEPT !.unsaved = << >>]
           gs == Flushed(fs, f)
           p == OnRecord(fs, f)
<1>1. AllRecordings(gs) /\ Open(gs, g)
  BY FlushedIsRecording, FlushedSelfOpen
<1>2. g.pos = f.pos /\ g.unsaved = << >> /\ g.name = f.name
  BY DEF Open
<1>3. gs[f.name] = Seen(fs, f)
  BY DEF Flushed, Open
<1> HIDE DEF g, gs
<1>4. /\ p \in Seq(Cell) /\ Len(p) = f.pos /\ f.pos \in Nat
      /\ SubSeq(Seen(fs, f), 1, f.pos) = p
      /\ Recorded(fs, f) = SubSeq(p, 2, f.pos)
  BY RecordedIs
<1>5. OnRecord(gs, g) = p
  <2>1. Len(<< >>) = 0 /\ f.pos - 0 = f.pos
    BY <1>4
  <2>2. OnRecord(gs, g) = p \o << >>
    BY <1>2, <1>3, <1>4, <2>1 DEF OnRecord
  <2> HIDE DEF p
  <2> QED BY <1>4, <2>2, ConcatEmptySeq
<1> QED BY <1>1, <1>2, <1>4, <1>5, RecordedIs DEF g, gs

(* What happens to other files does not.                                   *)
LEMMA SameFileRecorded ==
  ASSUME NEW fs, NEW gs, NEW f, gs[f.name] = fs[f.name]
  PROVE  Recorded(gs, f) = Recorded(fs, f)
BY DEF Recorded, Seen

(* Flushing a recording changes no other.                                  *)
LEMMA FlushedOther ==
  ASSUME NEW fs, NEW f, NEW g, AllRecordings(fs), Open(fs, f), Open(fs, g), g.name # f.name
  PROVE  Flushed(fs, f)[g.name] = fs[g.name]
<1>1. g.name \in DOMAIN fs \ {f.name}
  BY DEF Open
<1> QED BY <1>1, FlushedIsRecording

(* In a new recording there is nothing.                                    *)
LEMMA NewRecorded == ASSUME NEW fs, NEW name, AllRecordings(fs), Open(fs, openRecording(name))
                     PROVE  Recorded(fs, openRecording(name)) = << >>
<1>1. openRecording(name).pos = 1
  BY DEF openRecording
<1>2. Recorded(fs, openRecording(name)) \in Seq(Cell) /\ Len(Recorded(fs, openRecording(name))) = 0
  BY <1>1, RecordedIs
<1> QED BY <1>2, EmptySeq

----------------------------------------------------------------------------
(* The index.                                                              *)

BlockType ==
  [startOffset : Int, startIndex : Int, count : Nat, endOffset : Int, messages : Seq(Cell)]

(* A block of the messages ms, the first of which has the index first.     *)
BlockOf(b, first, ms) ==
  /\ b \in BlockType
  /\ b.startIndex = first + b.startOffset - 1
  /\ b.endOffset = b.startOffset + b.count
  /\ b.startOffset >= 1 /\ b.endOffset <= Len(ms) + 1
  /\ b.messages \in {<< >>, SubSeq(ms, b.startOffset, b.endOffset - 1)}

(* The blocks lead to each of the messages ms, once and in order.          *)
Covers(bs, first, ms) ==
  /\ bs \in Seq(BlockType) /\ bs # << >>
  /\ bs[1].startOffset = 1
  /\ bs[Len(bs)].endOffset = Len(ms) + 1
  /\ \A i \in 1 .. Len(bs) : BlockOf(bs[i], first, ms)
  /\ \A i \in 2 .. Len(bs) : bs[i].startOffset = bs[i - 1].endOffset

(* An index that has only grown.                                           *)
Grown(bs, cs) ==
  Len(bs) <= Len(cs) /\ \A i \in 1 .. Len(bs) : cs[i].startOffset = bs[i].startOffset

(* The fields of a block.                                                  *)
LEMMA BlockFields ==
  ASSUME NEW b \in BlockType
  PROVE  /\ b.startOffset \in Int /\ b.startIndex \in Int /\ b.count \in Nat /\ b.endOffset \in Int
         /\ b.messages \in Seq(Cell)
BY DEF BlockType

(* The last block, where the messages end.                                 *)
LEMMA LastBlock ==
  ASSUME NEW first \in Int, NEW ms \in Seq(Cell), NEW bs, Covers(bs, first, ms)
  PROVE  /\ Len(bs) \in Nat /\ Len(bs) >= 1 /\ Last(bs) = bs[Len(bs)] /\ DOMAIN bs = 1 .. Len(bs)
         /\ BlockOf(Last(bs), first, ms) /\ Last(bs).endOffset = Len(ms) + 1
         /\ NextIndex(Last(bs)) = first + Len(ms)
         /\ totalMessageCount(bs) = Len(ms)
<1> DEFINE l == Len(bs)
           b == Last(bs)
           n == Len(ms)
<1>1. l \in Nat /\ l >= 1 /\ DOMAIN bs = 1 .. l /\ b = bs[l] /\ n \in Nat
  <2>1. bs \in Seq(BlockType) /\ bs # << >>
    BY DEF Covers
  <2> QED BY <2>1, EmptySeq, LenProperties DEF Last
<1>2. BlockOf(b, first, ms) /\ b.endOffset = n + 1 /\ BlockOf(bs[1], first, ms) /\ bs[1].startOffset = 1
  BY <1>1 DEF Covers
<1>3. b.startIndex + b.count = first + n /\ bs[1].startIndex = first
  <2>1. /\ b.startOffset \in Int /\ b.count \in Nat
        /\ b.startIndex = first + b.startOffset - 1 /\ b.endOffset = b.startOffset + b.count
        /\ bs[1].startIndex = first + 1 - 1
    BY <1>2, BlockFields DEF BlockOf
  <2> HIDE DEF b, n
  <2> QED BY <1>1, <1>2, <2>1
<1>4. totalMessageCount(bs) = n
  <2>1. totalMessageCount(bs) = (b.startIndex + b.count) - bs[1].startIndex
    BY DEF totalMessageCount, NextIndex
  <2> HIDE DEF b, n
  <2> QED BY <1>1, <1>3, <2>1
<1> QED BY <1>1, <1>2, <1>3, <1>4 DEF NextIndex

(* A block stays one when messages are added.                              *)
LEMMA BlockKept ==
  ASSUME NEW first \in Int, NEW ms \in Seq(Cell), NEW q \in Seq(Cell), NEW b, BlockOf(b, first, ms)
  PROVE  BlockOf(b, first, ms \o q)
<1> DEFINE n == Len(ms)
           k == Len(q)
           r == ms \o q
           s == b.startOffset
           e == b.endOffset
<1>1. n \in Nat /\ k \in Nat /\ Len(r) = n + k
  BY ConcatProperties, LenProperties
<1>2. s \in Int /\ e \in Int /\ b.count \in Nat /\ s >= 1 /\ e <= n + 1 /\ e = s + b.count
  BY BlockFields DEF BlockOf
<1>3. SubSeq(r, s, e - 1) = SubSeq(ms, s, e - 1)
  <2> HIDE DEF s, e
  <2>1. s \in Nat /\ e - 1 \in Nat /\ 1 <= s /\ s <= (e - 1) + 1 /\ e - 1 <= Len(ms)
    BY <1>1, <1>2
  <2> QED BY <2>1, SliceOfFirst
<1>4. e <= Len(r) + 1
  <2> HIDE DEF r, n, k, e
  <2> QED BY <1>1, <1>2
<1> HIDE DEF r
<1> QED BY <1>3, <1>4 DEF BlockOf, r

(* One more block, for what has been added.                                *)
LEMMA BlockAppended ==
  ASSUME NEW first \in Int, NEW ms \in Seq(Cell), NEW q \in Seq(Cell), NEW bs, NEW b,
         Covers(bs, first, ms), BlockOf(b, first, ms \o q),
         b.startOffset = Len(ms) + 1, b.endOffset = Len(ms \o q) + 1
  PROVE  Covers(Append(bs, b), first, ms \o q) /\ Grown(bs, Append(bs, b))
<1> DEFINE l  == Len(bs)
           cs == Append(bs, b)
           r  == ms \o q
<1>1. l \in Nat /\ l >= 1 /\ bs \in Seq(BlockType) /\ bs[l].endOffset = Len(ms) + 1 /\ b \in BlockType
  BY LastBlock DEF Covers, BlockOf
<1>2. /\ cs \in Seq(BlockType) /\ Len(cs) = l + 1 /\ cs[l + 1] = b
      /\ \A i \in 1 .. l : cs[i] = bs[i]
  BY <1>1, AppendProperties
<1> HIDE DEF cs
<1>3. cs # << >>
  BY <1>1, <1>2, EmptySeq
<1>4. \A i \in 1 .. l : BlockOf(bs[i], first, r)
  BY BlockKept DEF Covers
<1>5. bs[1].startOffset = 1 /\ \A i \in 2 .. l : bs[i].startOffset = bs[i - 1].endOffset
  BY DEF Covers
<1>6. BlockOf(b, first, r) /\ b.startOffset = Len(ms) + 1 /\ b.endOffset = Len(r) + 1
  OBVIOUS
<1> HIDE DEF l, r
<1>7. cs[1].startOffset = 1 /\ cs[Len(cs)].endOffset = Len(r) + 1
  BY <1>1, <1>2, <1>5, <1>6
<1>8. \A i \in 1 .. Len(cs) : BlockOf(cs[i], first, r)
  <2> SUFFICES ASSUME NEW i \in 1 .. Len(cs) PROVE BlockOf(cs[i], first, r)
    OBVIOUS
  <2>1. i \in 1 .. l \/ i = l + 1
    BY <1>1, <1>2
  <2> QED BY <1>2, <1>4, <1>6, <2>1
<1>9. \A i \in 2 .. Len(cs) : cs[i].startOffset = cs[i - 1].endOffset
  <2> SUFFICES ASSUME NEW i \in 2 .. Len(cs) PROVE cs[i].startOffset = cs[i - 1].endOffset
    OBVIOUS
  <2>1. CASE i = l + 1
    <3>1. i - 1 = l /\ l \in 1 .. l
      BY <1>1, <2>1
    <3>2. cs[i] = b /\ cs[i - 1] = bs[l]
      BY <1>2, <2>1, <3>1
    <3> QED BY <1>1, <1>6, <3>2
  <2>2. CASE i \in 2 .. l
    <3>1. i \in 1 .. l /\ i - 1 \in 1 .. l
      BY <1>1, <2>2
    <3> QED BY <1>2, <1>5, <2>2, <3>1
  <2> QED BY <1>1, <1>2, <2>1, <2>2
<1>10. Covers(cs, first, r)
  BY <1>2, <1>3, <1>7, <1>8, <1>9 DEF Covers
<1>11. Grown(bs, cs)
  BY <1>1, <1>2 DEF Grown, l
<1> QED BY <1>10, <1>11 DEF cs, r

(* A greater last block instead, for what has been added.                  *)
LEMMA LastReplaced ==
  ASSUME NEW first \in Int, NEW ms \in Seq(Cell), NEW q \in Seq(Cell), NEW bs, NEW b,
         Covers(bs, first, ms), BlockOf(b, first, ms \o q),
         b.startOffset = Last(bs).startOffset, b.endOffset = Len(ms \o q) + 1
  PROVE  /\ Covers(Extended(bs, b), first, ms \o q) /\ Grown(bs, Extended(bs, b))
         /\ Last(Extended(bs, b)) = b
<1> DEFINE l  == Len(bs)
           cs == Extended(bs, b)
           r  == ms \o q
<1>1. /\ l \in Nat /\ l >= 1 /\ bs \in Seq(BlockType) /\ Last(bs) = bs[l] /\ b \in BlockType
      /\ DOMAIN bs = 1 .. l
  <2>1. bs \in Seq(BlockType) /\ b \in BlockType
    BY DEF Covers, BlockOf
  <2>2. l \in Nat /\ l >= 1 /\ Last(bs) = bs[l] /\ DOMAIN bs = 1 .. l
    BY LastBlock
  <2> QED BY <2>1, <2>2
<1>2. /\ cs \in Seq(BlockType) /\ Len(cs) = l /\ cs[l] = b
      /\ \A i \in 1 .. l : i # l => cs[i] = bs[i]
  <2>1. cs = [bs EXCEPT ![l] = b]
    BY DEF Extended
  <2>2. l \in 1 .. l
    BY <1>1
  <2>3. cs \in Seq(BlockType) /\ Len(cs) = l
    <3> HIDE DEF cs
    <3> QED BY <1>1, <2>1, <2>2, ExceptSeq
  <2>4. cs[l] = b /\ \A i \in 1 .. l : i # l => cs[i] = bs[i]
    BY <1>1, <2>1, <2>2
  <2> QED BY <2>3, <2>4
<1> HIDE DEF cs
<1>3. cs # << >> /\ Last(cs) = b
  <2>1. cs # << >>
    <3>1. Len(cs) = l /\ l >= 1 /\ Len(<< >>) = 0
      BY <1>1, <1>2
    <3> HIDE DEF l
    <3> QED BY <3>1
  <2>2. Last(cs) = cs[Len(cs)]
    BY DEF Last
  <2> QED BY <1>2, <2>1, <2>2
<1>4. \A i \in 1 .. l : BlockOf(bs[i], first, r)
  BY BlockKept DEF Covers
<1>5. bs[1].startOffset = 1 /\ \A i \in 2 .. l : bs[i].startOffset = bs[i - 1].endOffset
  BY DEF Covers
<1>6. BlockOf(b, first, r) /\ b.startOffset = bs[l].startOffset /\ b.endOffset = Len(r) + 1
  BY <1>1
<1> HIDE DEF l, r
<1>7. cs[1].startOffset = 1 /\ cs[Len(cs)].endOffset = Len(r) + 1
  <2>1. 1 \in 1 .. l
    BY <1>1
  <2> QED BY <1>2, <1>5, <1>6, <2>1
<1>8. \A i \in 1 .. Len(cs) : BlockOf(cs[i], first, r)
  BY <1>2, <1>4, <1>6
<1>9. \A i \in 1 .. l : cs[i].startOffset = bs[i].startOffset
  BY <1>2, <1>6
<1>10. \A i \in 2 .. Len(cs) : cs[i].startOffset = cs[i - 1].endOffset
  <2> SUFFICES ASSUME NEW i \in 2 .. Len(cs) PROVE cs[i].startOffset = cs[i - 1].endOffset
    OBVIOUS
  <2>1. i \in 1 .. l /\ i \in 2 .. l /\ i - 1 \in 1 .. l /\ i - 1 # l
    BY <1>1, <1>2
  <2>2. cs[i - 1] = bs[i - 1] /\ cs[i].startOffset = bs[i].startOffset
    BY <1>2, <1>9, <2>1
  <2> QED BY <1>5, <2>1, <2>2
<1>11. Covers(cs, first, r)
  BY <1>2, <1>3, <1>7, <1>8, <1>10 DEF Covers
<1>12. Grown(bs, cs)
  <2>1. l <= Len(cs)
    BY <1>1, <1>2
  <2> QED BY <1>9, <2>1 DEF Grown, l
<1> QED BY <1>3, <1>11, <1>12 DEF cs, r

LEMMA GrownTwice == ASSUME NEW bs, NEW cs, NEW ds, Len(bs) \in Nat, Len(cs) \in Nat, Len(ds) \in Nat,
                           Grown(bs, cs), Grown(cs, ds)
                    PROVE  Grown(bs, ds)
BY DEF Grown

(* A block without messages, where the others end.                         *)
LEMMA EmptyBlock ==
  ASSUME NEW first \in Int, NEW ms \in Seq(Cell)
  PROVE  /\ BlockOf(Block(Len(ms) + 1, first + Len(ms)), first, ms)
         /\ Block(Len(ms) + 1, first + Len(ms)).startOffset = Len(ms) + 1
         /\ Block(Len(ms) + 1, first + Len(ms)).endOffset = Len(ms) + 1
<1> DEFINE n == Len(ms)
           b == Block(n + 1, first + n)
<1>1. n \in Nat
  BY LenProperties
<1> HIDE DEF n
<1>2. << >> \in Seq(Cell)
  OBVIOUS
<1>3. b = [startOffset |-> n + 1, startIndex |-> first + n, count |-> 0, endOffset |-> n + 1,
           messages |-> << >>]
  BY DEF Block
<1> HIDE DEF b
<1>4. b \in BlockType
  BY <1>1, <1>2, <1>3 DEF BlockType
<1>5. /\ b.startIndex = first + b.startOffset - 1 /\ b.endOffset = b.startOffset + b.count
      /\ b.startOffset >= 1 /\ b.endOffset <= n + 1 /\ b.startOffset = n + 1 /\ b.endOffset = n + 1
  BY <1>1, <1>3
<1>6. b.messages = << >>
  BY <1>3
<1> QED BY <1>4, <1>5, <1>6 DEF BlockOf, b, n

LEMMA NewIndex ==
  ASSUME NEW first \in Int
  PROVE  Covers(<<Block(1, first)>>, first, << >>)
<1> DEFINE b == Block(1, first)
<1>1. << >> \in Seq(Cell) /\ Len(<< >>) = 0
  OBVIOUS
<1>2. BlockOf(b, first, << >>) /\ b.startOffset = 1 /\ b.endOffset = 1
  <2>1. 0 + 1 = 1 /\ first + 0 = first
    OBVIOUS
  <2> QED BY <1>1, <2>1, EmptyBlock
<1> HIDE DEF b
<1>3. <<b>> \in Seq(BlockType) /\ <<b>> # << >> /\ Len(<<b>>) = 1 /\ <<b>>[1] = b
  <2>1. b \in BlockType
    BY <1>2 DEF BlockOf
  <2> QED BY <2>1
<1> DEFINE bs == <<b>>
<1> HIDE DEF bs
<1>4. bs \in Seq(BlockType) /\ bs # << >> /\ Len(bs) = 1 /\ bs[1] = b
  BY <1>3 DEF bs
<1>5. 1 .. Len(bs) = {1} /\ 2 .. Len(bs) = {}
  BY <1>4
<1>6. Covers(bs, first, << >>)
  BY <1>1, <1>2, <1>4, <1>5 DEF Covers
<1> QED BY <1>6 DEF bs, b

(* A new block is begun.                                                   *)
LEMMA BlockBegun ==
  ASSUME NEW first \in Int, NEW ms \in Seq(Cell), NEW bs, Covers(bs, first, ms)
  PROVE  LET b  == Block(Last(bs).endOffset, NextIndex(Last(bs)))
         IN Covers(Append(bs, b), first, ms) /\ Grown(bs, Append(bs, b))
<1> DEFINE b == Block(Last(bs).endOffset, NextIndex(Last(bs)))
<1>1. Last(bs).endOffset = Len(ms) + 1 /\ NextIndex(Last(bs)) = first + Len(ms)
  BY LastBlock
<1>2. BlockOf(b, first, ms) /\ b.startOffset = Len(ms) + 1 /\ b.endOffset = Len(ms) + 1
  BY <1>1, EmptyBlock
<1> HIDE DEF b
<1>3. << >> \in Seq(Cell) /\ ms \o << >> = ms
  BY ConcatEmptySeq
<1>4. Covers(Append(bs, b), first, ms \o << >>) /\ Grown(bs, Append(bs, b))
  BY <1>2, <1>3, BlockAppended
<1> QED BY <1>3, <1>4 DEF b

(* When an image begins, a new block does, unless one just has.            *)
LEMMA LastClosed ==
  ASSUME NEW first \in Int, NEW ms \in Seq(Cell), NEW bs, Covers(bs, first, ms)
  PROVE  /\ Covers(closeLastBlock(bs), first, ms) /\ Grown(bs, closeLastBlock(bs))
         /\ Last(closeLastBlock(bs)).startOffset = Len(ms) + 1
<1> DEFINE b  == Block(Last(bs).endOffset, NextIndex(Last(bs)))
           cs == Append(bs, b)
<1>1. /\ Len(bs) \in Nat /\ bs \in Seq(BlockType) /\ Last(bs).endOffset = Len(ms) + 1
      /\ BlockOf(Last(bs), first, ms)
  BY LastBlock DEF Covers
<1>2. CASE Last(bs).count = 0
  <2>1. closeLastBlock(bs) = bs /\ Grown(bs, bs)
    BY <1>1, <1>2 DEF closeLastBlock, Grown
  <2>2. Last(bs).startOffset = Len(ms) + 1
    BY <1>1, <1>2, BlockFields DEF BlockOf
  <2> QED BY <2>1, <2>2
<1>3. CASE Last(bs).count # 0
  <2>1. closeLastBlock(bs) = cs
    BY <1>3 DEF closeLastBlock
  <2>2. Covers(cs, first, ms) /\ Grown(bs, cs)
    BY BlockBegun
  <2>3. b.startOffset = Len(ms) + 1
    BY <1>1 DEF Block
  <2>4. Last(cs) = b
    <3>1. Len(cs) = Len(bs) + 1 /\ cs[Len(bs) + 1] = b
      <4> HIDE DEF b
      <4> QED BY <1>1, AppendProperties
    <3>2. Last(cs) = cs[Len(cs)]
      BY DEF Last
    <3> HIDE DEF cs, b
    <3> QED BY <3>1, <3>2
  <2> QED BY <2>1, <2>2, <2>3, <2>4
<1> QED BY <1>2, <1>3

(* A block with one more message.                                          *)
LEMMA BlockIncremented ==
  ASSUME NEW o \in BlockType, NEW x \in Seq(Cell)
  PROVE  LET b == [[o EXCEPT !.messages = x] EXCEPT !.count = @ + 1, !.endOffset = @ + 1]
         IN /\ b \in BlockType
            /\ b.startOffset = o.startOffset /\ b.startIndex = o.startIndex
            /\ b.count = o.count + 1 /\ b.endOffset = o.endOffset + 1 /\ b.messages = x
<1> DEFINE a == [o EXCEPT !.messages = x]
           b == [a EXCEPT !.count = @ + 1, !.endOffset = @ + 1]
<1>1. /\ a \in BlockType /\ a.messages = x /\ a.startOffset = o.startOffset
      /\ a.startIndex = o.startIndex /\ a.count = o.count /\ a.endOffset = o.endOffset
  BY DEF BlockType
<1> HIDE DEF a
<1>2. a.count + 1 \in Nat /\ a.endOffset + 1 \in Int
  BY <1>1, BlockFields
<1>3. /\ b \in BlockType /\ b.messages = a.messages /\ b.startOffset = a.startOffset
      /\ b.startIndex = a.startIndex /\ b.count = a.count + 1 /\ b.endOffset = a.endOffset + 1
  BY <1>1, <1>2 DEF BlockType
<1> HIDE DEF b
<1> QED BY <1>1, <1>3 DEF b, a

(* With these messages in the last block.                                  *)
WithLast(bs, x) == Extended(bs, [Last(bs) EXCEPT !.messages = x])

(* The last block with one more message, and a new one if it is full.      *)
LEMMA LastIncremented ==
  ASSUME NEW first \in Int, NEW ms \in Seq(Cell), NEW bs, Covers(bs, first, ms), NEW q \in Seq(Cell),
         Len(q) = 1, NEW x \in {<< >>, SubSeq(ms \o q, Last(bs).startOffset, Len(ms) + 1)}
  PROVE  /\ Covers(incrementBlock(WithLast(bs, x)), first, ms \o q)
         /\ Grown(bs, incrementBlock(WithLast(bs, x)))
<1> DEFINE o == Last(bs)
           s == o.startOffset
           a == [o EXCEPT !.messages = x]
           b == [a EXCEPT !.count = @ + 1, !.endOffset = @ + 1]
           c == Extended(bs, b)
           d == Block(b.endOffset, NextIndex(b))
           r == ms \o q
           n == Len(ms)
<1>1. /\ n \in Nat /\ r \in Seq(Cell) /\ Len(r) = n + 1
      /\ BlockOf(o, first, ms) /\ o.endOffset = n + 1
      /\ bs \in Seq(BlockType) /\ DOMAIN bs = 1 .. Len(bs) /\ Len(bs) \in 1 .. Len(bs)
  <2>1. r \in Seq(Cell) /\ Len(r) = n + 1
    BY ConcatProperties
  <2>2. Len(bs) \in Nat /\ Len(bs) >= 1 /\ DOMAIN bs = 1 .. Len(bs) /\ bs \in Seq(BlockType)
    BY LastBlock DEF Covers
  <2> QED BY <2>1, <2>2, LastBlock, LenProperties
<1>2. /\ s \in Int /\ o.startIndex \in Int /\ o.count \in Nat
      /\ o.startIndex = first + s - 1 /\ n + 1 = s + o.count
      /\ s >= 1
  BY <1>1, BlockFields DEF BlockOf
<1>3. x \in Seq(Cell) /\ x \in {<< >>, SubSeq(r, s, n + 1)}
  <2>1. << >> \in Seq(Cell)
    OBVIOUS
  <2>2. s \in Nat /\ n + 1 \in Nat /\ 1 <= s /\ s <= n + 1 + 1 /\ n + 1 <= Len(r)
    <3> HIDE DEF n, r, s
    <3> QED BY <1>1, <1>2
  <2>3. SubSeq(r, s, n + 1) \in Seq(Cell)
    <3> HIDE DEF s, n, r
    <3> QED BY <1>1, <2>2, Slice
  <2> QED BY <2>1, <2>3
<1>4. /\ b.startOffset = s /\ b.startIndex = o.startIndex
      /\ b.count = o.count + 1 /\ b.endOffset = o.endOffset + 1 /\ b.messages = x
      /\ b \in BlockType
  <2>1. o \in BlockType
    BY <1>1 DEF BlockOf
  <2> HIDE DEF o
  <2> QED BY <1>3, <2>1, BlockIncremented
<1> HIDE DEF b
<1>5. BlockOf(b, first, r) /\ b.endOffset = Len(r) + 1
  <2> HIDE DEF r, n, o
  <2>1. /\ b.startIndex = first + b.startOffset - 1 /\ b.endOffset = b.startOffset + b.count
        /\ b.startOffset >= 1 /\ b.endOffset <= Len(r) + 1
        /\ b.endOffset = Len(r) + 1 /\ b.endOffset - 1 = n + 1
    <3> DEFINE k == o.count
               i == o.startIndex
               e == o.endOffset
    <3>1. n \in Nat /\ Len(r) = n + 1 /\ e = n + 1
      BY <1>1
    <3>2. s \in Int /\ i \in Int /\ k \in Nat /\ i = first + s - 1 /\ n + 1 = s + k /\ s >= 1
      BY <1>2
    <3>3. b.startOffset = s /\ b.startIndex = i /\ b.count = k + 1 /\ b.endOffset = e + 1
      BY <1>4
    <3> HIDE DEF s, k, i, e
    <3> QED BY <3>1, <3>2, <3>3
  <2>2. b.messages \in {<< >>, SubSeq(r, b.startOffset, b.endOffset - 1)}
    BY <1>3, <1>4, <2>1
  <2> QED BY <1>4, <2>1, <2>2 DEF BlockOf
<1>6. b.startOffset = Last(bs).startOffset
  BY <1>4
<1>7. Covers(c, first, r) /\ Grown(bs, c)
  <2> HIDE DEF n, s, o
  <2> QED BY <1>5, <1>6, LastReplaced
<1>8. incrementBlock(WithLast(bs, x)) \in {c, Append(c, d)}
  <2> DEFINE es == WithLast(bs, x)
             l  == Len(bs)
  <2>1. es = [bs EXCEPT ![l] = a] /\ c = [bs EXCEPT ![l] = b]
    BY DEF WithLast, Extended
  <2> HIDE DEF es, a, c
  <2>2. Len(es) = l /\ es[l] = a
    <3>1. DOMAIN es = 1 .. l /\ l \in Nat /\ es[l] = a
      BY <1>1, <2>1
    <3> QED BY <3>1
  <2>3. Last(es) = a
    BY <2>2 DEF Last
  <2>4. Extended(es, b) = c
    <3>1. Extended(es, b) = [es EXCEPT ![l] = b]
      BY <2>2 DEF Extended
    <3>2. [es EXCEPT ![l] = b] = [bs EXCEPT ![l] = b]
      BY <1>1, <2>1
    <3> QED BY <2>1, <3>1, <3>2
  <2>5. incrementBlock(es) = IF b.endOffset - b.startOffset > MaxBlockSize
                             THEN Append(Extended(es, b), d) ELSE Extended(es, b)
    BY <2>3 DEF incrementBlock, b, d
  <2> HIDE DEF d
  <2> QED BY <2>4, <2>5 DEF es
<1> HIDE DEF c, r
<1>9. Covers(Append(c, d), first, r) /\ Grown(c, Append(c, d))
  <2>1. d = Block(Last(c).endOffset, NextIndex(Last(c)))
    <3>1. Last(c) = b
      <4> HIDE DEF n, s, o
      <4> QED BY <1>5, <1>6, LastReplaced DEF c, r
    <3> QED BY <3>1
  <2> HIDE DEF d
  <2> QED BY <1>1, <1>7, <2>1, BlockBegun
<1>10. Grown(bs, Append(c, d))
  <2>1. Len(bs) \in Nat /\ c \in Seq(BlockType) /\ Append(c, d) \in Seq(BlockType)
    BY <1>1, <1>7, <1>9, LenProperties DEF Covers
  <2>2. Len(c) \in Nat /\ Len(Append(c, d)) \in Nat
    BY <2>1, LenProperties
  <2> HIDE DEF d
  <2> QED BY <1>7, <1>9, <2>1, <2>2, GrownTwice
<1> HIDE DEF d
<1> QED BY <1>7, <1>8, <1>9, <1>10 DEF r

(* A message is added to the end of the index.                             *)
LEMMA AddedToLast ==
  ASSUME NEW first \in Int, NEW ms \in Seq(Cell), NEW bs, Covers(bs, first, ms), NEW m \in Cell
  PROVE  Covers(addToLastBlock(bs, m), first, ms \o <<m>>) /\ Grown(bs, addToLastBlock(bs, m))
<1> DEFINE o == Last(bs)
           s == o.startOffset
           n == Len(ms)
           q == <<m>>
           r == ms \o q
           x == Append(o.messages, m)
<1> SUFFICES Covers(addToLastBlock(bs, m), first, r) /\ Grown(bs, addToLastBlock(bs, m))
  OBVIOUS
<1>1. q \in Seq(Cell) /\ Len(q) = 1
  OBVIOUS
<1>2. /\ bs \in Seq(BlockType) /\ Len(bs) \in Nat /\ Len(bs) >= 1 /\ o = bs[Len(bs)]
      /\ DOMAIN bs = 1 .. Len(bs) /\ BlockOf(o, first, ms) /\ o.endOffset = n + 1 /\ n \in Nat
  BY LastBlock, LenProperties DEF Covers
<1>3. /\ o \in BlockType /\ o.messages \in {<< >>, SubSeq(ms, s, n)}
      /\ s \in Nat /\ 1 <= s /\ s <= n + 1
  <2>1. /\ o \in BlockType /\ o.endOffset = s + o.count /\ s >= 1
        /\ o.messages \in {<< >>, SubSeq(ms, s, o.endOffset - 1)}
    BY <1>2 DEF BlockOf
  <2>2. o.count \in Nat /\ s \in Int
    BY <2>1, BlockFields
  <2> HIDE DEF s, n
  <2>3. o.endOffset - 1 = n /\ s \in Nat /\ 1 <= s /\ s <= n + 1
    BY <1>2, <2>1, <2>2
  <2> QED BY <2>1, <2>3
<1>4. \A y \in {<< >>, SubSeq(r, s, n + 1)} :
        /\ Covers(incrementBlock(WithLast(bs, y)), first, r)
        /\ Grown(bs, incrementBlock(WithLast(bs, y)))
  <2> HIDE DEF q
  <2> QED BY <1>1, LastIncremented
<1>5. CASE o.messages = << >>
  <2>1. WithLast(bs, << >>) = bs
    <3>1. [o EXCEPT !.messages = << >>] = o
      <4> HIDE DEF o
      <4> QED BY <1>3, <1>5 DEF BlockType
    <3>2. [bs EXCEPT ![Len(bs)] = o] = bs
      BY <1>2
    <3> QED BY <3>1, <3>2 DEF Extended, WithLast
  <2>2. addToLastBlock(bs, m) = incrementBlock(bs)
    BY <1>5 DEF addToLastBlock
  <2> HIDE DEF r
  <2> QED BY <1>4, <2>1, <2>2
<1>6. CASE o.messages # << >>
  <2>1. addToLastBlock(bs, m) = incrementBlock(WithLast(bs, x))
    BY <1>6 DEF addToLastBlock, WithLast
  <2>2. x = SubSeq(r, s, n + 1)
    <3>1. o.messages = SubSeq(ms, s, n)
      BY <1>3, <1>6
    <3> DEFINE t == SubSeq(ms, s, n)
    <3>2. SubSeq(r, s, n + 1) = t \o q
      <4> HIDE DEF q, s
      <4> QED BY <1>1, <1>3, SliceAcross
    <3>3. t \in Seq(Cell)
      <4> HIDE DEF s
      <4> QED BY <1>2, <1>3, Slice
    <3>4. Append(t, m) = t \o q
      <4> HIDE DEF t
      <4> QED BY <3>3, AppendIsConcat
    <3> HIDE DEF t
    <3> QED BY <3>1, <3>2, <3>4 DEF t
  <2> HIDE DEF r, x
  <2> QED BY <1>4, <2>1, <2>2
<1> QED BY <1>5, <1>6

(* An index on the way through messages that are added.                    *)
Adds(g, S, base, ms) ==
  /\ g \in [0 .. Len(ms) -> S]
  /\ g[0] = base /\ g[Len(ms)] = FoldLeft(addToLastBlock, base, ms)
  /\ \A i \in 1 .. Len(ms) : g[i] = addToLastBlock(g[i - 1], ms[i])

LEMMA AddedRuns ==
  ASSUME NEW S, NEW M, NEW base \in S, NEW ms \in Seq(M),
         \A b \in S, m \in M : addToLastBlock(b, m) \in S
  PROVE  \E g : Adds(g, S, base, ms)
<1> DEFINE n == Len(ms)
           F == [p \in S \X (1 .. n) |-> addToLastBlock(p[1], ms[p[2]])]
           Solves(it) ==
             it = [s \in SUBSET (1 .. n) |->
                     IF s = {} THEN base ELSE addToLastBlock(it[s \ {Max(s)}], ms[Max(s)])]
           fold == CHOOSE it : Solves(it)
           g == [i \in 0 .. n |-> fold[1 .. i]]
<1>1. n \in Nat /\ DOMAIN ms = 1 .. n /\ \A i \in 1 .. n : ms[i] \in M
  BY LenProperties, ElementOfSeq
<1>2. FoldLeft(addToLastBlock, base, ms) = fold[1 .. n]
  BY <1>1 DEF FoldLeft, MapThenFoldSet
<1>3. ASSUME NEW b \in S, NEW i \in 1 .. n PROVE F[<<b, i>>] = addToLastBlock(b, ms[i])
  OBVIOUS
<1>4. \E it : Solves(it)
  <2>1. \A b \in S, i \in 1 .. n : F[<<b, i>>] \in S
    BY <1>1, <1>3
  <2> HIDE DEF F, n
  <2>2. PICK it : Iterates(it, n, S, base, F)
    BY <1>1, <2>1, Iteration
  <2>3. ASSUME NEW s \in SUBSET (1 .. n), s # {}
        PROVE  F[<<it[s \ {Max(s)}], Max(s)>>] = addToLastBlock(it[s \ {Max(s)}], ms[Max(s)])
    <3>1. Max(s) \in 1 .. n /\ it[s \ {Max(s)}] \in S
      BY <1>1, <2>2, <2>3, GreatestNumber DEF Iterates
    <3> QED BY <1>3, <3>1
  <2>4. it = [s \in SUBSET (1 .. n) |-> it[s]]
    BY <2>2 DEF Iterates
  <2> QED BY <2>2, <2>3, <2>4 DEF Iterates
<1>5. Solves(fold)
  <2> HIDE DEF Solves
  <2> QED BY <1>4
<1> HIDE DEF fold, F
<1>6. g[0] = base
  <2>1. 1 .. 0 = {} /\ {} \in SUBSET (1 .. n)
    OBVIOUS
  <2> QED BY <1>1, <1>5, <2>1
<1>7. ASSUME NEW i \in 1 .. n PROVE g[i] = addToLastBlock(g[i - 1], ms[i])
  <2>1. /\ 1 .. i \in SUBSET (1 .. n) /\ 1 .. i # {} /\ Max(1 .. i) = i
        /\ (1 .. i) \ {i} = 1 .. (i - 1) /\ i \in 0 .. n /\ i - 1 \in 0 .. n
    BY <1>1, GreatestOfFirst
  <2>2. fold[1 .. i] = addToLastBlock(fold[1 .. (i - 1)], ms[i])
    BY <1>5, <2>1
  <2> QED BY <2>1, <2>2
<1>8. \A i \in 0 .. n : g[i] \in S
  <2>1. \A i \in 1 .. n : g[i - 1] \in S => g[i] \in S
    BY <1>1, <1>7
  <2> HIDE DEF g
  <2> QED BY <1>1, <1>6, <2>1, KeptBySteps
<1>9. g \in [0 .. n -> S] /\ g[n] = FoldLeft(addToLastBlock, base, ms)
  BY <1>1, <1>2, <1>8
<1> QED BY <1>6, <1>7, <1>9 DEF Adds

(* Messages are added to the end of the index.                             *)
LEMMA AllAddedToLast ==
  ASSUME NEW first \in Int, NEW ms \in Seq(Cell), NEW bs, Covers(bs, first, ms), NEW q \in Seq(Cell)
  PROVE  /\ Covers(FoldLeft(addToLastBlock, bs, q), first, ms \o q)
         /\ Grown(bs, FoldLeft(addToLastBlock, bs, q))
<1> DEFINE S == {cs \in Seq(BlockType) : \E t \in Seq(Cell) : Covers(cs, first, t)}
           n == Len(q)
<1>1. bs \in S
  BY DEF Covers
<1>2. \A cs \in S, m \in Cell : addToLastBlock(cs, m) \in S
  <2> SUFFICES ASSUME NEW cs \in S, NEW m \in Cell PROVE addToLastBlock(cs, m) \in S
    OBVIOUS
  <2>1. PICK t \in Seq(Cell) : Covers(cs, first, t)
    OBVIOUS
  <2>2. Covers(addToLastBlock(cs, m), first, t \o <<m>>)
    BY <2>1, AddedToLast
  <2>3. t \o <<m>> \in Seq(Cell) /\ addToLastBlock(cs, m) \in Seq(BlockType)
    BY <2>2 DEF Covers
  <2> QED BY <2>2, <2>3
<1> HIDE DEF S
<1>3. PICK g : Adds(g, S, bs, q)
  BY <1>1, <1>2, AddedRuns
<1> DEFINE T == {i \in 0 .. n : Covers(g[i], first, ms \o SubSeq(q, 1, i)) /\ Grown(bs, g[i])}
<1>4. n \in Nat /\ Len(bs) \in Nat /\ ms \o << >> = ms
  BY LenProperties, ConcatEmptySeq DEF Covers
<1>5. 0 \in T
  <2>1. SubSeq(q, 1, 0) = << >>
    OBVIOUS
  <2>2. Grown(bs, bs)
    BY <1>4 DEF Grown
  <2>3. g[0] = bs
    BY <1>3 DEF Adds
  <2>4. ms \o SubSeq(q, 1, 0) = ms /\ 0 \in 0 .. n
    BY <1>4, <2>1
  <2> QED BY <2>2, <2>3, <2>4
<1>6. ASSUME NEW i \in 1 .. n, i - 1 \in T PROVE i \in T
  <2> DEFINE p == ms \o SubSeq(q, 1, i - 1)
             c == g[i - 1]
             d == g[i]
             m == q[i]
  <2>1. /\ m \in Cell /\ i \in 0 .. n
        /\ SubSeq(q, 1, i - 1) \in Seq(Cell) /\ SubSeq(q, 1, i - 1) \o <<m>> = SubSeq(q, 1, i)
    BY <1>4, OneMore, ElementOfSeq
  <2>2. Covers(c, first, p) /\ Grown(bs, c) /\ d = addToLastBlock(c, m)
    BY <1>3, <1>6 DEF Adds
  <2>3. p \in Seq(Cell)
    BY <2>1
  <2>4. p \o <<m>> = ms \o SubSeq(q, 1, i)
    <3> DEFINE r == SubSeq(q, 1, i - 1)
               o == <<m>>
    <3>1. o \in Seq(Cell) /\ r \in Seq(Cell)
      BY <2>1
    <3> HIDE DEF r, o
    <3>2. (ms \o r) \o o = ms \o (r \o o)
      BY <3>1, CellsJoin
    <3> QED BY <2>1, <3>2 DEF r, o
  <2> HIDE DEF p, c, d, m, T
  <2>5. Covers(d, first, p \o <<m>>) /\ Grown(c, d)
    BY <2>1, <2>2, <2>3, AddedToLast
  <2>6. Grown(bs, d)
    <3>1. Len(c) \in Nat /\ Len(d) \in Nat
      BY <2>2, <2>5, LenProperties DEF Covers
    <3> QED BY <1>4, <2>2, <2>5, <3>1, GrownTwice
  <2> QED BY <2>1, <2>4, <2>5, <2>6 DEF T, d
<1> HIDE DEF T
<1>7. n \in T
  <2>1. \A i \in 1 .. n : i - 1 \in T => i \in T
    BY <1>6
  <2> HIDE DEF n
  <2>2. \A i \in 0 .. n : i \in T
    BY <1>4, <1>5, <2>1, Stepwise
  <2> QED BY <1>4, <2>2
<1>8. SubSeq(q, 1, n) = q
  BY SubSeqFull
<1> QED BY <1>3, <1>7, <1>8 DEF T, Adds

(* An index of which no block has been read.                               *)
Unread(bs) == \A i \in 1 .. Len(bs) : bs[i].messages = << >>

(* A message of the image is added to the end of its index.                *)
LEMMA IncrementedLast ==
  ASSUME NEW first \in Int, NEW ms \in Seq(Cell), NEW bs, Covers(bs, first, ms), Unread(bs),
         NEW m \in Cell
  PROVE  /\ Covers(incrementLastBlock(bs, m), first, ms \o <<m>>)
         /\ Unread(incrementLastBlock(bs, m))
<1> DEFINE l == Len(bs)
           o == Last(bs)
           b == [o EXCEPT !.count = @ + 1, !.endOffset = @ + 1]
           c == Extended(bs, b)
           d == Block(b.endOffset, NextIndex(b))
<1>1. /\ bs \in Seq(BlockType) /\ l \in Nat /\ l >= 1 /\ o = bs[l] /\ DOMAIN bs = 1 .. l
      /\ o \in BlockType
  <2>1. bs \in Seq(BlockType)
    BY DEF Covers
  <2>2. l \in Nat /\ l >= 1 /\ o = bs[l] /\ DOMAIN bs = 1 .. l /\ BlockOf(o, first, ms)
    BY LastBlock
  <2> QED BY <2>1, <2>2 DEF BlockOf
<1>2. o.messages = << >> /\ \A i \in 1 .. l : bs[i].messages = << >>
  BY <1>1 DEF Unread
<1>3. incrementLastBlock(bs, m) = addToLastBlock(bs, m)
  BY <1>2 DEF incrementLastBlock, addToLastBlock
<1>4. Covers(incrementLastBlock(bs, m), first, ms \o <<m>>)
  BY <1>3, AddedToLast
<1>5. b.messages = << >> /\ b \in BlockType
  <2> HIDE DEF o
  <2>1. o.count + 1 \in Nat /\ o.endOffset + 1 \in Int
    BY <1>1, BlockFields
  <2>2. o.messages = << >>
    BY <1>2
  <2> QED BY <1>1, <2>1, <2>2 DEF BlockType
<1>6. d.messages = << >>
  BY DEF Block
<1>7. incrementLastBlock(bs, m) \in {c, Append(c, d)}
  <2> HIDE DEF c, d
  <2> QED BY DEF incrementLastBlock, incrementBlock, c, d
<1> HIDE DEF b, d
<1>8. c \in Seq(BlockType) /\ Len(c) = l /\ Unread(c)
  <2>1. c = [bs EXCEPT ![l] = b]
    BY DEF Extended
  <2>2. l \in 1 .. Len(bs)
    BY <1>1
  <2> HIDE DEF c
  <2>3. c \in Seq(BlockType) /\ Len(c) = Len(bs)
    BY <1>1, <1>5, <2>1, <2>2, ExceptSeq
  <2>4. \A i \in 1 .. l : c[i].messages = << >>
    BY <1>1, <1>2, <1>5, <2>1
  <2> QED BY <2>3, <2>4 DEF Unread
<1> HIDE DEF c
<1>9. Unread(Append(c, d))
  <2> DEFINE e == Append(c, d)
  <2>1. Len(e) = l + 1 /\ e[l + 1] = d /\ \A i \in 1 .. l : e[i] = c[i]
    BY <1>1, <1>8
  <2> HIDE DEF e, l
  <2>2. \A i \in 1 .. Len(e) : i \in 1 .. l \/ i = l + 1
    BY <1>1, <2>1
  <2> QED BY <1>6, <1>8, <2>1, <2>2 DEF Unread, e
<1> QED BY <1>4, <1>7, <1>8, <1>9

(* The index of an image on the way through its messages.                  *)
Increments(g, S, base, ms) ==
  /\ g \in [0 .. Len(ms) -> S]
  /\ g[0] = base /\ g[Len(ms)] = FoldLeft(incrementLastBlock, base, ms)
  /\ \A i \in 1 .. Len(ms) : g[i] = incrementLastBlock(g[i - 1], ms[i])

LEMMA IncrementedRuns ==
  ASSUME NEW S, NEW M, NEW base \in S, NEW ms \in Seq(M),
         \A b \in S, m \in M : incrementLastBlock(b, m) \in S
  PROVE  \E g : Increments(g, S, base, ms)
<1> DEFINE n == Len(ms)
           F == [p \in S \X (1 .. n) |-> incrementLastBlock(p[1], ms[p[2]])]
           Solves(it) ==
             it = [s \in SUBSET (1 .. n) |->
                     IF s = {} THEN base ELSE incrementLastBlock(it[s \ {Max(s)}], ms[Max(s)])]
           fold == CHOOSE it : Solves(it)
           g == [i \in 0 .. n |-> fold[1 .. i]]
<1>1. n \in Nat /\ DOMAIN ms = 1 .. n /\ \A i \in 1 .. n : ms[i] \in M
  BY LenProperties, ElementOfSeq
<1>2. FoldLeft(incrementLastBlock, base, ms) = fold[1 .. n]
  BY <1>1 DEF FoldLeft, MapThenFoldSet
<1>3. ASSUME NEW b \in S, NEW i \in 1 .. n PROVE F[<<b, i>>] = incrementLastBlock(b, ms[i])
  OBVIOUS
<1>4. \E it : Solves(it)
  <2>1. \A b \in S, i \in 1 .. n : F[<<b, i>>] \in S
    BY <1>1, <1>3
  <2> HIDE DEF F, n
  <2>2. PICK it : Iterates(it, n, S, base, F)
    BY <1>1, <2>1, Iteration
  <2>3. ASSUME NEW s \in SUBSET (1 .. n), s # {}
        PROVE  F[<<it[s \ {Max(s)}], Max(s)>>] = incrementLastBlock(it[s \ {Max(s)}], ms[Max(s)])
    <3>1. Max(s) \in 1 .. n /\ it[s \ {Max(s)}] \in S
      BY <1>1, <2>2, <2>3, GreatestNumber DEF Iterates
    <3> QED BY <1>3, <3>1
  <2>4. it = [s \in SUBSET (1 .. n) |-> it[s]]
    BY <2>2 DEF Iterates
  <2> QED BY <2>2, <2>3, <2>4 DEF Iterates
<1>5. Solves(fold)
  <2> HIDE DEF Solves
  <2> QED BY <1>4
<1> HIDE DEF fold, F
<1>6. g[0] = base
  <2>1. 1 .. 0 = {} /\ {} \in SUBSET (1 .. n)
    OBVIOUS
  <2> QED BY <1>1, <1>5, <2>1
<1>7. ASSUME NEW i \in 1 .. n PROVE g[i] = incrementLastBlock(g[i - 1], ms[i])
  <2>1. /\ 1 .. i \in SUBSET (1 .. n) /\ 1 .. i # {} /\ Max(1 .. i) = i
        /\ (1 .. i) \ {i} = 1 .. (i - 1) /\ i \in 0 .. n /\ i - 1 \in 0 .. n
    BY <1>1, GreatestOfFirst
  <2>2. fold[1 .. i] = incrementLastBlock(fold[1 .. (i - 1)], ms[i])
    BY <1>5, <2>1
  <2> QED BY <2>1, <2>2
<1>8. \A i \in 0 .. n : g[i] \in S
  <2>1. \A i \in 1 .. n : g[i - 1] \in S => g[i] \in S
    BY <1>1, <1>7
  <2> HIDE DEF g
  <2> QED BY <1>1, <1>6, <2>1, KeptBySteps
<1>9. g \in [0 .. n -> S] /\ g[n] = FoldLeft(incrementLastBlock, base, ms)
  BY <1>1, <1>2, <1>8
<1> QED BY <1>6, <1>7, <1>9 DEF Increments

(* The index of an image has all its messages.                             *)
LEMMA AllIncremented ==
  ASSUME NEW q \in Seq(Cell)
  PROVE  Covers(Indexed(1, 0, q), 0, q) /\ Unread(Indexed(1, 0, q))
<1> DEFINE S == {cs \in Seq(BlockType) : Unread(cs) /\ \E t \in Seq(Cell) : Covers(cs, 0, t)}
           bs == <<Block(1, 0)>>
           n == Len(q)
<1>1. Covers(bs, 0, << >>) /\ Unread(bs)
  <2>1. Block(1, 0).messages = << >> /\ Len(bs) = 1 /\ bs[1] = Block(1, 0)
    BY DEF Block
  <2> QED BY <2>1, NewIndex DEF Unread
<1>2. bs \in S
  <2>1. << >> \in Seq(Cell)
    OBVIOUS
  <2> QED BY <1>1, <2>1 DEF Covers
<1>3. \A cs \in S, m \in Cell : incrementLastBlock(cs, m) \in S
  <2> SUFFICES ASSUME NEW cs \in S, NEW m \in Cell PROVE incrementLastBlock(cs, m) \in S
    OBVIOUS
  <2>1. PICK t \in Seq(Cell) : Covers(cs, 0, t)
    OBVIOUS
  <2>2. Covers(incrementLastBlock(cs, m), 0, t \o <<m>>) /\ Unread(incrementLastBlock(cs, m))
    BY <2>1, IncrementedLast
  <2>3. t \o <<m>> \in Seq(Cell) /\ incrementLastBlock(cs, m) \in Seq(BlockType)
    BY <2>2 DEF Covers
  <2> QED BY <2>2, <2>3
<1> HIDE DEF S, bs
<1>4. PICK g : Increments(g, S, bs, q)
  BY <1>2, <1>3, IncrementedRuns
<1> DEFINE T == {i \in 0 .. n : Covers(g[i], 0, SubSeq(q, 1, i)) /\ Unread(g[i])}
<1>5. n \in Nat
  BY LenProperties
<1>6. 0 \in T
  <2>1. SubSeq(q, 1, 0) = << >> /\ 0 \in 0 .. n
    BY <1>5
  <2>2. g[0] = bs
    BY <1>4 DEF Increments
  <2> QED BY <1>1, <2>1, <2>2
<1>7. ASSUME NEW i \in 1 .. n, i - 1 \in T PROVE i \in T
  <2> DEFINE p == SubSeq(q, 1, i - 1)
             c == g[i - 1]
             m == q[i]
  <2>1. m \in Cell /\ i \in 0 .. n /\ p \in Seq(Cell) /\ p \o <<m>> = SubSeq(q, 1, i)
    BY <1>5, OneMore, ElementOfSeq
  <2>2. Covers(c, 0, p) /\ Unread(c) /\ g[i] = incrementLastBlock(c, m)
    BY <1>4, <1>7 DEF Increments
  <2> HIDE DEF p, c, m, T
  <2>3. Covers(g[i], 0, p \o <<m>>) /\ Unread(g[i])
    BY <2>1, <2>2, IncrementedLast
  <2> QED BY <2>1, <2>3 DEF T
<1> HIDE DEF T
<1>8. n \in T
  <2>1. \A i \in 1 .. n : i - 1 \in T => i \in T
    BY <1>7
  <2> HIDE DEF n
  <2>2. \A i \in 0 .. n : i \in T
    BY <1>5, <1>6, <2>1, Stepwise
  <2> QED BY <1>5, <2>2
<1>9. SubSeq(q, 1, n) = q
  BY SubSeqFull
<1>10. Indexed(1, 0, q) = g[n]
  BY <1>4 DEF Increments, Indexed, bs
<1> QED BY <1>8, <1>9, <1>10 DEF T

(* A block of which other messages have been read.                         *)
LEMMA BlockReread ==
  ASSUME NEW o \in BlockType, NEW x \in Seq(Cell)
  PROVE  LET a == [o EXCEPT !.messages = x]
         IN /\ a \in BlockType /\ a.messages = x /\ a.startOffset = o.startOffset
            /\ a.startIndex = o.startIndex /\ a.count = o.count /\ a.endOffset = o.endOffset
BY DEF BlockType

(* The same blocks, read or not, d further on in the history.              *)
SameBlock(b, c, d, ms) ==
  /\ c.startIndex = b.startIndex + d /\ c.startOffset = b.startOffset
  /\ c.count = b.count /\ c.endOffset = b.endOffset
  /\ c.messages \in {<< >>, SubSeq(ms, b.startOffset, b.endOffset - 1)}

LEMMA Reread ==
  ASSUME NEW first \in Int, NEW ms \in Seq(Cell), NEW bs, Covers(bs, first, ms), NEW d \in Int,
         NEW f \in Int, f = first + d, NEW cs \in Seq(BlockType), Len(cs) = Len(bs),
         \A i \in 1 .. Len(bs) : SameBlock(bs[i], cs[i], d, ms)
  PROVE  Covers(cs, f, ms) /\ Grown(bs, cs)
<1> DEFINE l == Len(bs)
<1>1. l \in Nat /\ l >= 1 /\ bs \in Seq(BlockType)
  BY LastBlock DEF Covers
<1>2. \A i \in 1 .. l : BlockOf(bs[i], first, ms)
  BY DEF Covers
<1>3. ASSUME NEW i \in 1 .. l PROVE BlockOf(cs[i], f, ms)
  <2> DEFINE b == bs[i]
             c == cs[i]
  <2>1. /\ c.startIndex = b.startIndex + d /\ c.startOffset = b.startOffset
        /\ c.count = b.count /\ c.endOffset = b.endOffset
        /\ c.messages \in {<< >>, SubSeq(ms, b.startOffset, b.endOffset - 1)}
        /\ c \in BlockType
    BY ElementOfSeq DEF SameBlock
  <2>2. BlockOf(b, first, ms) /\ b \in BlockType
    BY <1>2 DEF BlockOf
  <2> HIDE DEF b, c
  <2>3. b.startOffset \in Int /\ b.startIndex = first + b.startOffset - 1
    BY <2>2, BlockFields DEF BlockOf
  <2>4. c.startIndex = f + c.startOffset - 1
    BY <2>1, <2>3
  <2>5. BlockOf(c, f, ms)
    BY <2>1, <2>2, <2>4 DEF BlockOf
  <2> QED BY <2>5 DEF c
<1>4. /\ bs[1].startOffset = 1 /\ bs[l].endOffset = Len(ms) + 1
      /\ \A i \in 2 .. l : bs[i].startOffset = bs[i - 1].endOffset
  BY DEF Covers
<1>5. \A i \in 1 .. l : cs[i].startOffset = bs[i].startOffset /\ cs[i].endOffset = bs[i].endOffset
  BY DEF SameBlock
<1>6. Len(cs) = l
  OBVIOUS
<1> HIDE DEF l
<1>7. cs # << >>
  <2>1. Len(<< >>) = 0
    OBVIOUS
  <2> QED BY <1>1, <1>6, <2>1
<1>8. cs[1].startOffset = 1 /\ cs[l].endOffset = Len(ms) + 1
  <2>1. 1 \in 1 .. l /\ l \in 1 .. l
    BY <1>1
  <2> QED BY <1>4, <1>5, <2>1
<1>9. \A i \in 2 .. l : cs[i].startOffset = cs[i - 1].endOffset
  <2> SUFFICES ASSUME NEW i \in 2 .. l PROVE cs[i].startOffset = cs[i - 1].endOffset
    OBVIOUS
  <2>1. i \in 1 .. l /\ i - 1 \in 1 .. l
    BY <1>1
  <2> QED BY <1>4, <1>5, <2>1
<1>10. Covers(cs, f, ms)
  BY <1>3, <1>6, <1>7, <1>8, <1>9 DEF Covers
<1>11. Grown(bs, cs)
  <2>1. l <= Len(cs)
    BY <1>1, <1>6
  <2> QED BY <1>5, <2>1 DEF Grown, l
<1> QED BY <1>10, <1>11

(* Messages of blocks that have been read are forgotten.                   *)
LEMMA CleanedUp ==
  ASSUME NEW first \in Int, NEW ms \in Seq(Cell), NEW bs, Covers(bs, first, ms), NEW before
  PROVE  Covers(cleanup(bs, before), first, ms) /\ Grown(bs, cleanup(bs, before))
<1> DEFINE cs == cleanup(bs, before)
           l  == Len(bs)
           Old(i) == \A j \in 1 .. i : NextIndex(bs[j]) < before
<1>1. l \in Nat /\ bs \in Seq(BlockType) /\ DOMAIN bs = 1 .. l
  BY LastBlock DEF Covers
<1>2. cs = [i \in 1 .. l |-> IF Old(i) THEN [bs[i] EXCEPT !.messages = << >>] ELSE bs[i]]
  BY <1>1 DEF cleanup
<1> HIDE DEF Old, cs
<1>3. ASSUME NEW i \in 1 .. l
      PROVE  cs[i] \in BlockType /\ SameBlock(bs[i], cs[i], 0, ms)
  <2> DEFINE b == bs[i]
             c == [b EXCEPT !.messages = << >>]
  <2>1. BlockOf(b, first, ms) /\ b \in BlockType
    BY DEF Covers, BlockOf
  <2>2. cs[i] = IF Old(i) THEN c ELSE b
    BY <1>2
  <2>3. b.messages \in {<< >>, SubSeq(ms, b.startOffset, b.endOffset - 1)}
    BY <2>1 DEF BlockOf
  <2> HIDE DEF b
  <2>4. /\ c \in BlockType /\ c.startIndex = b.startIndex /\ c.startOffset = b.startOffset
        /\ c.count = b.count /\ c.endOffset = b.endOffset /\ c.messages = << >>
    <3>1. << >> \in Seq(Cell)
      OBVIOUS
    <3> QED BY <2>1, <3>1, BlockReread
  <2>5. b.startIndex = b.startIndex + 0
    BY <2>1, BlockFields
  <2> HIDE DEF c
  <2> QED BY <2>1, <2>2, <2>3, <2>4, <2>5 DEF b, SameBlock
<1>4. cs \in Seq(BlockType) /\ Len(cs) = l
  <2>1. cs \in [1 .. l -> BlockType]
    BY <1>2, <1>3
  <2> HIDE DEF l
  <2>2. cs \in Seq(BlockType) /\ DOMAIN cs = 1 .. l
    BY <1>1, <2>1, SeqDef
  <2>3. Len(cs) = l
    BY <1>1, <2>2
  <2> QED BY <2>2, <2>3
<1>5. Covers(cs, first, ms) /\ Grown(bs, cs)
  <2>1. 0 \in Int /\ first = first + 0
    OBVIOUS
  <2> QED BY <1>3, <1>4, <2>1, Reread
<1> QED BY <1>5 DEF cs

(* The messages of a block are read.                                       *)
LEMMA BlockLoaded ==
  ASSUME NEW first \in Int, NEW ms \in Seq(Cell), NEW bs, Covers(bs, first, ms),
         NEW k \in 1 .. Len(bs)
  PROVE  LET x  == SubSeq(ms, bs[k].startOffset, bs[k].endOffset - 1)
             cs == [bs EXCEPT ![k].messages = x]
         IN Covers(cs, first, ms) /\ Grown(bs, cs)
<1> DEFINE x  == SubSeq(ms, bs[k].startOffset, bs[k].endOffset - 1)
           o  == bs[k]
           e  == [o EXCEPT !.messages = x]
           cs == [bs EXCEPT ![k] = e]
           l  == Len(bs)
<1>1. l \in Nat /\ bs \in Seq(BlockType) /\ DOMAIN bs = 1 .. l
  BY LastBlock DEF Covers
<1>2. BlockOf(o, first, ms) /\ o \in BlockType
  BY DEF Covers, BlockOf
<1>3. x \in Seq(Cell)
  <2> DEFINE s == o.startOffset
             t == o.endOffset - 1
  <2>1. /\ o.startOffset \in Int /\ o.count \in Nat /\ o.endOffset = o.startOffset + o.count
        /\ o.startOffset >= 1 /\ o.endOffset <= Len(ms) + 1 /\ Len(ms) \in Nat
    BY <1>2, BlockFields, LenProperties DEF BlockOf
  <2>2. s \in Nat /\ t \in Nat /\ 1 <= s /\ s <= t + 1 /\ t <= Len(ms)
    <3> HIDE DEF o
    <3> QED BY <2>1
  <2>3. x = SubSeq(ms, s, t)
    OBVIOUS
  <2> HIDE DEF s, t, x
  <2> QED BY <2>2, <2>3, Slice
<1>4. /\ e \in BlockType /\ e.startIndex = o.startIndex /\ e.startOffset = o.startOffset
      /\ e.count = o.count /\ e.endOffset = o.endOffset /\ e.messages = x
  <2> HIDE DEF o, x
  <2> QED BY <1>2, <1>3, BlockReread
<1>5. [bs EXCEPT ![k].messages = x] = cs
  BY <1>1
<1> HIDE DEF e, x
<1>6. /\ cs \in Seq(BlockType) /\ Len(cs) = l
      /\ \A i \in 1 .. l : cs[i] = IF i = k THEN e ELSE bs[i]
  BY <1>1, <1>4, ExceptSeq
<1> HIDE DEF cs
<1>7. ASSUME NEW i \in 1 .. l
      PROVE  SameBlock(bs[i], cs[i], 0, ms)
  <2> DEFINE b == bs[i]
  <2>1. b \in BlockType /\ b.messages \in {<< >>, SubSeq(ms, b.startOffset, b.endOffset - 1)}
    BY DEF Covers, BlockOf
  <2>2. b.startIndex = b.startIndex + 0
    BY <2>1, BlockFields
  <2>3. CASE i = k
    <3>1. cs[i] = e /\ b = o
      BY <1>6, <2>3
    <3>2. e.messages = SubSeq(ms, b.startOffset, b.endOffset - 1)
      BY <1>4, <2>3 DEF x
    <3>3. cs[i].startIndex = b.startIndex
      BY <1>4, <3>1
    <3> QED BY <1>4, <2>2, <3>1, <3>2, <3>3 DEF SameBlock
  <2>4. CASE i # k
    <3>1. cs[i] = b
      BY <1>6, <2>4
    <3> QED BY <2>1, <2>2, <3>1 DEF SameBlock
  <2> QED BY <2>3, <2>4
<1>8. Covers(cs, first, ms) /\ Grown(bs, cs)
  <2>1. 0 \in Int /\ first = first + 0
    OBVIOUS
  <2> QED BY <1>6, <1>7, <2>1, Reread
<1> QED BY <1>5, <1>8 DEF x

(* The index of an image when it becomes that of the history.              *)
LEMMA Shifted ==
  ASSUME NEW ms \in Seq(Cell), NEW bs, Covers(bs, 0, ms), NEW first \in Int
  PROVE  Covers([i \in DOMAIN bs |-> [bs[i] EXCEPT !.startIndex = @ + first]], first, ms)
<1> DEFINE cs == [i \in DOMAIN bs |-> [bs[i] EXCEPT !.startIndex = @ + first]]
           l  == Len(bs)
<1>1. l \in Nat /\ bs \in Seq(BlockType) /\ DOMAIN bs = 1 .. l
  BY LastBlock DEF Covers
<1>2. ASSUME NEW i \in 1 .. l
      PROVE  cs[i] \in BlockType /\ SameBlock(bs[i], cs[i], first, ms)
  <2> DEFINE b == bs[i]
             c == [b EXCEPT !.startIndex = @ + first]
  <2>1. /\ b \in BlockType /\ b.messages \in {<< >>, SubSeq(ms, b.startOffset, b.endOffset - 1)}
    BY DEF Covers, BlockOf
  <2>2. cs[i] = c
    BY <1>1
  <2> HIDE DEF b
  <2>3. b.startIndex + first \in Int
    BY <2>1, BlockFields
  <2>4. /\ c \in BlockType /\ c.startIndex = b.startIndex + first /\ c.startOffset = b.startOffset
        /\ c.count = b.count /\ c.endOffset = b.endOffset /\ c.messages = b.messages
    BY <2>1, <2>3 DEF BlockType
  <2> HIDE DEF c, cs
  <2> QED BY <2>1, <2>2, <2>4 DEF b, SameBlock
<1>3. cs \in Seq(BlockType) /\ Len(cs) = l
  <2>1. cs \in [1 .. l -> BlockType]
    BY <1>1, <1>2
  <2> HIDE DEF l, cs
  <2>2. cs \in Seq(BlockType) /\ DOMAIN cs = 1 .. l
    BY <1>1, <2>1, SeqDef
  <2>3. Len(cs) = l
    BY <1>1, <2>2
  <2> QED BY <2>2, <2>3
<1> HIDE DEF cs
<1>4. 0 \in Int /\ first = 0 + first
  OBVIOUS
<1>5. Covers(cs, first, ms)
  BY <1>2, <1>3, <1>4, Reread
<1> QED BY <1>5 DEF cs

(* A block is moved to the end of another index, with its messages.        *)
LEMMA BlockMoved ==
  ASSUME NEW first \in Int, NEW ms \in Seq(Cell), NEW to, Covers(to, first, ms),
         NEW old \in Seq(Cell), NEW f \in Int, NEW b, BlockOf(b, f, old)
  PROVE  /\ SubSeq(old, b.startOffset, b.endOffset - 1) \in Seq(Cell)
         /\ Covers(Moved(to, b), first, ms \o SubSeq(old, b.startOffset, b.endOffset - 1))
<1> DEFINE s == b.startOffset
           e == b.endOffset
           h == e - 1
           q == SubSeq(old, s, h)
           r == ms \o q
           n == Len(ms)
           end == Last(to).endOffset
           x == NextIndex(Last(to))
           z == end + b.endOffset - b.startOffset
           c == [b EXCEPT !.startIndex = x, !.startOffset = end, !.endOffset = z]
<1>1. n \in Nat /\ end = n + 1 /\ NextIndex(Last(to)) = first + n
  BY LastBlock, LenProperties
<1>2. /\ b \in BlockType /\ s \in Int /\ e \in Int /\ b.count \in Nat /\ e = s + b.count
      /\ s >= 1 /\ e <= Len(old) + 1 /\ b.messages \in {<< >>, q}
      /\ Len(old) \in Nat
  BY BlockFields, LenProperties DEF BlockOf
<1>3. s \in Nat /\ h \in Nat /\ 1 <= s /\ s <= h + 1 /\ h <= Len(old) /\ h - s + 1 = b.count
  <2> DEFINE k == b.count
             m == Len(old)
  <2>1. /\ s \in Int /\ e \in Int /\ k \in Nat /\ e = s + k /\ s >= 1 /\ e <= m + 1 /\ m \in Nat
        /\ h = e - 1
    BY <1>2
  <2> HIDE DEF s, e, h, k, m
  <2>2. s \in Nat /\ h \in Nat /\ 1 <= s /\ s <= h + 1 /\ h <= m /\ h - s + 1 = k
    BY <2>1
  <2> QED BY <2>2 DEF k, m
<1>4. q \in Seq(Cell) /\ Len(q) = b.count
  <2>1. q \in Seq(Cell) /\ Len(q) = h - s + 1
    <3> HIDE DEF h, s
    <3> QED BY <1>3, Slice
  <2> QED BY <1>3, <2>1
<1> HIDE DEF q
<1>5. /\ c \in BlockType /\ c.startIndex = first + n /\ c.startOffset = n + 1
      /\ c.endOffset = n + 1 + b.count /\ c.count = b.count /\ c.messages = b.messages
  <2>1. x \in Int /\ x = first + n /\ z \in Int /\ z = n + 1 + b.count /\ end \in Int
    <3> HIDE DEF n, end
    <3> QED BY <1>1, <1>2
  <2> HIDE DEF x, z, end
  <2>2. /\ c \in BlockType /\ c.startIndex = x /\ c.startOffset = end
        /\ c.endOffset = z /\ c.count = b.count /\ c.messages = b.messages
    <3>1. b \in BlockType
      BY <1>2
    <3>2. x \in Int /\ z \in Int /\ end \in Int
      BY <2>1
    <3> HIDE DEF s, e, n
    <3> QED BY <3>1, <3>2 DEF BlockType
  <2> QED BY <1>1, <2>1, <2>2
<1>6. Moved(to, b) = Append(to, c)
  BY DEF Moved
<1> HIDE DEF c
<1>7. r \in Seq(Cell) /\ Len(r) = n + b.count
  <2>1. r \in Seq(Cell) /\ Len(r) = n + Len(q)
    BY <1>4, ConcatProperties
  <2> QED BY <1>4, <2>1
<1>8. SubSeq(r, n + 1, n + b.count) = q
  <2>1. 1 \in Nat /\ b.count \in Nat /\ 1 <= b.count + 1 /\ b.count <= Len(q) /\ 1 <= 1
    BY <1>2, <1>4
  <2>2. SubSeq(ms \o q, Len(ms) + 1, Len(ms) + b.count) = SubSeq(q, 1, b.count)
    BY <1>4, <2>1, SliceOfSecond
  <2>3. SubSeq(q, 1, Len(q)) = q
    BY <1>4, SubSeqFull
  <2> QED BY <1>4, <2>2, <2>3
<1>9. BlockOf(c, first, r) /\ c.endOffset = Len(r) + 1
  <2> HIDE DEF n, r
  <2>1. /\ c.startIndex = first + c.startOffset - 1 /\ c.endOffset = c.startOffset + c.count
        /\ c.startOffset >= 1 /\ c.endOffset <= Len(r) + 1 /\ c.endOffset = Len(r) + 1
        /\ c.endOffset - 1 = n + b.count
    <3> DEFINE k == b.count
    <3>1. n \in Nat /\ k \in Nat /\ Len(r) = n + k
      BY <1>1, <1>2, <1>7
    <3>2. /\ c.startIndex = first + n /\ c.startOffset = n + 1
          /\ c.endOffset = n + 1 + k /\ c.count = k
      BY <1>5
    <3> HIDE DEF k
    <3>3. c.endOffset - 1 = n + k
      BY <3>1, <3>2
    <3> QED BY <3>1, <3>2, <3>3 DEF k
  <2>2. c.messages \in {<< >>, SubSeq(r, c.startOffset, c.endOffset - 1)}
    BY <1>2, <1>5, <1>8, <2>1 DEF q
  <2> QED BY <1>5, <2>1, <2>2 DEF BlockOf
<1>10. Covers(Append(to, c), first, r)
  <2>1. c.startOffset = Len(ms) + 1
    BY <1>5
  <2> HIDE DEF n
  <2> QED BY <1>4, <1>9, <2>1, BlockAppended
<1> QED BY <1>4, <1>6, <1>10 DEF q

(* An index on the way through the blocks that are moved to its end.       *)
Moves(g, S, base, ms) ==
  /\ g \in [0 .. Len(ms) -> S]
  /\ g[0] = base /\ g[Len(ms)] = FoldLeft(Moved, base, ms)
  /\ \A i \in 1 .. Len(ms) : g[i] = Moved(g[i - 1], ms[i])

LEMMA MovedRuns ==
  ASSUME NEW S, NEW M, NEW base \in S, NEW ms \in Seq(M),
         \A b \in S, m \in M : Moved(b, m) \in S
  PROVE  \E g : Moves(g, S, base, ms)
<1> DEFINE n == Len(ms)
           F == [p \in S \X (1 .. n) |-> Moved(p[1], ms[p[2]])]
           Solves(it) ==
             it = [s \in SUBSET (1 .. n) |->
                     IF s = {} THEN base ELSE Moved(it[s \ {Max(s)}], ms[Max(s)])]
           fold == CHOOSE it : Solves(it)
           g == [i \in 0 .. n |-> fold[1 .. i]]
<1>1. n \in Nat /\ DOMAIN ms = 1 .. n /\ \A i \in 1 .. n : ms[i] \in M
  BY LenProperties, ElementOfSeq
<1>2. FoldLeft(Moved, base, ms) = fold[1 .. n]
  BY <1>1 DEF FoldLeft, MapThenFoldSet
<1>3. ASSUME NEW b \in S, NEW i \in 1 .. n PROVE F[<<b, i>>] = Moved(b, ms[i])
  OBVIOUS
<1>4. \E it : Solves(it)
  <2>1. \A b \in S, i \in 1 .. n : F[<<b, i>>] \in S
    BY <1>1, <1>3
  <2> HIDE DEF F, n
  <2>2. PICK it : Iterates(it, n, S, base, F)
    BY <1>1, <2>1, Iteration
  <2>3. ASSUME NEW s \in SUBSET (1 .. n), s # {}
        PROVE  F[<<it[s \ {Max(s)}], Max(s)>>] = Moved(it[s \ {Max(s)}], ms[Max(s)])
    <3>1. Max(s) \in 1 .. n /\ it[s \ {Max(s)}] \in S
      BY <1>1, <2>2, <2>3, GreatestNumber DEF Iterates
    <3> QED BY <1>3, <3>1
  <2>4. it = [s \in SUBSET (1 .. n) |-> it[s]]
    BY <2>2 DEF Iterates
  <2> QED BY <2>2, <2>3, <2>4 DEF Iterates
<1>5. Solves(fold)
  <2> HIDE DEF Solves
  <2> QED BY <1>4
<1> HIDE DEF fold, F
<1>6. g[0] = base
  <2>1. 1 .. 0 = {} /\ {} \in SUBSET (1 .. n)
    OBVIOUS
  <2> QED BY <1>1, <1>5, <2>1
<1>7. ASSUME NEW i \in 1 .. n PROVE g[i] = Moved(g[i - 1], ms[i])
  <2>1. /\ 1 .. i \in SUBSET (1 .. n) /\ 1 .. i # {} /\ Max(1 .. i) = i
        /\ (1 .. i) \ {i} = 1 .. (i - 1) /\ i \in 0 .. n /\ i - 1 \in 0 .. n
    BY <1>1, GreatestOfFirst
  <2>2. fold[1 .. i] = Moved(fold[1 .. (i - 1)], ms[i])
    BY <1>5, <2>1
  <2> QED BY <2>1, <2>2
<1>8. \A i \in 0 .. n : g[i] \in S
  <2>1. \A i \in 1 .. n : g[i - 1] \in S => g[i] \in S
    BY <1>1, <1>7
  <2> HIDE DEF g
  <2> QED BY <1>1, <1>6, <2>1, KeptBySteps
<1>9. g \in [0 .. n -> S] /\ g[n] = FoldLeft(Moved, base, ms)
  BY <1>1, <1>2, <1>8
<1> QED BY <1>6, <1>7, <1>9 DEF Moves

(* The places of the blocks.                                               *)
LEMMA BlockBounds ==
  ASSUME NEW first \in Int, NEW ms \in Seq(Cell), NEW bs, Covers(bs, first, ms), NEW i \in 1 .. Len(bs)
  PROVE  /\ bs[i] \in BlockType /\ bs[i].count \in Nat
         /\ bs[i].startOffset \in Nat /\ 1 <= bs[i].startOffset
         /\ bs[i].endOffset \in Nat /\ bs[i].endOffset = bs[i].startOffset + bs[i].count
         /\ bs[i].startOffset <= bs[i].endOffset /\ bs[i].endOffset <= Len(ms) + 1
         /\ bs[i].startIndex = first + bs[i].startOffset - 1
         /\ bs[i].messages \in {<< >>, SubSeq(ms, bs[i].startOffset, bs[i].endOffset - 1)}
<1> DEFINE b == bs[i]
           n == Len(ms)
<1>1. BlockOf(b, first, ms) /\ n \in Nat
  BY LenProperties DEF Covers
<1> HIDE DEF b, n
<1>2. /\ b \in BlockType /\ b.count \in Nat /\ b.startOffset \in Int /\ b.endOffset \in Int
      /\ b.endOffset = b.startOffset + b.count /\ b.startOffset >= 1 /\ b.endOffset <= n + 1
      /\ b.startIndex = first + b.startOffset - 1
      /\ b.messages \in {<< >>, SubSeq(ms, b.startOffset, b.endOffset - 1)}
  BY <1>1, BlockFields DEF BlockOf, n
<1>3. /\ b.startOffset \in Nat /\ 1 <= b.startOffset /\ b.endOffset \in Nat
      /\ b.startOffset <= b.endOffset
  BY <1>2
<1> QED BY <1>2, <1>3 DEF b, n

(* The blocks from k on are moved to the end of another index, with their  *)
(* messages.                                                               *)
LEMMA AllMoved ==
  ASSUME NEW first \in Int, NEW ms \in Seq(Cell), NEW base, Covers(base, first, ms),
         NEW old \in Seq(Cell), NEW f \in Int, NEW bs, Covers(bs, f, old), NEW k \in 1 .. Len(bs)
  PROVE  Covers(FoldLeft(Moved, base, SubSeq(bs, k, Len(bs))), first,
                ms \o SubSeq(old, bs[k].startOffset, Len(old)))
<1> DEFINE S == {cs \in Seq(BlockType) : \E t \in Seq(Cell) : Covers(cs, first, t)}
           M == {b \in BlockType : BlockOf(b, f, old)}
           l == Len(bs)
           run == SubSeq(bs, k, l)
           n == l - k + 1
           p == bs[k].startOffset
           end == [i \in 0 .. n |-> IF i = 0 THEN p ELSE bs[k + i - 1].endOffset]
           Part(i) == SubSeq(old, p, end[i] - 1)
<1>1. /\ l \in Nat /\ bs \in Seq(BlockType) /\ k \in Nat /\ 1 <= k /\ k <= l /\ k <= l + 1
      /\ l <= Len(bs) /\ DOMAIN bs = 1 .. l
  <2>1. l \in Nat /\ bs \in Seq(BlockType) /\ DOMAIN bs = 1 .. l
    BY LastBlock DEF Covers
  <2>2. k \in 1 .. l
    OBVIOUS
  <2>3. k \in Nat /\ 1 <= k /\ k <= l /\ k <= l + 1 /\ l <= l
    <3> HIDE DEF l
    <3> QED BY <2>1, <2>2
  <2> QED BY <2>1, <2>3
<1>2. n \in Nat /\ n >= 1 /\ \A i \in 1 .. n : k + i - 1 \in 1 .. l
  <2> HIDE DEF l
  <2> QED BY <1>1
<1>3. run \in Seq(M) /\ Len(run) = n /\ \A i \in 1 .. n : run[i] = bs[k + i - 1]
  <2>1. \A i \in 1 .. l : bs[i] \in M
    BY DEF Covers, BlockOf
  <2> HIDE DEF M
  <2>2. bs \in [1 .. l -> M]
    <3>1. bs \in [1 .. l -> BlockType]
      BY <1>1
    <3> HIDE DEF l
    <3> QED BY <2>1, <3>1
  <2>3. bs \in Seq(M)
    <3> HIDE DEF l
    <3> QED BY <1>1, <2>2, SeqDef
  <2> QED BY <1>1, <2>3, Slice
<1>4. ASSUME NEW i \in 1 .. n
      PROVE  LET b == bs[k + i - 1]
             IN /\ BlockOf(b, f, old) /\ b.startOffset = end[i - 1] /\ b.endOffset = end[i]
                /\ b.startOffset <= b.endOffset /\ b.endOffset \in Nat /\ b.endOffset >= 1
                /\ b.endOffset <= Len(old) + 1
  <2> DEFINE j == k + i - 1
             b == bs[j]
  <2>1. j \in 1 .. l
    BY <1>2
  <2>2. /\ BlockOf(b, f, old) /\ b.startOffset <= b.endOffset /\ b.endOffset \in Nat
        /\ b.endOffset <= Len(old) + 1 /\ 1 <= b.startOffset /\ b.startOffset \in Nat
    <3> HIDE DEF j
    <3> QED BY <2>1, BlockBounds DEF Covers
  <2>3. i \in 0 .. n /\ i - 1 \in 0 .. n /\ i # 0
    <3> HIDE DEF n
    <3> QED BY <1>2
  <2>4. b.endOffset = end[i]
    BY <2>3
  <2>5. b.startOffset = end[i - 1]
    <3>1. CASE i = 1
      <4>1. j = k /\ i - 1 = 0
        BY <1>1, <3>1
      <4>2. end[0] = p
        BY <2>3, <4>1
      <4> HIDE DEF end
      <4> QED BY <4>1, <4>2
    <3>2. CASE i # 1
      <4>1. j \in 2 .. l /\ i - 1 # 0 /\ k + (i - 1) - 1 = j - 1
        <5> HIDE DEF l
        <5> QED BY <1>1, <2>1, <2>3, <3>2
      <4>2. b.startOffset = bs[j - 1].endOffset
        <5> HIDE DEF j
        <5> QED BY <4>1 DEF Covers
      <4>3. end[i - 1] = bs[k + (i - 1) - 1].endOffset
        BY <2>3, <4>1
      <4> HIDE DEF end, j
      <4> QED BY <4>1, <4>2, <4>3
    <3> QED BY <3>1, <3>2
  <2>6. b.endOffset >= 1
    <3> HIDE DEF b
    <3> QED BY <2>2
  <2> QED BY <2>2, <2>4, <2>5, <2>6
<1>5. p \in Nat /\ 1 <= p /\ p <= Len(old) + 1 /\ Len(old) \in Nat /\ end[0] = p
  <2>1. /\ bs[k].startOffset \in Nat /\ 1 <= bs[k].startOffset /\ bs[k].endOffset \in Nat
        /\ bs[k].startOffset <= bs[k].endOffset /\ bs[k].endOffset <= Len(old) + 1
    BY BlockBounds
  <2>2. Len(old) \in Nat
    BY LenProperties
  <2>3. 0 \in 0 .. n
    <3> HIDE DEF n
    <3> QED BY <1>2
  <2>4. end[0] = p
    BY <2>3
  <2> HIDE DEF end
  <2> QED BY <2>1, <2>2, <2>4
<1>6. end[n] = Len(old) + 1
  <2>1. n \in 0 .. n /\ n # 0
    <3> HIDE DEF n
    <3> QED BY <1>2
  <2>2. k + n - 1 = l
    BY <1>1
  <2>3. end[n] = bs[k + n - 1].endOffset
    <3> HIDE DEF n
    <3> QED BY <2>1
  <2>4. bs[l].endOffset = Len(old) + 1
    BY DEF Covers
  <2> HIDE DEF end, n
  <2> QED BY <2>2, <2>3, <2>4
<1>7. base \in S
  BY DEF Covers
<1>8. \A cs \in S, b \in M : Moved(cs, b) \in S
  <2> SUFFICES ASSUME NEW cs \in S, NEW b \in M PROVE Moved(cs, b) \in S
    OBVIOUS
  <2> DEFINE q == SubSeq(old, b.startOffset, b.endOffset - 1)
  <2>1. PICK t \in Seq(Cell) : Covers(cs, first, t)
    OBVIOUS
  <2>2. BlockOf(b, f, old)
    OBVIOUS
  <2>3. Covers(Moved(cs, b), first, t \o q) /\ q \in Seq(Cell)
    BY <2>1, <2>2, BlockMoved
  <2>4. t \o q \in Seq(Cell) /\ Moved(cs, b) \in Seq(BlockType)
    <3> HIDE DEF q
    <3> QED BY <2>3 DEF Covers
  <2> QED BY <2>3, <2>4
<1> HIDE DEF S, M, run, n, end
<1>9. PICK g : Moves(g, S, base, run)
  BY <1>3, <1>7, <1>8, MovedRuns
<1> HIDE DEF l, p
<1> DEFINE T == {i \in 0 .. n : p <= end[i] /\ Covers(g[i], first, ms \o Part(i))}
<1>10. 0 \in T
  <2>1. Part(0) = << >>
    <3>1. SubSeq(old, p, p - 1) \in Seq(Cell) /\ Len(SubSeq(old, p, p - 1)) = 0
      <4> DEFINE h == p - 1
      <4>1. h \in Nat /\ p <= h + 1 /\ h <= Len(old) /\ h - p + 1 = 0
        BY <1>5
      <4> HIDE DEF h
      <4>2. SubSeq(old, p, h) \in Seq(Cell) /\ Len(SubSeq(old, p, h)) = h - p + 1
        BY <1>5, <4>1, Slice
      <4> QED BY <4>1, <4>2 DEF h
    <3> QED BY <1>5, <3>1, EmptySeq
  <2>2. g[0] = base /\ 0 \in 0 .. n /\ p <= end[0]
    BY <1>2, <1>5, <1>9 DEF Moves
  <2>3. ms \o << >> = ms
    BY ConcatEmptySeq
  <2> QED BY <2>1, <2>2, <2>3
<1>11. ASSUME NEW i \in 1 .. n, i - 1 \in T PROVE i \in T
  <2> DEFINE b == run[i]
             x == Part(i - 1)
             a == end[i - 1]
             e == end[i]
             y == SubSeq(old, b.startOffset, b.endOffset - 1)
             c == g[i - 1]
  <2>1. /\ BlockOf(b, f, old) /\ b.startOffset = a /\ b.endOffset = e
        /\ a <= e /\ e \in Nat /\ e >= 1 /\ e <= Len(old) + 1
    BY <1>3, <1>4
  <2>2. p <= a /\ Covers(c, first, ms \o x) /\ i \in 0 .. n
    BY <1>2, <1>11
  <2>3. g[i] = Moved(c, b)
    BY <1>3, <1>9 DEF Moves
  <2>4. a \in Nat
    BY <2>1, BlockFields, <1>5, <2>2 DEF BlockOf
  <2>5. x \in Seq(Cell) /\ y \in Seq(Cell) /\ x \o y = Part(i)
    <3> DEFINE u == a - 1
               v == e - 1
    <3>1. /\ u \in Nat /\ v \in Nat /\ p <= u + 1 /\ u <= v /\ v <= Len(old) /\ u + 1 = a
          /\ u <= Len(old)
      <4> HIDE DEF a, e
      <4> QED BY <1>5, <2>1, <2>2, <2>4
    <3> HIDE DEF u, v
    <3>2. SubSeq(old, p, u) \o SubSeq(old, u + 1, v) = SubSeq(old, p, v)
      BY <1>5, <3>1, SlicesJoin, SMTT(30)
    <3>3. SubSeq(old, p, u) \in Seq(Cell)
      BY <1>5, <3>1, Slice
    <3>4. y = SubSeq(old, u + 1, v)
      BY <2>1, <3>1 DEF v
    <3>5. y \in Seq(Cell)
      BY <2>1, BlockMoved, <2>2, <3>3 DEF u
    <3> QED BY <3>2, <3>3, <3>4, <3>5 DEF u, v
  <2> HIDE DEF b, a, e, c, T, Part
  <2>6. Covers(Moved(c, b), first, (ms \o x) \o y)
    <3>1. ms \o x \in Seq(Cell)
      <4> HIDE DEF x
      <4> QED BY <2>5
    <3> HIDE DEF x
    <3> QED BY <2>1, <2>2, <3>1, BlockMoved
  <2>7. (ms \o x) \o y = ms \o (x \o y)
    <3>1. x \in Seq(Cell) /\ y \in Seq(Cell)
      BY <2>5
    <3> HIDE DEF x, y
    <3> QED BY <3>1, CellsJoin
  <2>8. Covers(g[i], first, ms \o Part(i))
    <3> HIDE DEF x, y
    <3> QED BY <2>3, <2>5, <2>6, <2>7
  <2>9. p <= e
    BY <1>5, <2>1, <2>2, <2>4
  <2> QED BY <2>2, <2>8, <2>9 DEF T, e
<1> HIDE DEF T
<1>12. n \in T
  <2>1. \A i \in 1 .. n : i - 1 \in T => i \in T
    BY <1>11
  <2>2. \A i \in 0 .. n : i \in T
    BY <1>2, <1>10, <2>1, Stepwise
  <2> QED BY <1>2, <2>2
<1>13. Part(n) = SubSeq(old, p, Len(old))
  <2>1. end[n] - 1 = Len(old)
    BY <1>5, <1>6
  <2> QED BY <2>1
<1>14. g[n] = FoldLeft(Moved, base, run)
  BY <1>3, <1>9 DEF Moves
<1> QED BY <1>12, <1>13, <1>14 DEF T, run, l, p

----------------------------------------------------------------------------
(* The index of a history: gap messages are still to be written.           *)

Index(fs, h, gap) ==
  LET ms == Recorded(fs, h.recording)
  IN /\ h.firstIndex \in Int
     /\ Covers(h.blocks, h.firstIndex, ms)
     /\ h.lastIndex = h.firstIndex + Len(ms) - 1 + gap

(* The index of the stream sm, and where the messages since its start are. *)
Fork(h, sm) ==
  /\ h.streamBlockIndex \in 1 .. Len(h.blocks)
  /\ h.blocks[h.streamBlockIndex].startOffset = h.forkPos
  /\ sm \in Seq(Cell) /\ Covers(h.streamBlocks, 0, sm) /\ Unread(h.streamBlocks)

Forked(fs, h) ==
  h.resetStreamState # "None" => Fork(h, Recorded(fs, h.streamRecording))

Indexes(fs, h) == Index(fs, h, 0) /\ Forked(fs, h)

(* A history with the same stream.                                         *)
SameStream(h, g) ==
  /\ g.forkPos = h.forkPos /\ g.streamBlockIndex = h.streamBlockIndex
  /\ g.streamBlocks = h.streamBlocks /\ g.resetStreamState = h.resetStreamState

(* The messages of a history and its index.                                *)
LEMMA IndexIs ==
  ASSUME NEW fs, NEW h, AllRecordings(fs), FilesOpen(fs, h), NEW gap, Index(fs, h, gap)
  PROVE  /\ Recorded(fs, h.recording) \in Seq(Cell) /\ Len(Recorded(fs, h.recording)) \in Nat
         /\ Len(Recorded(fs, h.recording)) = h.recording.pos - 1
         /\ h.recording.pos \in Nat /\ h.recording.pos >= 1
         /\ h.firstIndex \in Int /\ Covers(h.blocks, h.firstIndex, Recorded(fs, h.recording))
         /\ Len(h.blocks) \in Nat /\ Len(h.blocks) >= 1
<1>1. Open(fs, h.recording)
  BY DEF FilesOpen
<1>2. /\ Recorded(fs, h.recording) \in Seq(Cell)
      /\ Len(Recorded(fs, h.recording)) = h.recording.pos - 1
      /\ h.recording.pos \in Nat /\ h.recording.pos >= 1
  BY <1>1, RecordedIs
<1> DEFINE ms == Recorded(fs, h.recording)
<1>3. h.firstIndex \in Int /\ Covers(h.blocks, h.firstIndex, ms)
  BY DEF Index
<1>4. ms \in Seq(Cell)
  BY <1>2
<1> HIDE DEF ms
<1>5. Len(h.blocks) \in Nat /\ Len(h.blocks) >= 1
  BY <1>3, <1>4, LastBlock
<1>6. Len(ms) \in Nat
  BY <1>4
<1> QED BY <1>2, <1>3, <1>5, <1>6 DEF ms

(* The stream does not mind that the index of the history grows.           *)
LEMMA ForkedKept ==
  ASSUME NEW fs, NEW gs, NEW h, NEW g, Forked(fs, h), SameStream(h, g),
         Len(h.blocks) \in Nat, Len(g.blocks) \in Nat, Grown(h.blocks, g.blocks),
         g.resetStreamState # "None" =>
           Recorded(gs, g.streamRecording) = Recorded(fs, h.streamRecording)
  PROVE  Forked(gs, g)
<1> SUFFICES ASSUME g.resetStreamState # "None"
             PROVE  Fork(g, Recorded(gs, g.streamRecording))
  BY DEF Forked
<1> DEFINE sm == Recorded(fs, h.streamRecording)
<1>1. Fork(h, sm) /\ Recorded(gs, g.streamRecording) = sm
  BY DEF Forked, SameStream
<1> HIDE DEF sm
<1>2. Fork(g, sm)
  BY <1>1 DEF Fork, SameStream, Grown
<1> QED BY <1>1, <1>2

(* Messages are written and put in the index.                              *)
LEMMA HistoryAdded ==
  ASSUME NEW fs, NEW h, AllRecordings(fs), FilesOpen(fs, h), NEW gap, Index(fs, h, gap),
         NEW q \in Seq(Cell), NEW g, g.recording = Written(h.recording, q),
         g.blocks = FoldLeft(addToLastBlock, h.blocks, q), g.firstIndex = h.firstIndex
  PROVE  /\ Recorded(fs, g.recording) = Recorded(fs, h.recording) \o q
         /\ Covers(g.blocks, g.firstIndex, Recorded(fs, g.recording))
         /\ Grown(h.blocks, g.blocks)
         /\ Len(Recorded(fs, g.recording)) = Len(Recorded(fs, h.recording)) + Len(q)
         /\ Len(g.blocks) \in Nat
<1> DEFINE ms == Recorded(fs, h.recording)
<1>1. ms \in Seq(Cell) /\ h.firstIndex \in Int /\ Covers(h.blocks, h.firstIndex, ms)
  BY IndexIs
<1>2. Recorded(fs, g.recording) = ms \o q
  <2>1. Open(fs, h.recording)
    BY DEF FilesOpen
  <2> QED BY <2>1, WrittenRecorded
<1> HIDE DEF ms
<1>3. /\ Covers(FoldLeft(addToLastBlock, h.blocks, q), h.firstIndex, ms \o q)
      /\ Grown(h.blocks, FoldLeft(addToLastBlock, h.blocks, q))
  BY <1>1, AllAddedToLast
<1>4. ms \o q \in Seq(Cell) /\ Len(ms \o q) = Len(ms) + Len(q)
  BY <1>1, ConcatProperties
<1>5. Len(FoldLeft(addToLastBlock, h.blocks, q)) \in Nat
  BY <1>1, <1>3, <1>4, LastBlock
<1> QED BY <1>2, <1>3, <1>4, <1>5 DEF ms

(* A message is added to the history.                                      *)
LEMMA AddInternalIndexes ==
  ASSUME NEW fs, NEW h, AllRecordings(fs), FilesOpen(fs, h), NEW m \in Cell, Indexes(fs, h)
  PROVE  Indexes(fs, AddInternal(h, m))
<1> DEFINE g == AddInternal(h, m)
           k == h.lastIndex
           n == Len(Recorded(fs, h.recording))
           f == h.firstIndex
<1>1. /\ g.recording = Written(h.recording, <<m>>)
      /\ g.blocks = FoldLeft(addToLastBlock, h.blocks, <<m>>)
      /\ g.firstIndex = f /\ g.lastIndex = k + 1
      /\ g.streamRecording = h.streamRecording /\ SameStream(h, g)
  BY DEF AddInternal, historyAdd, SameStream, FilesOpen, Fields
<1>2. <<m>> \in Seq(Cell) /\ Len(<<m>>) = 1
  OBVIOUS
<1>3. Index(fs, h, 0) /\ Forked(fs, h)
  BY DEF Indexes
<1> HIDE DEF g
<1>4. /\ Covers(g.blocks, g.firstIndex, Recorded(fs, g.recording))
      /\ Grown(h.blocks, g.blocks) /\ Len(g.blocks) \in Nat
      /\ Len(Recorded(fs, g.recording)) = n + Len(<<m>>)
  <2> DEFINE q == <<m>>
  <2>1. /\ q \in Seq(Cell) /\ g.recording = Written(h.recording, q)
        /\ g.blocks = FoldLeft(addToLastBlock, h.blocks, q) /\ g.firstIndex = h.firstIndex
        /\ Index(fs, h, 0)
    BY <1>1, <1>2, <1>3
  <2> HIDE DEF q
  <2>2. /\ Covers(g.blocks, g.firstIndex, Recorded(fs, g.recording))
        /\ Grown(h.blocks, g.blocks) /\ Len(g.blocks) \in Nat
        /\ Len(Recorded(fs, g.recording)) = Len(Recorded(fs, h.recording)) + Len(q)
    BY <2>1, HistoryAdded
  <2> QED BY <2>2 DEF q
<1>5. n \in Nat /\ f \in Int /\ Len(h.blocks) \in Nat
  BY <1>3, IndexIs
<1>6. k = f + n - 1 + 0
  BY <1>3 DEF Index
<1>7. g.lastIndex = g.firstIndex + Len(Recorded(fs, g.recording)) - 1 + 0
  <2> HIDE DEF k, n, f
  <2> QED BY <1>1, <1>2, <1>4, <1>5, <1>6
<1>8. Index(fs, g, 0)
  BY <1>1, <1>4, <1>5, <1>7 DEF Index
<1>9. Forked(fs, g)
  BY <1>1, <1>3, <1>4, <1>5, ForkedKept
<1> QED BY <1>8, <1>9 DEF Indexes, g

(* Or refused.                                                             *)
LEMMA AddIndexes ==
  ASSUME NEW fs, NEW h, AllRecordings(fs), FilesOpen(fs, h), NEW m \in Cell, Indexes(fs, h),
         NEW g \in {addMessage(h, m), addToHistory(h, m)}
  PROVE  Indexes(fs, g)
BY AddInternalIndexes DEF addMessage, addToHistory

(* A history with the same messages and the same index.                    *)
LEMMA SameIndexes ==
  ASSUME NEW fs, NEW gs, NEW h, NEW g, AllRecordings(fs), FilesOpen(fs, h), Indexes(fs, h),
         Recorded(gs, g.recording) = Recorded(fs, h.recording),
         g.blocks = h.blocks, g.firstIndex = h.firstIndex, g.lastIndex = h.lastIndex,
         g.resetStreamState # "None" =>
           /\ SameStream(h, g)
           /\ Recorded(gs, g.streamRecording) = Recorded(fs, h.streamRecording)
  PROVE  Indexes(gs, g)
<1>1. Index(fs, h, 0) /\ Forked(fs, h)
  BY DEF Indexes
<1>2. Index(gs, g, 0)
  BY <1>1 DEF Index
<1>3. Len(h.blocks) \in Nat /\ Len(g.blocks) \in Nat /\ Grown(h.blocks, g.blocks)
  <2>1. Len(h.blocks) \in Nat
    BY <1>1, IndexIs
  <2> QED BY <2>1 DEF Grown
<1>4. Forked(gs, g)
  <2>1. CASE g.resetStreamState = "None"
    BY <2>1 DEF Forked
  <2>2. CASE g.resetStreamState # "None"
    BY <1>1, <1>3, <2>2, ForkedKept
  <2> QED BY <2>1, <2>2
<1> QED BY <1>2, <1>4 DEF Indexes

(* Aborting a streamed reset removes a file that is not the recording.     *)
LEMMA AbortIndexes ==
  ASSUME NEW fs, NEW h, NEW c, AllRecordings(fs), FilesOpen(fs, h), Indexes(fs, h)
  PROVE  Indexes(filesAfterAbort(fs, h, c), AbortedBy(h, c))
<1> DEFINE gs == filesAfterAbort(fs, h, c)
           g  == AbortedBy(h, c)
<1>1. CASE ~StreamedResetBy(h, c)
  BY <1>1 DEF filesAfterAbort, AbortedBy
<1>2. CASE StreamedResetBy(h, c)
  <2>1. /\ g.recording = h.recording /\ g.blocks = h.blocks /\ g.firstIndex = h.firstIndex
        /\ g.lastIndex = h.lastIndex /\ g.resetStreamState = "None"
    BY <1>2 DEF AbortedBy, Discarded, FilesOpen, Fields
  <2>2. gs[h.recording.name] = fs[h.recording.name]
    BY <1>2 DEF filesAfterAbort, discardFile, Without, FilesOpen, Open
  <2>3. Recorded(gs, g.recording) = Recorded(fs, h.recording)
    BY <2>1, <2>2, SameFileRecorded
  <2> HIDE DEF g, gs
  <2>4. Indexes(gs, g)
    BY <2>1, <2>3, SameIndexes
  <2> QED BY <2>4 DEF g, gs
<1> QED BY <1>1, <1>2

(* The messages of a join and of a leave.                                  *)
LEMMA WithJoinIndexes ==
  ASSUME NEW fs, NEW h, AllRecordings(fs), FilesOpen(fs, h), NEW id \in Clients, Indexes(fs, h)
  PROVE  Indexes(fs, WithJoin(h, id))
<1> DEFINE g == addMessage(h, CaughtUpMsg)
<1>1. CaughtUpMsg \in Cell /\ JoinMsg(id) \in Cell
  BY MessageTypes
<1>2. FilesOpen(fs, g) /\ Indexes(fs, g)
  BY <1>1, AddOpen, AddIndexes
<1> HIDE DEF g
<1>3. Indexes(fs, addToHistory(g, JoinMsg(id)))
  BY <1>1, <1>2, AddIndexes
<1> QED BY <1>3 DEF WithJoin, g

LEMMA WithLeaveIndexes ==
  ASSUME NEW fs, NEW h, AllRecordings(fs), FilesOpen(fs, h), NEW id \in Clients,
         NEW op, NEW others, Indexes(fs, h)
  PROVE  Indexes(filesAfterAbort(fs, h, id), WithLeave(h, id, op, others))
<1> DEFINE gs   == filesAfterAbort(fs, h, id)
           a    == AbortedBy(h, id)
           left == addToHistory(a, LeaveMsg(id))
<1>1. AllRecordings(gs) /\ FilesOpen(gs, a) /\ Indexes(gs, a)
  BY AbortOpen, AbortIndexes
<1> HIDE DEF a, gs
<1>2. LeaveMsg(id) \in Cell /\ OwnerMsg(0) \in Cell
  BY MessageTypes
<1>3. FilesOpen(gs, left) /\ Indexes(gs, left)
  BY <1>1, <1>2, AddOpen, AddIndexes
<1> HIDE DEF left
<1>4. Indexes(gs, addToHistory(left, OwnerMsg(0)))
  BY <1>1, <1>2, <1>3, AddIndexes
<1>5. WithLeave(h, id, op, others) \in {left, addToHistory(left, OwnerMsg(0))}
  BY DEF WithLeave, left, a
<1> QED BY <1>3, <1>4, <1>5 DEF gs

(* A part of the image is written and put in the index of the stream.      *)
LEMMA WithImageIndexes ==
  ASSUME NEW fs, NEW h, AllRecordings(fs), FilesOpen(fs, h), NEW m \in Cell, Indexes(fs, h),
         h.resetStreamState # "None"
  PROVE  Indexes(fs, WithImage(h, m))
<1> DEFINE g  == WithImage(h, m)
           sm == Recorded(fs, h.streamRecording)
<1>1. /\ g.recording = h.recording /\ g.streamRecording = Written(h.streamRecording, <<m>>)
      /\ g.blocks = h.blocks /\ g.firstIndex = h.firstIndex /\ g.lastIndex = h.lastIndex
      /\ g.forkPos = h.forkPos /\ g.streamBlockIndex = h.streamBlockIndex
      /\ g.streamBlocks = incrementLastBlock(h.streamBlocks, m)
  BY DEF WithImage, FilesOpen, Fields
<1> HIDE DEF g
<1>2. Index(fs, h, 0) /\ Fork(h, sm)
  BY DEF Indexes, Forked
<1>3. Index(fs, g, 0)
  BY <1>1, <1>2 DEF Index
<1>4. Recorded(fs, g.streamRecording) = sm \o <<m>>
  <2>1. Open(fs, h.streamRecording) /\ <<m>> \in Seq(Cell)
    BY DEF FilesOpen
  <2> DEFINE f == h.streamRecording
  <2>2. Open(fs, f)
    BY <2>1
  <2> HIDE DEF f
  <2>3. Recorded(fs, Written(f, <<m>>)) = Recorded(fs, f) \o <<m>>
    BY <2>1, <2>2, WrittenRecorded
  <2> QED BY <1>1, <2>3 DEF f
<1> HIDE DEF sm
<1>5. sm \o <<m>> \in Seq(Cell)
  BY <1>2, ConcatProperties DEF Fork
<1>6. /\ Covers(incrementLastBlock(h.streamBlocks, m), 0, sm \o <<m>>)
      /\ Unread(incrementLastBlock(h.streamBlocks, m))
  <2>1. 0 \in Int /\ sm \in Seq(Cell) /\ Covers(h.streamBlocks, 0, sm) /\ Unread(h.streamBlocks)
    BY <1>2 DEF Fork
  <2> QED BY <2>1, IncrementedLast
<1>7. Fork(g, sm \o <<m>>)
  BY <1>1, <1>2, <1>5, <1>6 DEF Fork
<1>8. Forked(fs, g)
  BY <1>4, <1>7 DEF Forked
<1> QED BY <1>3, <1>8 DEF Indexes, g

----------------------------------------------------------------------------
(* The steps of the session.                                               *)

(* What has been added since the stream was started.                       *)
Since(fs, h) == LET ms == Recorded(fs, h.recording) IN SubSeq(ms, h.forkPos, Len(ms))

(* It is in the recording of the stream, but not yet in its index.         *)
CopiedFork(fs, h) ==
  \E sm \in Seq(Cell) : Fork(h, sm) /\ Recorded(fs, h.streamRecording) = sm \o Since(fs, h)

(* At every step of a reset the blocks lead to what is recorded.           *)
IndexInv ==
  server = "up" =>
    /\ Index(files, fh, IF InReset THEN Len(call.messages) ELSE 0)
    /\ InReset => fh.resetStreamState = "None"
    /\ call.at = "none" => Forked(files, fh)
    /\ call.at \in {"copied", "journalled"} => CopiedFork(files, fh)

LEMMA ReadyIndexes ==
  ASSUME RecoverableInv, IndexInv, Ready
  PROVE  AllRecordings(files) /\ FilesOpen(files, fh) /\ Indexes(files, fh)
BY DEF RecoverableInv, IndexInv, Ready, Indexes, InReset

LEMMA QuietIndex ==
  ASSUME Ready, Indexes(files', fh'), UNCHANGED <<call, server>>
  PROVE  IndexInv'
BY DEF IndexInv, Ready, Indexes, InReset

LEMMA JoinIndex ==
  ASSUME RecoverableInv, IndexInv, NEW name \in Names, NEW id \in Clients, Join(name, id)
  PROVE  IndexInv'
<1> DEFINE h == WithJoin(fh, id)
<1>1. Ready /\ files' = files /\ UNCHANGED <<call, server>>
  BY DEF Join
<1>2. AllRecordings(files) /\ FilesOpen(files, fh) /\ Indexes(files, fh)
  BY <1>1, ReadyIndexes
<1>3. FilesOpen(files, h) /\ Indexes(files, h)
  BY <1>2, WithJoinOpen, WithJoinIndexes
<1>4. fh' \in {h, addToHistory(h, OwnerMsg(0))}
  BY DEF Join
<1> HIDE DEF h
<1>5. Indexes(files, addToHistory(h, OwnerMsg(0)))
  BY <1>2, <1>3, AddIndexes, MessageTypes
<1> QED BY <1>1, <1>3, <1>4, <1>5, QuietIndex

LEMMA RejoinIndex ==
  ASSUME RecoverableInv, IndexInv, NEW i \in DOMAIN clients, Rejoin(i)
  PROVE  IndexInv'
<1> DEFINE id == clients[i].id
           rejoined == Append(Others(i), clients[i])
           h  == WithLeave(fh, id, i = 1, rejoined)
           gs == filesAfterAbort(files, fh, id)
<1>1. /\ Ready /\ UNCHANGED <<call, server>>
      /\ files' = gs /\ fh' = WithJoin(h, id)
  BY DEF Rejoin
<1>2. AllRecordings(files) /\ FilesOpen(files, fh) /\ Indexes(files, fh) /\ id \in Clients
  BY <1>1, ReadyIndexes, OthersType DEF RecoverableInv, ClientsType
<1>3. AllRecordings(gs) /\ FilesOpen(gs, h) /\ Indexes(gs, h)
  BY <1>2, WithLeaveOpen, WithLeaveIndexes
<1> HIDE DEF id, rejoined, h, gs
<1>4. Indexes(gs, fh')
  BY <1>1, <1>2, <1>3, WithJoinIndexes
<1> QED BY <1>1, <1>4, QuietIndex

LEMMA RemoveUserIndex ==
  ASSUME RecoverableInv, IndexInv, NEW i \in DOMAIN clients, removeUser(i)
  PROVE  IndexInv'
<1> DEFINE id == clients[i].id
<1>1. /\ Ready /\ UNCHANGED <<call, server>>
      /\ files' = filesAfterAbort(files, fh, id)
      /\ fh' = WithLeave(fh, id, i = 1, Others(i))
  BY DEF removeUser
<1>2. AllRecordings(files) /\ FilesOpen(files, fh) /\ Indexes(files, fh) /\ id \in Clients
  BY <1>1, ReadyIndexes, OthersType DEF RecoverableInv, ClientsType
<1> HIDE DEF id
<1>3. Indexes(files', fh')
  BY <1>1, <1>2, WithLeaveIndexes
<1> QED BY <1>1, <1>3, QuietIndex

LEMMA DrawIndex ==
  ASSUME RecoverableInv, IndexInv, NEW id \in Clients, Draw(id)
  PROVE  IndexInv'
<1>1. Ready /\ files' = files /\ UNCHANGED <<call, server>>
  BY DEF Draw
<1>2. AllRecordings(files) /\ FilesOpen(files, fh) /\ Indexes(files, fh)
  BY <1>1, ReadyIndexes
<1>3. PICK n \in Drawings : fh' = addToHistory(fh, DrawMsg(id, n))
  BY DEF Draw
<1>4. Indexes(files, fh')
  BY <1>2, <1>3, AddIndexes, MessageTypes
<1> QED BY <1>1, <1>4, QuietIndex

LEMMA StreamDataIndex ==
  ASSUME RecoverableInv, IndexInv, NEW id \in Clients, StreamData(id)
  PROVE  IndexInv'
<1> DEFINE g == WithImage(fh, ImageMsg(0))
<1>1. /\ Ready /\ UNCHANGED <<files, call, server>> /\ fh.resetStreamState = "Streaming"
      /\ fh' = [g EXCEPT !.resetStreamSize = @ + 1, !.resetStreamMessageCount = @ + 1]
  BY DEF StreamData, addResetStreamMessage, AddResult
<1>2. AllRecordings(files) /\ FilesOpen(files, fh) /\ Indexes(files, fh)
  BY <1>1, ReadyIndexes
<1>3. FilesOpen(files, g) /\ Indexes(files, g)
  BY <1>1, <1>2, WithImageOpen, WithImageIndexes, MessageTypes
<1> HIDE DEF g
<1>4. /\ fh'.recording = g.recording /\ fh'.streamRecording = g.streamRecording
      /\ fh'.blocks = g.blocks /\ fh'.firstIndex = g.firstIndex /\ fh'.lastIndex = g.lastIndex
      /\ SameStream(g, fh')
  BY <1>1, <1>3 DEF SameStream, FilesOpen, Fields
<1>5. Indexes(files, fh')
  BY <1>2, <1>3, <1>4, SameIndexes
<1> QED BY <1>1, <1>5, QuietIndex

LEMMA StreamAbortIndex ==
  ASSUME RecoverableInv, IndexInv, NEW id \in Clients, StreamAbort(id)
  PROVE  IndexInv'
<1>1. /\ Ready /\ UNCHANGED <<call, server>>
      /\ files' = filesAfterAbort(files, fh, id) /\ fh' = AbortedBy(fh, id)
  BY DEF StreamAbort
<1>2. AllRecordings(files) /\ FilesOpen(files, fh) /\ Indexes(files, fh)
  BY <1>1, ReadyIndexes
<1>3. Indexes(files', fh')
  BY <1>1, <1>2, AbortIndexes
<1> QED BY <1>1, <1>3, QuietIndex

(* The index of a history changes, but leads to the same messages.         *)
LEMMA Reindexed ==
  ASSUME NEW fs, NEW h, NEW g, AllRecordings(fs), FilesOpen(fs, h), Indexes(fs, h),
         g.recording = h.recording, g.streamRecording = h.streamRecording, SameStream(h, g),
         g.firstIndex = h.firstIndex, g.lastIndex = h.lastIndex,
         Covers(g.blocks, h.firstIndex, Recorded(fs, h.recording)), Grown(h.blocks, g.blocks)
  PROVE  Indexes(fs, g)
<1> DEFINE ms == Recorded(fs, h.recording)
<1>1. Index(fs, h, 0) /\ Forked(fs, h)
  BY DEF Indexes
<1>2. ms \in Seq(Cell) /\ h.firstIndex \in Int /\ Len(h.blocks) \in Nat
  BY <1>1, IndexIs
<1>3. Index(fs, g, 0)
  BY <1>1 DEF Index
<1>4. Covers(g.blocks, h.firstIndex, ms)
  OBVIOUS
<1> HIDE DEF ms
<1>5. Len(g.blocks) \in Nat
  BY <1>2, <1>4, LastBlock
<1>6. Forked(fs, g)
  BY <1>1, <1>2, <1>5, ForkedKept
<1> QED BY <1>3, <1>6 DEF Indexes

(* Flushing the recording.                                                 *)
LEMMA FlushedIndexes ==
  ASSUME NEW fs, NEW h, AllRecordings(fs), FilesOpen(fs, h), Indexes(fs, h)
  PROVE  Indexes(Flushed(fs, h.recording), [h EXCEPT !.recording.unsaved = << >>])
<1> DEFINE gs == Flushed(fs, h.recording)
           g  == [h EXCEPT !.recording.unsaved = << >>]
<1>1. Open(fs, h.recording)
  BY DEF FilesOpen
<1>2. /\ g.recording = [h.recording EXCEPT !.unsaved = << >>]
      /\ g.streamRecording = h.streamRecording /\ SameStream(h, g)
      /\ g.blocks = h.blocks /\ g.firstIndex = h.firstIndex /\ g.lastIndex = h.lastIndex
  BY DEF SameStream, FilesOpen, Fields
<1>3. Recorded(gs, g.recording) = Recorded(fs, h.recording)
  BY <1>1, <1>2, FlushedRecorded
<1>4. ASSUME g.resetStreamState # "None"
      PROVE  Recorded(gs, g.streamRecording) = Recorded(fs, h.streamRecording)
  <2>1. /\ Open(fs, h.streamRecording) /\ h.streamRecording.name # h.recording.name
    BY <1>2, <1>4 DEF FilesOpen, SameStream
  <2>2. gs[h.streamRecording.name] = fs[h.streamRecording.name]
    BY <1>1, <2>1, FlushedOther
  <2> QED BY <1>2, <2>2, SameFileRecorded
<1> HIDE DEF g, gs
<1>5. Indexes(gs, g)
  BY <1>2, <1>3, <1>4, SameIndexes
<1> QED BY <1>5 DEF g, gs

LEMMA FlushIndex ==
  ASSUME RecoverableInv, IndexInv, Flush
  PROVE  IndexInv'
<1>1. /\ Ready /\ UNCHANGED <<call, server>>
      /\ files' = Flushed(files, fh.recording)
      /\ fh' = [fh EXCEPT !.recording.unsaved = << >>]
  BY DEF Flush, flushRecording
<1>2. AllRecordings(files) /\ FilesOpen(files, fh) /\ Indexes(files, fh)
  BY <1>1, ReadyIndexes
<1>3. Indexes(files', fh')
  BY <1>1, <1>2, FlushedIndexes
<1> QED BY <1>1, <1>3, QuietIndex

LEMMA CleanUpIndex ==
  ASSUME RecoverableInv, IndexInv, CleanUp
  PROVE  IndexInv'
<1>1. Ready /\ UNCHANGED <<files, call, server>>
  BY DEF CleanUp, cleanupBatches
<1>2. AllRecordings(files) /\ FilesOpen(files, fh) /\ Indexes(files, fh)
  BY <1>1, ReadyIndexes
<1>3. PICK before \in fh.firstIndex .. fh.lastIndex : fh' = [fh EXCEPT !.blocks = cleanup(@, before)]
  BY DEF CleanUp, cleanupBatches
<1>4. /\ fh'.recording = fh.recording /\ fh'.streamRecording = fh.streamRecording
      /\ fh'.blocks = cleanup(fh.blocks, before) /\ SameStream(fh, fh')
      /\ fh'.firstIndex = fh.firstIndex /\ fh'.lastIndex = fh.lastIndex
  BY <1>2, <1>3 DEF SameStream, FilesOpen, Fields
<1> DEFINE ms == Recorded(files, fh.recording)
<1>5. ms \in Seq(Cell) /\ fh.firstIndex \in Int /\ Covers(fh.blocks, fh.firstIndex, ms)
  BY <1>2, IndexIs DEF Indexes
<1> HIDE DEF ms
<1>6. /\ Covers(cleanup(fh.blocks, before), fh.firstIndex, ms)
      /\ Grown(fh.blocks, cleanup(fh.blocks, before))
  BY <1>5, CleanedUp
<1>7. Indexes(files, fh')
  BY <1>2, <1>4, <1>6, Reindexed DEF ms
<1> QED BY <1>1, <1>7, QuietIndex

(* The block that is looked up: its predecessor ends where the message     *)
(* after starts or before, and it goes beyond, unless it is the last.      *)
LEMMA FindBlock ==
  ASSUME NEW first \in Int, NEW ms \in Seq(Cell), NEW bs, Covers(bs, first, ms), NEW after \in Int
  PROVE  LET i == findBlock(bs, after)
         IN /\ i \in 1 .. Len(bs)
            /\ i = 1 \/ NextIndex(bs[i - 1]) - 1 <= after
            /\ i < Len(bs) => NextIndex(bs[i]) - 1 > after
<1> DEFINE l == Len(bs)
           T == {i \in 1 .. l : i = 1 \/ NextIndex(bs[i - 1]) - 1 <= after}
           P(i) == /\ i = 1 \/ NextIndex(bs[i - 1]) - 1 <= after
                   /\ \A j \in (i + 1) .. l : NextIndex(bs[j - 1]) - 1 > after
           x == Max(T)
<1>1. l \in Nat /\ l >= 1 /\ DOMAIN bs = 1 .. l
  BY LastBlock
<1>2. \A i \in 1 .. l : NextIndex(bs[i]) \in Int
  <2> SUFFICES ASSUME NEW i \in 1 .. l PROVE NextIndex(bs[i]) \in Int
    OBVIOUS
  <2>1. /\ bs[i].count \in Nat /\ bs[i].startOffset \in Nat
        /\ bs[i].startIndex = first + bs[i].startOffset - 1
    BY BlockBounds
  <2> QED BY <2>1 DEF NextIndex
<1>3. x \in T /\ \A y \in T : y <= x
  <2>1. 1 \in 1 .. l
    BY <1>1
  <2>2. 1 \in T
    BY <2>1
  <2>3. T \subseteq 1 .. l
    OBVIOUS
  <2> HIDE DEF T
  <2> QED BY <1>1, <2>2, <2>3, GreatestNumber
<1> HIDE DEF x
<1>4. P(x)
  <2>1. ASSUME NEW j \in (x + 1) .. l PROVE NextIndex(bs[j - 1]) - 1 > after
    <3>1. j \in 1 .. l /\ j - 1 \in 1 .. l /\ j # 1 /\ ~(j <= x)
      BY <1>1, <1>3
    <3>2. j \notin T
      BY <1>3, <3>1
    <3>3. ~(NextIndex(bs[j - 1]) - 1 <= after)
      BY <3>1, <3>2
    <3>4. NextIndex(bs[j - 1]) \in Int
      BY <1>2, <3>1
    <3> HIDE DEF T
    <3> QED BY <3>3, <3>4
  <2> QED BY <1>3, <2>1
<1> DEFINE i == findBlock(bs, after)
<1>5. i \in 1 .. l /\ P(i)
  <2>1. i = CHOOSE y \in 1 .. l : P(y)
    BY <1>1 DEF findBlock
  <2>2. x \in 1 .. l
    BY <1>3
  <2> HIDE DEF P, i
  <2> QED BY <1>4, <2>1, <2>2
<1> HIDE DEF i
<1>6. i < l => NextIndex(bs[i]) - 1 > after
  <2> SUFFICES ASSUME i < l PROVE NextIndex(bs[i]) - 1 > after
    OBVIOUS
  <2>1. \A j \in (i + 1) .. l : NextIndex(bs[j - 1]) - 1 > after
    <3> HIDE DEF i, l
    <3> QED BY <1>5
  <2>2. i \in Nat
    BY <1>5
  <2> HIDE DEF i, l
  <2>3. i + 1 \in (i + 1) .. l /\ (i + 1) - 1 = i
    BY <1>1, <2>2
  <2> DEFINE k == i + 1
  <2>4. k \in (i + 1) .. l /\ k - 1 = i
    BY <2>3
  <2>5. NextIndex(bs[k - 1]) - 1 > after
    <3> HIDE DEF k
    <3> QED BY <2>1, <2>4
  <2> HIDE DEF k
  <2> QED BY <2>4, <2>5
<1> QED BY <1>5, <1>6 DEF i

(* What is read of a block is the messages it stands for.                  *)
LEMMA BlockReadIs ==
  ASSUME AllRecordings(files), FilesOpen(files, fh), Index(files, fh, 0), NEW i \in 1 .. Len(fh.blocks)
  PROVE  BlockRead(fh.blocks[i]) =
           SubSeq(Recorded(files, fh.recording), fh.blocks[i].startOffset, fh.blocks[i].endOffset - 1)
<1> DEFINE ms    == Recorded(files, fh.recording)
           cells == Seen(files, fh.recording)
           pos   == fh.recording.pos
           l     == Len(cells)
           b     == fh.blocks[i]
           a     == b.startOffset
           e     == b.endOffset
<1>1. Open(files, fh.recording)
  BY DEF FilesOpen
<1>2. cells \in Seq(Cell) /\ pos <= l /\ l \in Nat
  BY <1>1, SeenIsRecording DEF IsRecording
<1>3. /\ ms \in Seq(Cell) /\ Len(ms) = pos - 1 /\ pos \in Nat /\ pos >= 1
      /\ fh.firstIndex \in Int /\ Covers(fh.blocks, fh.firstIndex, ms)
  BY IndexIs
<1>4. ms = SubSeq(cells, 2, pos)
  BY DEF Recorded
<1> HIDE DEF ms, cells, pos
<1>5. a \in Nat /\ 1 <= a /\ e \in Nat /\ e = a + b.count /\ a <= e /\ e <= Len(ms) + 1
  BY <1>3, BlockBounds
<1> DEFINE n == e - 1
           z == pos
<1>6. n \in Nat /\ a <= n + 1 /\ n <= z - 2 + 1 /\ 2 <= z + 1 /\ z \in Nat /\ z <= l
      /\ 2 + a - 1 = a + 1 /\ 2 + n - 1 = e /\ e <= l
  <2> DEFINE m == Len(ms)
             k == b.count
  <2>1. /\ l \in Nat /\ z \in Nat /\ z <= l /\ z >= 1 /\ m = z - 1
        /\ a \in Nat /\ 1 <= a /\ e \in Nat /\ k \in Nat /\ e = a + k /\ e <= m + 1
        /\ n = e - 1
    <3> HIDE DEF a, e, l, b
    <3>1. l \in Nat /\ z \in Nat /\ z <= l /\ z >= 1 /\ m = z - 1
      BY <1>2, <1>3
    <3>2. a \in Nat /\ 1 <= a /\ e \in Nat /\ e = a + k /\ e <= m + 1
      BY <1>5
    <3>3. k \in Nat
      <4>1. fh.blocks[i].count \in Nat
        BY <1>3, BlockBounds
      <4> QED BY <4>1 DEF b
    <3> QED BY <3>1, <3>2, <3>3
  <2> HIDE DEF a, e, l, n, z, m, k
  <2> QED BY <2>1
<1> HIDE DEF n, z
<1>7. SubSeq(SubSeq(cells, 2, z), a, n) = SubSeq(cells, 2 + a - 1, 2 + n - 1)
  <2> HIDE DEF a
  <2>1. a \in Nat /\ 1 <= a /\ z \in Nat /\ n \in Nat /\ 2 \in Nat /\ 1 <= 2
    BY <1>5, <1>6
  <2>2. z <= Len(cells)
    BY <1>6
  <2> QED BY <1>2, <1>6, <2>1, <2>2, SliceOfSlice
<1>8. BlockRead(b) = SubSeq(cells, a + 1, e)
  <2>1. b.startOffset + b.count = e
    BY <1>5
  <2> HIDE DEF b
  <2> QED BY <1>6, <2>1 DEF BlockRead, cells
<1> QED BY <1>4, <1>6, <1>7, <1>8 DEF n, z, ms

LEMMA FetchIndex ==
  ASSUME RecoverableInv, IndexInv, Fetch
  PROVE  IndexInv'
<1> DEFINE h  == [fh EXCEPT !.recording.unsaved = << >>]
           ms == Recorded(files, fh.recording)
<1>1. Ready
  BY DEF Fetch
<1>2. /\ AllRecordings(files) /\ FilesOpen(files, fh) /\ Indexes(files, fh)
      /\ Index(files, fh, 0)
  BY <1>1, ReadyIndexes DEF Indexes
<1>3. PICK after \in (fh.firstIndex - 1) .. (fh.lastIndex - 1) : getBatch_load(after)
  BY DEF Fetch
<1> DEFINE i == findBlock(fh.blocks, after)
           read == BlockRead(fh.blocks[i])
           cs == [fh.blocks EXCEPT ![i].messages = read]
<1>4. /\ files' = Flushed(files, fh.recording) /\ UNCHANGED <<call, server>>
      /\ fh' = [fh EXCEPT !.recording.unsaved = << >>, !.blocks[i].messages = read]
  BY <1>3 DEF getBatch_load
<1>5. ms \in Seq(Cell) /\ fh.firstIndex \in Int /\ Covers(fh.blocks, fh.firstIndex, ms)
  BY <1>2, IndexIs
<1>6. i \in 1 .. Len(fh.blocks)
  <2> HIDE DEF ms, i
  <2> QED BY <1>5, FindBlock DEF i
<1>7. read = SubSeq(ms, fh.blocks[i].startOffset, fh.blocks[i].endOffset - 1)
  BY <1>2, <1>6, BlockReadIs
<1> HIDE DEF ms, i, read
<1>8. Covers(cs, fh.firstIndex, ms) /\ Grown(fh.blocks, cs)
  BY <1>5, <1>6, <1>7, BlockLoaded
<1>9. AllRecordings(files') /\ FilesOpen(files', h) /\ Indexes(files', h)
  BY <1>2, <1>4, FlushedFilesOpen, FlushedIndexes
<1>10. Recorded(files', h.recording) = ms
  <2>1. h.recording = [fh.recording EXCEPT !.unsaved = << >>] /\ Open(files, fh.recording)
    BY <1>2 DEF FilesOpen, Fields
  <2> QED BY <1>2, <1>4, <2>1, FlushedRecorded DEF ms
<1>11. h.blocks = fh.blocks /\ h.firstIndex = fh.firstIndex
  BY <1>2 DEF FilesOpen, Fields
<1>12. /\ fh'.recording = h.recording /\ fh'.streamRecording = h.streamRecording
       /\ fh'.blocks = cs /\ SameStream(h, fh')
       /\ fh'.firstIndex = h.firstIndex /\ fh'.lastIndex = h.lastIndex
  BY <1>2, <1>4 DEF SameStream, FilesOpen, Fields
<1> HIDE DEF h, cs
<1>13. Indexes(files', fh')
  BY <1>8, <1>9, <1>10, <1>11, <1>12, Reindexed
<1> QED BY <1>1, <1>4, <1>13, QuietIndex

(* A streamed reset is started: the last block is closed where the fork    *)
(* is, and what the server knows is the beginning of the stream.           *)
LEMMA StreamStartIndex ==
  ASSUME RecoverableInv, IndexInv, NEW id \in Clients, StreamStart(id)
  PROVE  IndexInv'
<1> DEFINE h0 == AddInternal(fh, SoftResetMsg)
           h  == AddInternal(h0, StreamStartMsg(id, 0))
           sm == serverSideStateMessages
<1>1. Ready /\ UNCHANGED <<call, server>>
  BY DEF StreamStart, openResetStream
<1>2. AllRecordings(files) /\ FilesOpen(files, fh) /\ Indexes(files, fh)
  BY <1>1, ReadyIndexes
<1>3. FilesOpen(files, h0) /\ Indexes(files, h0)
  BY <1>2, AddInternalOpen, AddInternalIndexes, MessageTypes
<1> HIDE DEF h0
<1>4. FilesOpen(files, h) /\ Indexes(files, h)
  BY <1>2, <1>3, AddInternalOpen, AddInternalIndexes, MessageTypes
<1>5. PICK n \in 0 .. Cardinality(DOMAIN files) :
        LET name == <<h.fileCount + 1, n>>
            bs   == closeLastBlock(h.blocks)
        IN /\ uniqueRecordingFilename(files, h.fileCount + 1, name)
           /\ files' = WithNew(files, name)
           /\ fh' = [h EXCEPT !.fileCount = @ + 1, !.streamFileCount = h.fileCount + 1,
                              !.forkPos = h.recording.pos, !.blocks = bs,
                              !.streamBlockIndex = Len(bs),
                              !.streamBlocks = Indexed(1, 0, sm),
                              !.streamRecording = Written(openRecording(name), sm),
                              !.resetStreamState = "Streaming", !.ctxId = id,
                              !.resetStreamSize = 0, !.resetStreamMessageCount = 0,
                              !.resetStreamStartIndex = h.lastIndex + 1]
  BY DEF StreamStart, openResetStream, h, h0
<1> HIDE DEF h
<1> DEFINE name == <<h.fileCount + 1, n>>
           g    == Written(openRecording(name), sm)
           bs   == closeLastBlock(h.blocks)
           ms   == Recorded(files, h.recording)
<1>6. name \in FileName /\ name \notin DOMAIN files
  BY <1>4, <1>5 DEF FileName, FilesOpen, uniqueRecordingFilename
<1>7. sm \in Seq(Cell)
  BY ServerSideType
<1> HIDE DEF sm
<1>8. /\ files' = WithNew(files, name)
      /\ fh'.recording = h.recording /\ fh'.streamRecording = g
      /\ fh'.firstIndex = h.firstIndex /\ fh'.lastIndex = h.lastIndex
      /\ fh'.blocks = bs /\ fh'.streamBlockIndex = Len(bs) /\ fh'.forkPos = h.recording.pos
      /\ fh'.streamBlocks = Indexed(1, 0, sm)
  BY <1>4, <1>5 DEF FilesOpen, Fields
<1> HIDE DEF name, g
<1>9. AllRecordings(files') /\ Open(files', openRecording(name))
  BY <1>2, <1>6, <1>8, NewOpen
<1>10. Recorded(files', h.recording) = ms
  <2>1. h.recording.name \in DOMAIN files
    BY <1>4 DEF FilesOpen, Open
  <2>2. files'[h.recording.name] = files[h.recording.name]
    BY <1>6, <1>8, <2>1 DEF WithNew
  <2> QED BY <2>2, SameFileRecorded
<1>11. Recorded(files', g) = sm
  <2>1. Recorded(files', g) = Recorded(files', openRecording(name)) \o sm
    BY <1>7, <1>9, WrittenRecorded DEF g
  <2>2. Recorded(files', openRecording(name)) = << >>
    BY <1>9, NewRecorded
  <2>3. << >> \o sm = sm
    BY <1>7, ConcatEmptySeq
  <2> QED BY <2>1, <2>2, <2>3
<1>12. /\ ms \in Seq(Cell) /\ h.firstIndex \in Int /\ Covers(h.blocks, h.firstIndex, ms)
       /\ Len(ms) = h.recording.pos - 1 /\ h.recording.pos \in Nat
  BY <1>2, <1>4, IndexIs DEF Indexes
<1> HIDE DEF ms
<1>13. Covers(bs, h.firstIndex, ms) /\ Last(bs).startOffset = Len(ms) + 1
  BY <1>12, LastClosed
<1> HIDE DEF bs
<1>14. Len(bs) \in Nat /\ Len(bs) >= 1 /\ Last(bs) = bs[Len(bs)]
  BY <1>12, <1>13, LastBlock
<1>15. Index(files', fh', 0)
  <2>1. h.lastIndex = h.firstIndex + Len(ms) - 1 + 0
    BY <1>4 DEF Indexes, Index, ms
  <2> QED BY <1>8, <1>10, <1>12, <1>13, <2>1 DEF Index
<1>16. Fork(fh', sm)
  <2>1. fh'.streamBlockIndex \in 1 .. Len(fh'.blocks)
    BY <1>8, <1>14
  <2>2. fh'.blocks[fh'.streamBlockIndex].startOffset = fh'.forkPos
    <3>1. Len(ms) + 1 = h.recording.pos
      BY <1>12
    <3> QED BY <1>8, <1>13, <1>14, <3>1
  <2>3. Covers(fh'.streamBlocks, 0, sm) /\ Unread(fh'.streamBlocks)
    BY <1>7, <1>8, AllIncremented
  <2> QED BY <1>7, <2>1, <2>2, <2>3 DEF Fork
<1>17. Forked(files', fh')
  BY <1>8, <1>11, <1>16 DEF Forked
<1> QED BY <1>1, <1>15, <1>17, QuietIndex DEF Indexes

(* The stream is complete: its recording is flushed.                       *)
LEMMA StreamFinishIndex ==
  ASSUME RecoverableInv, IndexInv, NEW id \in Clients, StreamFinish(id)
  PROVE  IndexInv'
<1>1. Ready /\ UNCHANGED <<call, server>>
  BY DEF StreamFinish, prepareResetStream
<1>2. AllRecordings(files) /\ FilesOpen(files, fh) /\ Indexes(files, fh)
  BY <1>1, ReadyIndexes
<1>3. CASE PrepareResult(fh, id, 1) = "Ok"
  <2> DEFINE h == WithImage(fh, CaughtUpMsg)
             s == h.streamRecording
             f == [s EXCEPT !.unsaved = << >>]
             r == h.recording
             sm == Recorded(files, s)
  <2>1. /\ fh.resetStreamState = "Streaming"
        /\ files' = Flushed(files, s)
        /\ fh' = [h EXCEPT !.streamRecording.unsaved = << >>,
                           !.resetStreamState = "Prepared", !.ctxId = 0]
    BY <1>3 DEF StreamFinish, prepareResetStream, PrepareResult
  <2>2. FilesOpen(files, h) /\ Indexes(files, h) /\ h.resetStreamState = fh.resetStreamState
    BY <1>2, <2>1, WithImageOpen, WithImageIndexes, MessageTypes
  <2> HIDE DEF h
  <2>3. Open(files, s) /\ Open(files, r) /\ s.name # r.name
    BY <2>1, <2>2 DEF FilesOpen
  <2>4. /\ fh'.recording = r /\ fh'.streamRecording = f /\ fh'.blocks = h.blocks
        /\ fh'.firstIndex = h.firstIndex /\ fh'.lastIndex = h.lastIndex
        /\ fh'.forkPos = h.forkPos /\ fh'.streamBlockIndex = h.streamBlockIndex
        /\ fh'.streamBlocks = h.streamBlocks
    BY <2>1, <2>2 DEF FilesOpen, Fields
  <2>5. Recorded(files', r) = Recorded(files, r)
    <3>1. files'[r.name] = files[r.name]
      BY <1>2, <2>1, <2>3, FlushedOther
    <3> QED BY <3>1, SameFileRecorded
  <2>6. Recorded(files', f) = sm
    BY <1>2, <2>1, <2>3, FlushedRecorded
  <2>7. Fork(h, sm) /\ Index(files, h, 0)
    BY <2>1, <2>2 DEF Indexes, Forked
  <2> HIDE DEF sm, f, s, r
  <2>8. Index(files', fh', 0)
    BY <2>4, <2>5, <2>7 DEF Index, r
  <2>9. Forked(files', fh')
    BY <2>4, <2>6, <2>7 DEF Forked, Fork
  <2> QED BY <1>1, <2>8, <2>9, QuietIndex DEF Indexes
<1>4. CASE PrepareResult(fh, id, 1) = "InvalidMessageCount"
  <2>1. files' = filesAfterAbort(files, fh, -1) /\ fh' = AbortedBy(fh, -1)
    BY <1>4 DEF StreamFinish, prepareResetStream
  <2> QED BY <1>1, <1>2, <2>1, AbortIndexes, QuietIndex
<1> QED BY <1>3, <1>4 DEF StreamFinish, prepareResetStream

(* What is copied is what has been added since the stream was started.     *)
LEMMA ForkIs ==
  ASSUME AllRecordings(files), FilesOpen(files, fh), Indexes(files, fh),
         fh.resetStreamState # "None", atEnd(files, fh.recording)
  PROVE  ForkMessages = Since(files, fh) /\ ForkMessages \in Seq(Cell)
<1> DEFINE ms    == Recorded(files, fh.recording)
           cells == Seen(files, fh.recording)
           pos   == fh.recording.pos
           p     == fh.forkPos
           bs    == fh.blocks
           k     == fh.streamBlockIndex
<1>1. Open(files, fh.recording)
  BY DEF FilesOpen
<1>2. cells \in Seq(Cell) /\ pos = Len(cells)
  BY <1>1, SeenIsRecording DEF IsRecording, atEnd
<1>3. /\ ms \in Seq(Cell) /\ Len(ms) = pos - 1 /\ pos \in Nat /\ pos >= 1
      /\ fh.firstIndex \in Int /\ Covers(bs, fh.firstIndex, ms)
  BY IndexIs DEF Indexes
<1>4. ms = SubSeq(cells, 2, pos)
  BY DEF Recorded
<1> HIDE DEF ms, cells
<1>5. k \in 1 .. Len(bs) /\ bs[k].startOffset = p
  BY DEF Indexes, Forked, Fork
<1>6. p \in Nat /\ 1 <= p /\ p <= pos
  <2>1. /\ bs[k].startOffset \in Nat /\ 1 <= bs[k].startOffset /\ bs[k].endOffset \in Nat
        /\ bs[k].startOffset <= bs[k].endOffset /\ bs[k].endOffset <= Len(ms) + 1
    BY <1>3, <1>5, BlockBounds
  <2> DEFINE e == bs[k].endOffset
  <2>2. p \in Nat /\ 1 <= p /\ e \in Nat /\ p <= e /\ e <= Len(ms) + 1
    BY <1>5, <2>1
  <2> HIDE DEF p, e, pos
  <2> QED BY <1>3, <2>2
<1> DEFINE z == pos
           n == Len(ms)
<1> HIDE DEF pos, p
<1>7. /\ n \in Nat /\ z \in Nat /\ 2 <= z + 1 /\ z <= Len(cells) /\ p <= n + 1 /\ n <= z - 2 + 1
      /\ 2 + p - 1 = p + 1 /\ 2 + n - 1 = z /\ 2 \in Nat /\ 1 <= 2
  BY <1>2, <1>3, <1>6
<1> HIDE DEF n, z
<1>8. SubSeq(SubSeq(cells, 2, z), p, n) = SubSeq(cells, 2 + p - 1, 2 + n - 1)
  BY <1>2, <1>6, <1>7, SliceOfSlice
<1>9. ForkMessages = SubSeq(cells, p + 1, Len(cells))
  BY DEF ForkMessages, cells, p
<1>10. ForkMessages = SubSeq(ms, p, n)
  BY <1>2, <1>4, <1>7, <1>8, <1>9 DEF z
<1>11. SubSeq(ms, p, n) \in Seq(Cell)
  <2>1. n <= Len(ms)
    BY <1>7 DEF n
  <2> QED BY <1>3, <1>6, <1>7, <2>1, Slice
<1> QED BY <1>10, <1>11 DEF Since, n, p, ms

(* What is in a file that has been written to the end.                     *)
LEMMA WholeRecorded ==
  ASSUME NEW fs, NEW f, AllRecordings(fs), Open(fs, f), f.unsaved = << >>, f.pos = Len(fs[f.name])
  PROVE  Recorded(fs, f) = SubSeq(fs[f.name], 2, Len(fs[f.name]))
<1> DEFINE cells == fs[f.name]
           pos   == f.pos
<1>1. cells \in Seq(Cell) /\ pos \in Nat
  BY DEF AllRecordings, IsRecording, Open
<1>2. OnRecord(fs, f) = SubSeq(cells, 1, pos - 0) \o << >>
  <2>1. Len(<< >>) = 0
    OBVIOUS
  <2> QED BY <2>1 DEF OnRecord
<1>3. pos - 0 = pos
  BY <1>1
<1>4. SubSeq(cells, 1, Len(cells)) = cells /\ cells \o << >> = cells
  <2> HIDE DEF cells
  <2> QED BY <1>1, SubSeqFull, ConcatEmptySeq
<1>5. OnRecord(fs, f) = cells
  BY <1>2, <1>3, <1>4
<1>6. Recorded(fs, f) = SubSeq(OnRecord(fs, f), 2, f.pos)
  BY RecordedIs
<1> QED BY <1>5, <1>6

LEMMA StreamResolveIndex ==
  ASSUME RecoverableInv, IndexInv, StreamResolve, RecoverableInv'
  PROVE  IndexInv'
<1> DEFINE r    == fh.recording
           s    == fh.streamRecording
           fs   == Flushed(files, r)
           fork == ForkMessages
           r2   == [r EXCEPT !.unsaved = << >>]
           ms   == Recorded(files, r)
           sm   == Recorded(files, s)
<1>1. /\ Ready /\ UNCHANGED server /\ fh.resetStreamState = "Prepared"
      /\ atEnd(files, r) /\ atEnd(files, s)
  BY DEF StreamResolve, resolveStreamedReset_start, isStreamResetIoAvailable, isResetStreamPending
<1>2. AllRecordings(files) /\ FilesOpen(files, fh) /\ Indexes(files, fh)
  BY <1>1, ReadyIndexes
<1>3. Open(files, r) /\ Open(files, s) /\ s.name # r.name
  BY <1>1, <1>2 DEF FilesOpen
<1>4. /\ AllRecordings(fs) /\ DOMAIN fs = DOMAIN files /\ fs[s.name] = files[s.name]
      /\ Open(fs, r2) /\ r2.name = r.name /\ Open(fs, s)
  <2>1. r2.name = r.name
    BY <1>3 DEF Open
  <2>2. AllRecordings(fs) /\ DOMAIN fs = DOMAIN files /\ Open(fs, r2) /\ Open(fs, s)
    BY <1>2, <1>3, FlushedIsRecording, FlushedSelfOpen, FlushedOpen
  <2>3. fs[s.name] = files[s.name]
    BY <1>2, <1>3, FlushedOther
  <2> QED BY <2>1, <2>2, <2>3
<1>5. Recorded(fs, r2) = ms /\ Recorded(fs, s) = sm
  BY <1>2, <1>3, <1>4, FlushedRecorded, SameFileRecorded
<1>6. Index(files, fh, 0) /\ Fork(fh, sm)
  BY <1>1, <1>2 DEF Indexes, Forked
<1>7. CASE ResolvedFits /\ copyForkMessagesToResetStream /\ call' = [call EXCEPT !.at = "copied"]
  <2> DEFINE s2     == [s EXCEPT !.pos = @ + Len(fork), !.unsaved = << >>]
             seen   == Seen(files, s)
             copied == seen \o fork
  <2>1. /\ files' = [fs EXCEPT ![s.name] = copied]
        /\ fh' = [fh EXCEPT !.recording.unsaved = << >>, !.streamRecording.pos = @ + Len(fork),
                            !.streamRecording.unsaved = << >>]
    BY <1>7 DEF copyForkMessagesToResetStream
  <2>2. /\ fh'.recording = r2 /\ fh'.streamRecording = s2 /\ fh'.blocks = fh.blocks
        /\ fh'.firstIndex = fh.firstIndex /\ fh'.lastIndex = fh.lastIndex
        /\ fh'.forkPos = fh.forkPos /\ fh'.streamBlockIndex = fh.streamBlockIndex
        /\ fh'.streamBlocks = fh.streamBlocks
    BY <1>2, <1>3, <2>1 DEF FilesOpen, Fields, Open
  <2>3. s2.name = s.name /\ s2.pos = s.pos + Len(fork) /\ s2.unsaved = << >>
    BY <1>3 DEF Open
  <2>4. AllRecordings(files') /\ Open(files', s2)
    <3>1. server' = "up" /\ fh'.streamRecording # NoFile
      <4>1. server' = "up" /\ call'.at = "copied"
        <5>1. DOMAIN call = {"at", "old", "messages"}
          BY DEF RecoverableInv
        <5> QED BY <1>1, <1>7, <5>1 DEF Ready
      <4> QED BY <4>1 DEF RecoverableInv, Named
    <3> HIDE DEF s2
    <3> QED BY <2>2, <3>1 DEF RecoverableInv, FilesOpen
  <2>5. files'[s.name] = copied /\ files'[r.name] = fs[r.name]
    BY <1>3, <1>4, <2>1 DEF Open
  <2>6. fork = Since(files, fh) /\ fork \in Seq(Cell)
    BY <1>1, <1>2, ForkIs
  <2>7. seen \in Seq(Cell) /\ s.pos = Len(seen) /\ s.pos \in Nat /\ s.pos >= 1
    BY <1>1, <1>2, <1>3, SeenIsRecording, RecordedIs DEF IsRecording, atEnd
  <2>8. sm = SubSeq(seen, 2, Len(seen))
    BY <2>7 DEF Recorded
  <2> HIDE DEF fs, r2, s2, fork, seen, sm, ms
  <2>9. Len(copied) = Len(seen) + Len(fork)
    BY <2>6, <2>7, ConcatProperties
  <2>10. Recorded(files', s2) = sm \o fork
    <3>1. s2.pos = Len(files'[s2.name]) /\ files'[s2.name] = copied
      BY <2>3, <2>5, <2>7, <2>9
    <3>2. Recorded(files', s2) = SubSeq(copied, 2, Len(copied))
      BY <2>3, <2>4, <3>1, WholeRecorded
    <3>3. SubSeq(seen \o fork, 2, Len(seen) + Len(fork)) = SubSeq(seen, 2, Len(seen)) \o fork
      <4>1. 2 <= Len(seen) + 1
        BY <2>7
      <4> QED BY <2>6, <2>7, <4>1, SliceAcross
    <3> QED BY <2>8, <2>9, <3>2, <3>3
  <2>11. Recorded(files', r2) = ms
    <3>1. Recorded(files', r2) = Recorded(fs, r2)
      BY <1>4, <2>5, SameFileRecorded
    <3> QED BY <1>5, <3>1
  <2>12. Index(files', fh', 0)
    BY <1>6, <2>2, <2>11 DEF Index, ms
  <2>13. Fork(fh', sm) /\ sm \in Seq(Cell)
    BY <1>6, <2>2 DEF Fork
  <2>14. Since(files', fh') = fork
    BY <2>2, <2>6, <2>11 DEF Since, ms
  <2>15. CopiedFork(files', fh')
    BY <2>2, <2>10, <2>13, <2>14 DEF CopiedFork
  <2>16. call'.at = "copied"
    BY <1>7 DEF RecoverableInv
  <2> QED BY <2>12, <2>15, <2>16 DEF IndexInv, InReset
<1>8. CASE /\ files' = Flushed(fs, s)
           /\ fh' = [fh EXCEPT !.recording.unsaved = << >>, !.streamRecording.unsaved = << >>,
                               !.resetStreamState = "None", !.ctxId = 0]
           /\ UNCHANGED call
  <2>1. /\ fh'.recording = r2 /\ fh'.blocks = fh.blocks /\ fh'.resetStreamState = "None"
        /\ fh'.firstIndex = fh.firstIndex /\ fh'.lastIndex = fh.lastIndex
    BY <1>2, <1>8 DEF FilesOpen, Fields
  <2>2. files'[r.name] = fs[r.name]
    <3>1. r2.name # s.name
      BY <1>3, <1>4
    <3> HIDE DEF fs, r2
    <3>2. Flushed(fs, s)[r2.name] = fs[r2.name]
      BY <1>4, <3>1, FlushedOther
    <3> QED BY <1>4, <1>8, <3>2
  <2>3. Recorded(files', r2) = Recorded(fs, r2)
    <3> HIDE DEF r2, fs
    <3>1. files'[r2.name] = fs[r2.name]
      BY <1>4, <2>2
    <3> QED BY <3>1, SameFileRecorded
  <2> HIDE DEF r2, fs
  <2>4. Recorded(files', fh'.recording) = Recorded(files, fh.recording)
    BY <1>5, <2>1, <2>3
  <2>5. Indexes(files', fh')
    BY <1>2, <2>1, <2>4, SameIndexes
  <2> QED BY <1>1, <1>8, <2>5, QuietIndex
<1> QED BY <1>7, <1>8 DEF StreamResolve, resolveStreamedReset_start

----------------------------------------------------------------------------
(* Resets, step by step.                                                   *)

LEMMA ResolveJournalIndex ==
  ASSUME RecoverableInv, IndexInv, resolveStreamedReset_journal
  PROVE  IndexInv'
<1>1. /\ server = "up" /\ call.at = "copied" /\ UNCHANGED <<files, fh, server>>
      /\ call'.at = "journalled"
  BY DEF resolveStreamedReset_journal, RecoverableInv
<1>2. Index(files, fh, 0) /\ CopiedFork(files, fh)
  BY <1>1 DEF IndexInv, InReset
<1> QED BY <1>1, <1>2 DEF IndexInv, InReset

(* The index of the stream is shifted to its place in the history, and the *)
(* blocks since the start of the stream are moved to its end.              *)
LEMMA ResolvedIndex ==
  ASSUME NEW fs, NEW h, AllRecordings(fs), FilesOpen(fs, h), Index(fs, h, 0),
         NEW sm \in Seq(Cell), Fork(h, sm)
  PROVE  LET g   == Resolved(h)
             all == sm \o Since(fs, h)
         IN /\ h.lastIndex \in Int /\ all \in Seq(Cell) /\ Len(all) \in Nat
            /\ DOMAIN g = Fields /\ g.recording = h.streamRecording /\ g.streamRecording = NoFile
            /\ g.resetStreamState = "None" /\ g.ctxId = 0
            /\ g.sizeInBytes = h.streamRecording.pos - 1 /\ g.autoResetBaseSize = h.resetStreamSize
            /\ g.firstIndex = h.lastIndex + 1 /\ g.lastIndex = h.lastIndex + Len(all)
            /\ Covers(g.blocks, g.firstIndex, all)
<1> DEFINE ms    == Recorded(fs, h.recording)
           bs    == h.blocks
           k     == h.streamBlockIndex
           first == h.lastIndex + 1
           moved == replaceWithResetStream(bs, h.streamBlocks, k, first)
           since == Since(fs, h)
           total == totalMessageCount(moved)
<1>1. /\ ms \in Seq(Cell) /\ Len(ms) \in Nat /\ h.firstIndex \in Int
      /\ Covers(bs, h.firstIndex, ms)
  BY IndexIs
<1>2. h.lastIndex \in Int /\ first \in Int
  <2>1. h.lastIndex = h.firstIndex + Len(ms) - 1 + 0
    BY DEF Index
  <2> HIDE DEF ms
  <2>2. h.lastIndex \in Int
    BY <1>1, <2>1
  <2> QED BY <2>2
<1>3. /\ k \in 1 .. Len(bs) /\ bs[k].startOffset = h.forkPos
      /\ Covers(h.streamBlocks, 0, sm)
  BY DEF Fork
<1>4. since = SubSeq(ms, bs[k].startOffset, Len(ms))
  BY <1>3 DEF Since
<1> DEFINE base == [i \in DOMAIN h.streamBlocks |->
                      [(h.streamBlocks)[i] EXCEPT !.startIndex = @ + first]]
<1>5. Covers(base, first, sm)
  <2> HIDE DEF first
  <2> QED BY <1>2, <1>3, Shifted
<1>6. moved = FoldLeft(Moved, base, SubSeq(bs, k, Len(bs)))
  BY DEF replaceWithResetStream
<1>7. /\ DOMAIN Resolved(h) = Fields
      /\ Resolved(h).recording = h.streamRecording /\ Resolved(h).streamRecording = NoFile
      /\ Resolved(h).resetStreamState = "None" /\ Resolved(h).ctxId = 0
      /\ Resolved(h).sizeInBytes = h.streamRecording.pos - 1
      /\ Resolved(h).autoResetBaseSize = h.resetStreamSize
      /\ Resolved(h).firstIndex = first /\ Resolved(h).lastIndex = h.lastIndex + total
      /\ Resolved(h).blocks = moved
  BY DEF Resolved, FilesOpen, Fields
<1> HIDE DEF ms, bs, k, first, base, moved, since, total
<1>8. Covers(moved, first, sm \o since)
  BY <1>1, <1>2, <1>3, <1>4, <1>5, <1>6, AllMoved
<1>9. sm \o since \in Seq(Cell) /\ total = Len(sm \o since)
  <2>1. since \in Seq(Cell)
    <3> DEFINE p == bs[k].startOffset
    <3>1. p \in Nat /\ 1 <= p /\ p <= Len(ms) + 1
      <4>1. /\ p \in Nat /\ 1 <= p /\ bs[k].endOffset \in Nat /\ p <= bs[k].endOffset
            /\ bs[k].endOffset <= Len(ms) + 1
        BY <1>1, <1>3, BlockBounds
      <4> HIDE DEF p
      <4> QED BY <1>1, <4>1
    <3> HIDE DEF p
    <3>2. SubSeq(ms, p, Len(ms)) \in Seq(Cell)
      BY <1>1, <3>1, Slice
    <3> QED BY <1>4, <3>2 DEF p
  <2>2. sm \o since \in Seq(Cell)
    BY <2>1, ConcatProperties
  <2>3. total = Len(sm \o since)
    BY <1>2, <1>8, <2>2, LastBlock DEF total
  <2> QED BY <2>2, <2>3
<1>10. Len(sm \o since) \in Nat
  BY <1>9, LenProperties
<1> QED BY <1>2, <1>7, <1>8, <1>9, <1>10 DEF first, since

LEMMA ResolveFinishIndex ==
  ASSUME RecoverableInv, IndexInv, resolveStreamedReset_finish
  PROVE  IndexInv'
<1> DEFINE r == fh.recording
           s == fh.streamRecording
<1>1. /\ server = "up" /\ call.at = "journalled" /\ UNCHANGED server
      /\ files' = Without(files, r.name) /\ fh' = Resolved(fh) /\ call' = NoCall
  BY DEF resolveStreamedReset_finish
<1>2. AllRecordings(files) /\ FilesOpen(files, fh) /\ s # NoFile
  BY <1>1 DEF RecoverableInv, Named
<1>3. Index(files, fh, 0) /\ CopiedFork(files, fh)
  BY <1>1 DEF IndexInv, InReset
<1>4. PICK sm \in Seq(Cell) : Fork(fh, sm) /\ Recorded(files, s) = sm \o Since(files, fh)
  BY <1>3 DEF CopiedFork
<1>5. Open(files, s) /\ s.name # r.name
  BY <1>2 DEF FilesOpen
<1> DEFINE ms == sm \o Since(files, fh)
<1>6. Recorded(files', s) = ms
  <2>1. files'[s.name] = files[s.name]
    BY <1>1, <1>5 DEF Without, Open
  <2> QED BY <1>4, <2>1, SameFileRecorded
<1>7. /\ fh.lastIndex \in Int /\ Len(ms) \in Nat
      /\ fh'.recording = s /\ fh'.resetStreamState = "None"
      /\ fh'.firstIndex = fh.lastIndex + 1 /\ fh'.lastIndex = fh.lastIndex + Len(ms)
      /\ Covers(fh'.blocks, fh'.firstIndex, ms)
  BY <1>1, <1>2, <1>3, <1>4, ResolvedIndex
<1> HIDE DEF ms, s
<1>8. fh'.firstIndex \in Int /\ fh'.lastIndex = fh'.firstIndex + Len(ms) - 1 + 0
  BY <1>7
<1>9. Index(files', fh', 0)
  BY <1>6, <1>7, <1>8 DEF Index
<1> QED BY <1>1, <1>7, <1>9 DEF IndexInv, InReset, NoCall, Forked

(* A full reset begins a new index; what it will lead to has been counted. *)
LEMMA FullResetIndex ==
  ASSUME RecoverableInv, IndexInv, FullReset, "ResetPending" \notin Features
  PROVE  IndexInv'
<1> DEFINE new == serverSideStateMessages \o <<ImageMsg(0)>>
           fs == filesAfterAbort(Flushed(files, fh.recording), fh, -1)
           h  == AbortedBy(fh, -1)
           n  == Len(new)
           first == h.lastIndex + 1
<1>1. Ready /\ UNCHANGED server /\ ~isResetStreamPending(fh)
  BY DEF FullReset, reset_start
<1>2. AllRecordings(files) /\ FilesOpen(files, fh) /\ Indexes(files, fh)
  BY <1>1, ReadyIndexes
<1>3. AllRecordings(fs) /\ FilesOpen(fs, h)
  BY <1>2, FlushedFilesOpen, AbortOpen
<1>4. /\ h.resetStreamState = "None" /\ h.lastIndex = fh.lastIndex
  BY <1>1, <1>2 DEF AbortedBy, StreamedResetBy, Discarded, isResetStreamPending, FilesOpen, Fields
<1>5. PICK k \in 0 .. Cardinality(DOMAIN fs) :
        LET name == <<h.fileCount + 1, k>>
        IN /\ uniqueRecordingFilename(fs, h.fileCount + 1, name)
           /\ files' = WithNew(fs, name)
           /\ fh' = [h EXCEPT !.sizeInBytes = n, !.firstIndex = h.lastIndex + 1,
                              !.lastIndex = @ + n, !.autoResetBaseSize = n,
                              !.fileCount = @ + 1, !.recording = openRecording(name),
                              !.blocks = <<Block(1, h.lastIndex + 1)>>]
  BY DEF FullReset, reset_start
<1>6. call' = [at |-> "opened", old |-> fh.recording.name, messages |-> new]
  BY DEF FullReset, reset_start
<1>7. n \in Nat
  <2>1. new \in Seq(Cell)
    BY ServerSideType, MessageTypes
  <2> QED BY <2>1
<1>8. h.lastIndex \in Int
  <2> DEFINE m == Len(Recorded(files, fh.recording))
  <2>1. fh.lastIndex = fh.firstIndex + m - 1 + 0 /\ fh.firstIndex \in Int /\ m \in Nat
    BY <1>2, IndexIs DEF Indexes, Index
  <2> HIDE DEF m, h
  <2> QED BY <1>4, <2>1
<1> HIDE DEF new, fs, h
<1> DEFINE name == <<h.fileCount + 1, k>>
<1>9. name \in FileName /\ name \notin DOMAIN fs
  BY <1>3, <1>5 DEF FileName, FilesOpen, uniqueRecordingFilename
<1>10. /\ files' = WithNew(fs, name) /\ fh'.recording = openRecording(name)
       /\ fh'.firstIndex = first /\ fh'.lastIndex = h.lastIndex + n
       /\ fh'.blocks = <<Block(1, first)>> /\ fh'.resetStreamState = "None"
  BY <1>3, <1>4, <1>5 DEF FilesOpen, Fields
<1> HIDE DEF name
<1>11. Recorded(files', fh'.recording) = << >>
  <2>1. AllRecordings(files') /\ Open(files', openRecording(name))
    BY <1>3, <1>9, <1>10, NewOpen
  <2> QED BY <1>10, <2>1, NewRecorded
<1>12. first \in Int /\ Covers(<<Block(1, first)>>, first, << >>)
  <2>1. first \in Int
    BY <1>8
  <2> HIDE DEF first
  <2> QED BY <2>1, NewIndex
<1>13. Index(files', fh', n)
  <2>1. Len(<< >>) = 0
    OBVIOUS
  <2>2. h.lastIndex + n = first + 0 - 1 + n
    <3> HIDE DEF n
    <3> QED BY <1>7, <1>8
  <2> HIDE DEF n, first
  <2> QED BY <1>10, <1>11, <1>12, <2>1, <2>2 DEF Index
<1>14. call'.at = "opened" /\ Len(call'.messages) = n
  BY <1>6
<1> HIDE DEF n
<1> QED BY <1>10, <1>13, <1>14 DEF IndexInv, InReset

LEMMA ResetJournalIndex ==
  ASSUME RecoverableInv, IndexInv, reset_journal
  PROVE  IndexInv'
<1>1. /\ server = "up" /\ call.at = "opened" /\ UNCHANGED <<files, fh, server>>
      /\ call'.at = "named" /\ call'.messages = call.messages
  BY DEF reset_journal, RecoverableInv
<1>2. Index(files, fh, Len(call.messages)) /\ fh.resetStreamState = "None"
  BY <1>1 DEF IndexInv, InReset
<1> QED BY <1>1, <1>2 DEF IndexInv, InReset

(* The messages are written, and the marker is added.                      *)
LEMMA ResetFinishIndex ==
  ASSUME RecoverableInv, IndexInv, reset_finish(CaughtUpMsg)
  PROVE  IndexInv'
<1> DEFINE q == call.messages
           h == historyAdd(fh, q)
           g == addMessage(h, CaughtUpMsg)
           f == fh.firstIndex
           n == Len(Recorded(files, fh.recording))
<1>1. /\ server = "up" /\ call.at = "named" /\ UNCHANGED server
      /\ files' = Without(files, call.old) /\ fh' = g /\ call' = NoCall
  BY DEF reset_finish
<1>2. /\ AllRecordings(files) /\ FilesOpen(files, fh) /\ q \in Seq(Cell)
      /\ call.old # fh.recording.name
  BY <1>1 DEF RecoverableInv, Named
<1>3. Index(files, fh, Len(q)) /\ fh.resetStreamState = "None"
  BY <1>1 DEF IndexInv, InReset
<1>4. FilesOpen(files, h) /\ h.recording.name = fh.recording.name
  BY <1>2, HistoryAddOpen
<1>5. /\ h.recording = Written(fh.recording, q) /\ h.firstIndex = f
      /\ h.blocks = FoldLeft(addToLastBlock, fh.blocks, q)
      /\ h.lastIndex = fh.lastIndex /\ h.resetStreamState = "None"
  BY <1>2, <1>3 DEF historyAdd, FilesOpen, Fields
<1> HIDE DEF q, h
<1>6. /\ Covers(h.blocks, h.firstIndex, Recorded(files, h.recording))
      /\ Len(Recorded(files, h.recording)) = n + Len(q)
  BY <1>2, <1>3, <1>5, HistoryAdded
<1>7. f \in Int /\ n \in Nat /\ Len(q) \in Nat /\ fh.lastIndex = f + n - 1 + Len(q)
  BY <1>2, <1>3, IndexIs DEF Index
<1>8. Indexes(files, h)
  <2>1. h.lastIndex = h.firstIndex + Len(Recorded(files, h.recording)) - 1 + 0
    <3> HIDE DEF f, n
    <3> QED BY <1>5, <1>6, <1>7
  <2> QED BY <1>5, <1>6, <1>7, <2>1 DEF Indexes, Index, Forked
<1>9. FilesOpen(files, g) /\ Indexes(files, g) /\ g.recording.name = fh.recording.name
  BY <1>2, <1>4, <1>8, AddOpen, AddIndexes, MessageTypes
<1>10. g.resetStreamState = "None"
  BY <1>2, <1>4, <1>5, AddInternalOpen, MessageTypes DEF addMessage
<1> HIDE DEF g
<1>11. Recorded(files', g.recording) = Recorded(files, g.recording)
  <2>1. files'[g.recording.name] = files[g.recording.name]
    BY <1>1, <1>2, <1>9 DEF Without, FilesOpen, Open
  <2> QED BY <2>1, SameFileRecorded
<1>12. Indexes(files', fh')
  BY <1>1, <1>2, <1>9, <1>10, <1>11, SameIndexes
<1> QED BY <1>1, <1>12 DEF IndexInv, Indexes, InReset, NoCall

LEMMA ProceedIndex == ASSUME RecoverableInv, IndexInv, Proceed PROVE IndexInv'
BY ResolveJournalIndex, ResolveFinishIndex, ResetJournalIndex, ResetFinishIndex DEF Proceed

----------------------------------------------------------------------------
(* The start of the server.                                                *)

(* What is found in a recording, and how far it reaches.                   *)
LEMMA ScannedIs ==
  ASSUME NEW cells, IsRecording(cells)
  PROVE  LET ms == ScannedMessages(cells)
         IN ms \in Seq(Cell) /\ 1 + Len(ms) <= Len(cells) /\ ms = SubSeq(cells, 2, 1 + Len(ms))
<1> DEFINE ms == ScannedMessages(cells)
           l  == Len(cells)
<1>1. cells \in Seq(Cell) /\ l \in Nat /\ l >= 1 /\ cells[1] = HeaderCell /\ Last(cells) = cells[l]
  BY DEF IsRecording, Last
<1>2. PICK n \in {l - 1, l} :
        ms = SubSeq(cells, 2, n) /\ (n = l - 1 => Last(cells) = TornCell)
  BY DEF ScannedMessages
<1>3. l = 1 => n = 1
  BY <1>1, <1>2 DEF HeaderCell, TornCell
<1> HIDE DEF ms, l
<1>4. n \in Nat /\ 1 <= n /\ n <= l
  BY <1>1, <1>2, <1>3
<1>5. SubSeq(cells, 2, n) \in Seq(Cell) /\ Len(SubSeq(cells, 2, n)) = n - 2 + 1
  <2>1. 2 \in Nat /\ 1 <= 2 /\ 2 <= n + 1
    BY <1>4
  <2>2. n <= Len(cells)
    BY <1>4 DEF l
  <2> QED BY <1>1, <1>4, <2>1, <2>2, Slice
<1>6. 1 + Len(ms) = n
  BY <1>2, <1>4, <1>5
<1> QED BY <1>2, <1>4, <1>5, <1>6 DEF ms, l

(* The leaves of users still in the recording are written after it.        *)
LEMMA LoadedRecorded ==
  ASSUME NEW fs, NEW f, AllRecordings(fs), Open(fs, f), NEW ms \in Seq(Cell),
         f.pos = 1 + Len(ms \o f.unsaved),
         1 + Len(ms) <= Len(fs[f.name]), ms = SubSeq(fs[f.name], 2, 1 + Len(ms))
  PROVE  Recorded(fs, f) = ms \o f.unsaved
<1> DEFINE cells == fs[f.name]
           bye == f.unsaved
           n == 1 + Len(ms)
           p == SubSeq(cells, 1, n)
           pos == f.pos
<1>1. /\ cells \in Seq(Cell) /\ bye \in Seq(Cell) /\ Len(bye) \in Nat /\ Len(ms) \in Nat
      /\ Len(ms \o bye) = Len(ms) + Len(bye)
  BY ConcatProperties DEF AllRecordings, IsRecording, Open
<1>2. n \in Nat /\ n >= 1 /\ n <= Len(cells) /\ pos = n + Len(bye) /\ pos - Len(bye) = n
  <2>1. pos = 1 + Len(ms \o bye) /\ n <= Len(cells)
    OBVIOUS
  <2> HIDE DEF pos, cells, bye
  <2> QED BY <1>1, <2>1
<1>3. p \in Seq(Cell) /\ Len(p) = n
  <2>1. 1 \in Nat /\ 1 <= 1 /\ 1 <= n + 1 /\ n - 1 + 1 = n
    BY <1>2
  <2> HIDE DEF n, cells
  <2> QED BY <1>1, <1>2, <2>1, Slice
<1>4. OnRecord(fs, f) = p \o bye
  BY <1>2 DEF OnRecord
<1>5. Recorded(fs, f) = SubSeq(p \o bye, 2, pos)
  BY <1>4, RecordedIs
<1>6. SubSeq(p, 2, n) = SubSeq(cells, 2, n)
  <2>1. /\ 1 \in Nat /\ 1 <= 1 /\ 1 <= n + 1 /\ 2 \in Nat /\ 1 <= 2 /\ 2 <= n + 1
        /\ n <= n - 1 + 1 /\ 1 + 2 - 1 = 2 /\ 1 + n - 1 = n
    BY <1>2
  <2> HIDE DEF n, cells
  <2>2. SubSeq(SubSeq(cells, 1, n), 2, n) = SubSeq(cells, 1 + 2 - 1, 1 + n - 1)
    BY <1>1, <1>2, <2>1, SliceOfSlice
  <2> QED BY <2>1, <2>2
<1> HIDE DEF p, n, bye, cells, pos
<1>7. SubSeq(p \o bye, 2, Len(p) + Len(bye)) = SubSeq(p, 2, Len(p)) \o bye
  <2>1. 2 <= Len(p) + 1 /\ 2 \in Nat /\ 1 <= 2
    BY <1>2, <1>3
  <2> QED BY <1>1, <1>3, <2>1, SliceAcross
<1> QED BY <1>2, <1>3, <1>5, <1>6, <1>7 DEF n, cells, bye

LEMMA RestartIndex ==
  ASSUME RecoverableInv, IndexInv, Restart, RecoverableInv'
  PROVE  IndexInv'
<1> DEFINE name  == Last(journal)
           cells == files[name]
           ms    == ScannedMessages(cells)
<1>1. /\ server = "down" /\ call = NoCall /\ AllRecordings(files) /\ name \in DOMAIN files
  BY DEF Restart, RecoverableInv
<1>2. CASE loadFails
  BY <1>2 DEF loadFails, IndexInv
<1>3. CASE \E bye \in Farewells(UsersLeftIn(ms)) : load(bye)
  <2>1. PICK bye \in Farewells(UsersLeftIn(ms)) : load(bye)
    BY <1>3
  <2> DEFINE all == ms \o bye
             r == [name |-> name, pos |-> 1 + Len(all), unsaved |-> bye]
             h == NewFiledHistory(name, Len(journal))
  <2>2. /\ fh' = [h EXCEPT !.recording = r,
                           !.blocks = Indexed(1, 0, all), !.lastIndex = Len(all) - 1,
                           !.sizeInBytes = Len(all), !.autoResetBaseSize = Len(all)]
        /\ server' = "up" /\ UNCHANGED <<files, journal, call>>
    BY <2>1 DEF load
  <2>3. /\ fh'.recording = r /\ fh'.blocks = Indexed(1, 0, all) /\ fh'.lastIndex = Len(all) - 1
        /\ fh'.firstIndex = 0 /\ fh'.resetStreamState = "None"
    BY <2>2 DEF NewFiledHistory
  <2>4. bye \in Seq(Cell)
    BY FarewellsType
  <2>5. /\ ms \in Seq(Cell) /\ 1 + Len(ms) <= Len(cells) /\ ms = SubSeq(cells, 2, 1 + Len(ms))
    <3>1. IsRecording(cells)
      BY <1>1 DEF AllRecordings
    <3> HIDE DEF cells
    <3> QED BY <3>1, ScannedIs
  <2>6. Open(files, fh'.recording)
    BY <2>2 DEF RecoverableInv, FilesOpen
  <2>7. r.name = name /\ r.pos = 1 + Len(all) /\ r.unsaved = bye
    OBVIOUS
  <2> HIDE DEF ms, r
  <2>8. Recorded(files, fh'.recording) = all
    <3> DEFINE f == fh'.recording
    <3>1. /\ f.unsaved = bye /\ f.pos = 1 + Len(ms \o f.unsaved)
          /\ 1 + Len(ms) <= Len(files[f.name]) /\ ms = SubSeq(files[f.name], 2, 1 + Len(ms))
      BY <2>3, <2>5, <2>7
    <3>2. AllRecordings(files) /\ Open(files, f) /\ ms \in Seq(Cell)
      BY <1>1, <2>5, <2>6
    <3> HIDE DEF f
    <3>3. Recorded(files, f) = ms \o f.unsaved
      BY <3>1, <3>2, LoadedRecorded
    <3> QED BY <3>1, <3>3 DEF f
  <2>9. all \in Seq(Cell)
    BY <2>4, <2>5, ConcatProperties
  <2> HIDE DEF all
  <2>10. Covers(Indexed(1, 0, all), 0, all)
    BY <2>9, AllIncremented
  <2>11. Index(files', fh', 0)
    <3>1. Len(all) - 1 = 0 + Len(all) - 1 + 0 /\ 0 \in Int
      BY <2>9
    <3> QED BY <2>2, <2>3, <2>8, <2>10, <3>1 DEF Index
  <2> QED BY <1>1, <2>2, <2>3, <2>11 DEF IndexInv, InReset, NoCall, Forked
<1> QED BY <1>2, <1>3 DEF Restart

LEMMA InitIndex == StoredInit => IndexInv
<1> SUFFICES ASSUME StoredInit PROVE IndexInv
  OBVIOUS
<1> DEFINE name == <<1, 0>>
<1>1. /\ fh.recording = openRecording(name) /\ fh.blocks = <<Block(1, 0)>>
      /\ fh.firstIndex = 0 /\ fh.lastIndex = -1 /\ fh.resetStreamState = "None"
      /\ server = "up" /\ call.at = "none"
  BY DEF StoredInit, FiledInit, NewFiledHistory, NoCall
<1>2. Recorded(files, fh.recording) = << >>
  <2>1. RecoverableInv
    BY InitRecoverable
  <2>2. AllRecordings(files) /\ Open(files, openRecording(name))
    BY <1>1, <2>1 DEF RecoverableInv, FilesOpen
  <2> HIDE DEF name
  <2> QED BY <1>1, <2>2, NewRecorded
<1>3. Covers(<<Block(1, 0)>>, 0, << >>) /\ Len(<< >>) = 0
  BY NewIndex
<1>4. Index(files, fh, 0)
  BY <1>1, <1>2, <1>3 DEF Index
<1> QED BY <1>1, <1>4 DEF IndexInv, InReset, Forked

LEMMA NextIndexed ==
  ASSUME "ResetPending" \notin Features
  PROVE  RecoverableInv /\ IndexInv /\ [Next]_vars => IndexInv'
<1> SUFFICES ASSUME RecoverableInv, IndexInv, [Next]_vars PROVE IndexInv'
  OBVIOUS
<1>1. RecoverableInv'
  BY NextRecoverable
<1>2. CASE SessionNext
  <2>1. CASE \E name \in Names, id \in Clients : Join(name, id)
    BY <2>1, JoinIndex
  <2>2. CASE \E i \in DOMAIN clients : Rejoin(i) \/ removeUser(i)
    BY <2>2, RejoinIndex, RemoveUserIndex
  <2>3. CASE \E id \in Present : \/ Draw(id) \/ StreamStart(id) \/ StreamData(id)
                                 \/ StreamAbort(id) \/ StreamFinish(id)
    BY <2>3, PresentType, DrawIndex, StreamStartIndex, StreamDataIndex, StreamAbortIndex,
       StreamFinishIndex
  <2>4. CASE FullReset
    BY <2>4, FullResetIndex
  <2>5. CASE StreamResolve
    BY <1>1, <2>5, StreamResolveIndex
  <2> QED BY <1>2, <2>1, <2>2, <2>3, <2>4, <2>5 DEF SessionNext
<1>3. CASE Proceed
  BY <1>3, ProceedIndex
<1>4. CASE Flush \/ Fetch \/ CleanUp
  BY <1>4, FlushIndex, FetchIndex, CleanUpIndex
<1>5. CASE Fail \/ Stop \/ End
  <2>1. server' # "up"
    BY <1>5 DEF Fail, Crash, Stop, Shutdown, End, terminate
  <2> QED BY <2>1, Zenon DEF IndexInv
<1>6. CASE Restart
  BY <1>1, <1>6, RestartIndex
<1>7. CASE UNCHANGED vars \/ Enter
  BY <1>7 DEF vars, Enter, IndexInv, InReset
<1> QED BY <1>2, <1>3, <1>4, <1>5, <1>6, <1>7 DEF Next

----------------------------------------------------------------------------
(* Reading.                                                                *)

(* What follows a place in the history, from the block that is there.      *)
LEMMA BatchIs ==
  ASSUME AllRecordings(files), FilesOpen(files, fh), Index(files, fh, 0),
         NEW after \in (fh.firstIndex - 1) .. fh.lastIndex
  PROVE  LET ms    == Recorded(files, fh.recording)
             batch == Batch(after)
             from  == after - fh.firstIndex + 1
         IN /\ batch.messages = SubSeq(ms, from + 1, from + Len(batch.messages))
            /\ batch.last = after + Len(batch.messages)
            /\ after < fh.lastIndex => batch.messages # << >>
<1> DEFINE ms    == Recorded(files, fh.recording)
           bs    == fh.blocks
           first == fh.firstIndex
           l     == Len(bs)
           n     == Len(ms)
           i     == findBlock(bs, after)
           b     == bs[i]
           a     == b.startOffset
           e     == b.endOffset
           from  == after - first + 1
           offset == IF after < b.startIndex THEN 0 ELSE after - b.startIndex + 1
           read  == IF b.messages # << >> THEN b.messages ELSE BlockRead(b)
           batch == Batch(after)
<1>1. /\ ms \in Seq(Cell) /\ n \in Nat /\ first \in Int /\ Covers(bs, first, ms) /\ l \in Nat /\ l >= 1
  BY IndexIs
<1>2. after \in Int /\ first - 1 <= after /\ after <= first + n - 1
  <2>1. fh.lastIndex = first + n - 1 + 0
    BY DEF Index
  <2>2. after \in Int /\ first - 1 <= after /\ after <= fh.lastIndex
    OBVIOUS
  <2> HIDE DEF first, n
  <2> QED BY <1>1, <2>1, <2>2
<1>3. fh.lastIndex = first + n - 1
  <2>1. fh.lastIndex = first + n - 1 + 0
    BY DEF Index
  <2> HIDE DEF first, n
  <2> QED BY <1>1, <2>1
<1> HIDE DEF ms
<1>4. /\ i \in 1 .. l
      /\ i = 1 \/ NextIndex(bs[i - 1]) - 1 <= after
      /\ i < l => NextIndex(bs[i]) - 1 > after
  <2> HIDE DEF bs, first, i
  <2> QED BY <1>1, <1>2, FindBlock DEF i
<1>5. /\ b.count \in Nat /\ a \in Nat /\ 1 <= a /\ e \in Nat /\ e = a + b.count /\ a <= e
      /\ e <= n + 1 /\ b.startIndex = first + a - 1
      /\ b.messages \in {<< >>, SubSeq(ms, a, e - 1)}
  <2>1. /\ bs[i].count \in Nat /\ bs[i].startOffset \in Nat /\ 1 <= bs[i].startOffset
        /\ bs[i].endOffset \in Nat /\ bs[i].endOffset = bs[i].startOffset + bs[i].count
        /\ bs[i].startOffset <= bs[i].endOffset /\ bs[i].endOffset <= Len(ms) + 1
        /\ bs[i].startIndex = first + bs[i].startOffset - 1
        /\ bs[i].messages \in {<< >>, SubSeq(ms, bs[i].startOffset, bs[i].endOffset - 1)}
    <3>1. i \in 1 .. Len(bs)
      BY <1>4
    <3> HIDE DEF bs, first, i
    <3>2. first \in Int /\ ms \in Seq(Cell) /\ Covers(bs, first, ms)
      BY <1>1
    <3> QED BY <3>1, <3>2, BlockBounds, ZenonT(60)
  <2> HIDE DEF bs, first, i
  <2> QED BY <2>1
<1>6. read = SubSeq(ms, a, e - 1)
  <2>1. BlockRead(b) = SubSeq(ms, a, e - 1)
    <3> HIDE DEF i
    <3> QED BY <1>4, BlockReadIs DEF ms
  <2> HIDE DEF b
  <2> QED BY <1>5, <2>1
<1>7. i = 1 => a = 1
  BY <1>1 DEF Covers
<1>8. i # 1 => first + a - 2 <= after
  <2> SUFFICES ASSUME i # 1 PROVE first + a - 2 <= after
    OBVIOUS
  <2> DEFINE c == bs[i - 1]
  <2>1. i \in 2 .. l /\ i - 1 \in 1 .. l
    <3> HIDE DEF i, l
    <3> QED BY <1>1, <1>4
  <2>2. /\ c.count \in Nat /\ c.startOffset \in Nat /\ c.endOffset = c.startOffset + c.count
        /\ c.startIndex = first + c.startOffset - 1
    <3> HIDE DEF bs, first, i
    <3> QED BY <1>1, <2>1, BlockBounds
  <2>3. a = c.endOffset
    BY <1>1, <2>1 DEF Covers
  <2> DEFINE y == NextIndex(c)
  <2>4. y - 1 <= after
    <3> HIDE DEF i, bs, l
    <3> QED BY <1>4
  <2>5. y = c.startIndex + c.count
    BY DEF NextIndex
  <2> HIDE DEF a, c, first, b, y
  <2> QED BY <1>1, <1>2, <2>2, <2>3, <2>4, <2>5
<1>9. i < l => first + e - 2 > after
  <2> DEFINE y == NextIndex(b)
  <2>1. i < l => y - 1 > after
    <3> HIDE DEF i, bs, l
    <3> QED BY <1>4
  <2>2. y = b.startIndex + b.count
    BY DEF NextIndex
  <2> DEFINE k == b.count
  <2>3. y = first + a - 1 + k /\ k \in Nat /\ a \in Nat /\ e = a + k
    BY <1>5, <2>2
  <2> HIDE DEF a, b, e, first, i, l, y, k
  <2>4. y = first + e - 1 /\ e \in Nat
    BY <1>1, <2>3
  <2> QED BY <1>1, <1>2, <2>1, <2>4
<1>10. i = l => e = n + 1
  BY <1>1 DEF Covers
<1>11. NextIndex(b) - 1 = first + e - 2
  <2>1. NextIndex(b) = b.startIndex + b.count
    BY DEF NextIndex
  <2> HIDE DEF b, a, e, first
  <2> QED BY <1>1, <1>5, <2>1
<1>12. batch = [messages |-> IF offset >= b.count THEN << >> ELSE SubSeq(read, offset + 1, Len(read)),
                last |-> NextIndex(b) - 1]
  BY DEF Batch
<1> DEFINE c == b.count
           s == b.startIndex
<1>13. /\ offset = IF after < s THEN 0 ELSE after - s + 1
       /\ s = first + a - 1 /\ c \in Nat /\ e = a + c
  BY <1>5
<1>14. i = 1 \/ i # 1
  OBVIOUS
<1>15. i \in 1 .. l => i < l \/ i = l
  <2> HIDE DEF i, l
  <2> QED BY <1>1
<1>16. batch.messages = (IF offset >= c THEN << >> ELSE SubSeq(read, offset + 1, Len(read)))
       /\ batch.last = first + e - 2
  <2> HIDE DEF offset, read, b, first, e, batch
  <2> QED BY <1>11, <1>12
<1> HIDE DEF a, e, b, i, l, first, from, n, offset, read, batch, c, s
<1>17. from = after - first + 1
  BY DEF from
<1>18. offset \in Nat /\ from = offset + a - 1 /\ offset <= c
  BY <1>1, <1>2, <1>4, <1>5, <1>7, <1>8, <1>9, <1>10, <1>13, <1>15, <1>17
<1>19. /\ a \in Nat /\ 1 <= a /\ e \in Nat /\ e <= n + 1 /\ n \in Nat /\ c \in Nat /\ e = a + c
       /\ offset \in Nat /\ from = offset + a - 1
  BY <1>1, <1>5, <1>13, <1>18
<1>20. CASE offset >= c
  <2>1. batch.messages = << >> /\ Len(<< >>) = 0
    BY <1>16, <1>20
  <2>2. i = l
    BY <1>1, <1>2, <1>4, <1>5, <1>9, <1>15, <1>13, <1>17, <1>18, <1>20
  <2>3. after = fh.lastIndex /\ batch.last = after
    <3>1. e = n + 1 /\ offset = c
      BY <1>10, <1>13, <1>18, <1>20, <2>2
    <3>2. after - first + 1 = c + a - 1 /\ a + c = n + 1
      BY <1>13, <1>17, <1>18, <3>1
    <3>3. after = first + n - 1
      BY <1>1, <1>2, <1>5, <1>13, <3>2
    <3>4. batch.last = first + n - 1
      BY <1>1, <1>16, <3>1
    <3> QED BY <1>3, <3>3, <3>4
  <2>4. from + 0 = from /\ from \in Nat /\ after + 0 = after
    BY <1>2, <1>5, <1>17, <1>18
  <2>5. SubSeq(ms, from + 1, from) = << >>
    <3>1. from = n
      BY <1>1, <1>2, <1>3, <1>17, <2>3
    <3>2. SubSeq(ms, from + 1, from) \in Seq(Cell) /\ Len(SubSeq(ms, from + 1, from)) = from - (from + 1) + 1
      <4>1. from + 1 \in Nat /\ 1 <= from + 1 /\ from + 1 <= from + 1 /\ from <= Len(ms)
        BY <2>4, <3>1 DEF n
      <4> QED BY <1>1, <2>4, <4>1, Slice
    <3>3. Len(SubSeq(ms, from + 1, from)) = 0
      BY <2>4, <3>2
    <3> QED BY <3>2, <3>3, EmptySeq
  <2>6. /\ batch.messages = SubSeq(ms, from + 1, from + Len(batch.messages))
        /\ batch.last = after + Len(batch.messages)
        /\ ~(after < fh.lastIndex)
    BY <1>2, <2>1, <2>3, <2>4, <2>5
  <2> QED BY <2>6 DEF ms, from, first, batch
<1>21. CASE offset < c
  <2> DEFINE x == SubSeq(ms, a, e - 1)
             z == e - 1
             m == offset + 1
             k == c - offset
  <2>1. z \in Nat /\ a <= z + 1 /\ z <= n /\ z - a + 1 = c
    BY <1>19
  <2>2. x \in Seq(Cell) /\ Len(x) = c
    <3>1. z <= Len(ms)
      BY <2>1 DEF n
    <3> HIDE DEF z
    <3>2. SubSeq(ms, a, z) \in Seq(Cell) /\ Len(SubSeq(ms, a, z)) = z - a + 1
      BY <1>1, <1>5, <2>1, <3>1, Slice
    <3> QED BY <2>1, <3>2 DEF z
  <2>3. batch.messages = SubSeq(x, m, c)
    <3>1. ~(offset >= c)
      BY <1>13, <1>18, <1>21
    <3>2. batch.messages = SubSeq(read, m, Len(read))
      BY <1>16, <3>1
    <3> QED BY <1>6, <2>2, <3>2
  <2>4. /\ m \in Nat /\ 1 <= m /\ m <= c + 1 /\ c <= z - a + 1 /\ a + m - 1 = from + 1
        /\ a + c - 1 = z /\ k \in Nat /\ k >= 1 /\ c - m + 1 = k /\ z = from + k
        /\ first + e - 2 = after + k
    <3>1. m \in Nat /\ 1 <= m /\ m <= c + 1 /\ k \in Nat /\ k >= 1 /\ c - m + 1 = k
      BY <1>13, <1>18, <1>21
    <3>2. c <= z - a + 1 /\ a + c - 1 = z
      BY <1>5, <1>13, <2>1
    <3>3. a + m - 1 = from + 1 /\ z = from + k
      BY <1>19
    <3>4. first + e - 2 = after + k
      <4>1. after = first + from - 1 /\ e = from + k + 1
        <5>1. after = first + from - 1
          BY <1>1, <1>2, <1>17
        <5>2. e = from + k + 1
          BY <1>19
        <5> QED BY <5>1, <5>2
      <4>2. from \in Int /\ k \in Int
        BY <1>19
      <4> HIDE DEF k
      <4> QED BY <1>1, <4>1, <4>2
    <3> QED BY <3>1, <3>2, <3>3, <3>4
  <2>5. Len(batch.messages) = k /\ batch.messages # << >>
    <3> HIDE DEF x, m, k
    <3>1. Len(SubSeq(x, m, c)) = c - m + 1
      <4>1. c <= Len(x)
        BY <1>13, <2>2
      <4> QED BY <1>13, <2>2, <2>4, <4>1, Slice
    <3>2. Len(batch.messages) = k
      BY <2>3, <2>4, <3>1
    <3>3. Len(<< >>) = 0
      OBVIOUS
    <3> QED BY <2>4, <3>2, <3>3
  <2>6. batch.messages = SubSeq(ms, from + 1, from + k)
    <3> HIDE DEF m, k, z
    <3>1. z <= Len(ms)
      BY <2>1 DEF n
    <3>2. SubSeq(SubSeq(ms, a, z), m, c) = SubSeq(ms, a + m - 1, a + c - 1)
      <4>1. /\ ms \in Seq(Cell) /\ a \in Nat /\ z \in Nat /\ 1 <= a /\ a <= z + 1 /\ z <= Len(ms)
            /\ m \in Nat /\ c \in Nat /\ 1 <= m /\ m <= c + 1 /\ c <= z - a + 1
        BY <1>1, <1>19, <2>1, <2>4, <3>1
      <4> QED BY <4>1, SliceOfSlice
    <3> QED BY <2>3, <2>4, <3>2 DEF z
  <2> HIDE DEF k, x, m, z
  <2>7. /\ batch.messages = SubSeq(ms, from + 1, from + Len(batch.messages))
        /\ batch.last = after + Len(batch.messages)
    BY <1>16, <2>4, <2>5, <2>6
  <2> QED BY <2>5, <2>7 DEF ms, from, first, batch
<1>22. offset >= c \/ offset < c
  BY <1>13, <1>18
<1> QED BY <1>20, <1>21, <1>22

LEMMA IndexedIsExact ==
  ASSUME RecoverableInv, IndexInv
  PROVE  BatchesExact
<1> SUFFICES ASSUME Ready PROVE BatchesExact
  BY DEF BatchesExact
<1>1. AllRecordings(files) /\ FilesOpen(files, fh) /\ Index(files, fh, 0)
  BY ReadyIndexes DEF Indexes
<1>2. SettledMessages = Recorded(files, fh.recording)
  BY DEF Ready, SettledMessages, Settled, InReset
<1> QED BY <1>1, <1>2, BatchIs DEF BatchesExact

(* From every place in the history the blocks give what follows it, once   *)
(* and in order, through additions, blocks that are read and dropped, both *)
(* kinds of resets, crashes and loading (filedhistory.cpp, getBatch and    *)
(* findBlock).  A full reset while a streamed one is prepared is the       *)
(* exception, which ResetPending lets happen.                              *)
THEOREM BatchesAlwaysExact ==
  ASSUME "ResetPending" \notin Features
  PROVE  StoredSpec => []BatchesExact
<1>1. StoredInit => RecoverableInv /\ IndexInv
  BY InitRecoverable, InitIndex
<1>2. RecoverableInv /\ IndexInv /\ [Next]_vars => RecoverableInv' /\ IndexInv'
  BY NextRecoverable, NextIndexed
<1>3. RecoverableInv /\ IndexInv => BatchesExact
  BY IndexedIsExact
<1> QED BY <1>1, <1>2, <1>3, PTL DEF StoredSpec
=============================================================================
