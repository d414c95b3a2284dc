-------------------------- MODULE StoredDurableProofs --------------------------
(***************************************************************************)
(* That the files are an implementation of DurableHistory: wherever the    *)
(* server stops, it comes back with the history it had, less some last     *)
(* messages or a whole full reset; that the users of the session are those *)
(* of its history; and that ids some name has had are reused last.  Proved *)
(* for every value of the constants.                                       *)
(***************************************************************************)
EXTENDS StoredIndexProofs

----------------------------------------------------------------------------
(* The histories of DurableHistory.                                        *)

(* A history, by its fields.                                               *)
Hist(ms, first, last, size, base, state, ctx, stream, fork, streamed, start, n) ==
  [messages |-> ms, firstIndex |-> first, lastIndex |-> last, sizeInBytes |-> size,
   autoResetBaseSize |-> base, resetStreamState |-> state, ctxId |-> ctx,
   resetStream |-> stream, resetStreamIndex |-> fork, resetStreamSize |-> streamed,
   resetStreamStartIndex |-> start, resetStreamMessageCount |-> n]

HistFields ==
  {"messages", "firstIndex", "lastIndex", "sizeInBytes", "autoResetBaseSize", "resetStreamState",
   "ctxId", "resetStream", "resetStreamIndex", "resetStreamSize", "resetStreamStartIndex",
   "resetStreamMessageCount"}

IsHist(h) == h = [f \in HistFields |-> h[f]]

(* A history is made of its fields, ...                                    *)
LEMMA HistIs ==
  ASSUME NEW h, IsHist(h)
  PROVE  h = Hist(h.messages, h.firstIndex, h.lastIndex, h.sizeInBytes, h.autoResetBaseSize,
                  h.resetStreamState, h.ctxId, h.resetStream, h.resetStreamIndex,
                  h.resetStreamSize, h.resetStreamStartIndex, h.resetStreamMessageCount)
BY DEF IsHist, HistFields, Hist

(* ... and these are what it has.                                          *)
LEMMA HistHas ==
  ASSUME NEW ms, NEW first, NEW last, NEW size, NEW base, NEW state, NEW ctx,
         NEW stream, NEW fork, NEW streamed, NEW start, NEW n
  PROVE  LET h == Hist(ms, first, last, size, base, state, ctx, stream, fork, streamed, start, n)
         IN /\ IsHist(h) /\ h.messages = ms /\ h.firstIndex = first /\ h.lastIndex = last
            /\ h.sizeInBytes = size /\ h.autoResetBaseSize = base /\ h.resetStreamState = state
            /\ h.ctxId = ctx /\ h.resetStream = stream /\ h.resetStreamIndex = fork
            /\ h.resetStreamSize = streamed /\ h.resetStreamStartIndex = start
            /\ h.resetStreamMessageCount = n
BY DEF IsHist, HistFields, Hist

(* The one that is in the files.                                           *)
Held == InMemory(Settled, Streamed(Settled))

(* What is held of the files, field by field.                              *)
LEMMA HeldIs ==
  LET h == Settled
      s == Streamed(h)
  IN Held = Hist(SettledMessages, h.firstIndex, h.lastIndex, h.sizeInBytes, h.autoResetBaseSize,
                 h.resetStreamState, h.ctxId, s.messages, s.index, s.size, s.start, s.count)
BY DEF Held, InMemory, Hist

(* While no stream is on, its fields are blank.                            *)
LEMMA LiveIs ==
  ASSUME NEW ms, NEW first, NEW last, NEW size, NEW base, NEW state, NEW ctx,
         NEW stream, NEW fork, NEW streamed, NEW start, NEW n
  PROVE  LET h == Hist(ms, first, last, size, base, state, ctx, stream, fork, streamed, start, n)
         IN /\ state # "None" => Durable!Live(h) = h
            /\ state = "None" =>
                 Durable!Live(h) = Hist(ms, first, last, size, base, state, ctx, << >>, -1, 0, 0, 0)
BY DEF Durable!Live, Hist

(* Messages are put at the end and counted, and nothing else changes.      *)
LEMMA AddedIs ==
  ASSUME NEW h, IsHist(h), NEW more
  PROVE  LET g == Durable!addMessageInternal(h, more)
         IN /\ IsHist(g) /\ g.messages = h.messages \o more /\ g.lastIndex = h.lastIndex + Len(more)
            /\ g.sizeInBytes = h.sizeInBytes + Len(more)
            /\ \A f \in HistFields \ {"messages", "lastIndex", "sizeInBytes"} : g[f] = h[f]
BY DEF Durable!addMessageInternal, Durable!Size, IsHist, HistFields

----------------------------------------------------------------------------
(* What is on the disk.                                                    *)

(* The messages are neither a header nor a part of a message.              *)
LEMMA MessagesAreWhole ==
  /\ Messages \subseteq Cell /\ HeaderCell \in Cell /\ TornCell \in Cell
  /\ HeaderCell # TornCell /\ \A m \in Messages : m # TornCell
<1>1. \A m \in Messages : m.type # "Torn"
  BY DEF Messages, DrawMsg, JoinMsg, LeaveMsg, StreamStartMsg, ImageMsg, OwnerMsg, SoftResetMsg,
         CaughtUpMsg
<1>2. TornCell.type = "Torn" /\ HeaderCell.type = "Header"
  BY DEF TornCell, HeaderCell
<1> QED BY <1>1, <1>2 DEF Cell

(* The cells of a file are a header, these messages, and perhaps a part of *)
(* a message after them.                                                   *)
Holds(cells, ds) ==
  /\ ds \in Seq(Messages)
  /\ \E tail \in {<< >>, <<TornCell>>} : cells = (<<HeaderCell>> \o ds) \o tail

Tidy(cells) == Holds(cells, ScannedMessages(cells))

(* The messages that are on the disk when a recording is open.             *)
OpenTidy(fs, f) ==
  /\ f.unsaved \in Seq(Messages)
  /\ Tidy(fs[f.name])
  /\ Len(ScannedMessages(fs[f.name])) = f.pos - Len(f.unsaved) - 1

(* The cells of a file: header, messages, and maybe one torn cell.         *)
LEMMA HeldCells ==
  ASSUME NEW ds \in Seq(Messages), NEW tail \in {<< >>, <<TornCell>>}
  PROVE  LET hd    == <<HeaderCell>> \o ds
             cells == hd \o tail
             n     == Len(ds)
         IN /\ hd \in Seq(Cell) /\ tail \in Seq(Cell) /\ cells \in Seq(Cell) /\ n \in Nat
            /\ ds \in Seq(Cell)
            /\ Len(hd) = n + 1 /\ Len(tail) \in {0, 1} /\ Len(cells) = n + 1 + Len(tail)
            /\ hd[1] = HeaderCell /\ \A i \in 2 .. (n + 1) : hd[i] \in Messages
            /\ SubSeq(hd, 2, n + 1) = ds
            /\ SubSeq(cells, 2, n + 1) = ds
            /\ SubSeq(cells, 1, n + 1) = hd
            /\ SubSeq(cells, n + 2, Len(cells)) = tail
<1> DEFINE h     == <<HeaderCell>>
           hd    == h \o ds
           cells == hd \o tail
           n     == Len(ds)
           k     == Len(tail)
<1>1. ds \in Seq(Cell) /\ n \in Nat
  BY MessagesAreWhole, SeqMonotonic, LenProperties
<1>2. h \in Seq(Cell) /\ Len(h) = 1 /\ h[1] = HeaderCell
  BY MessagesAreWhole
<1>3. tail \in Seq(Cell) /\ k \in {0, 1}
  <2>1. << >> \in Seq(Cell) /\ Len(<< >>) = 0
    BY EmptySeq
  <2>2. <<TornCell>> \in Seq(Cell) /\ Len(<<TornCell>>) = 1
    BY MessagesAreWhole
  <2> QED BY <2>1, <2>2
<1> HIDE DEF h
<1>12. hd \in Seq(Cell) /\ Len(hd) = 1 + n
       /\ \A i \in 1 .. (1 + n) : hd[i] = IF i <= 1 THEN h[i] ELSE ds[i - 1]
  BY <1>1, <1>2, ConcatProperties
<1>4. hd \in Seq(Cell) /\ Len(hd) = n + 1 /\ hd[1] = HeaderCell
  <2> HIDE DEF hd, n
  <2> QED BY <1>1, <1>2, <1>12
<1>5. \A i \in 2 .. (n + 1) : hd[i] \in Messages
  <2> SUFFICES ASSUME NEW i \in 2 .. (n + 1) PROVE hd[i] \in Messages
    OBVIOUS
  <2>1. i \in 1 .. (1 + n) /\ ~(i <= 1) /\ i - 1 \in 1 .. n
    BY <1>1
  <2>2. hd[i] = ds[i - 1]
    BY <1>12, <2>1
  <2> QED BY <2>1, <2>2, ElementOfSeq
<1>6. SubSeq(hd, 2, n + 1) = ds
  <2> DEFINE a == 1
  <2>1. SubSeq(hd, Len(h) + a, Len(h) + n) = SubSeq(ds, a, n)
    <3>1. 1 <= a /\ a <= n + 1 /\ n <= Len(ds) /\ a \in Nat
      BY <1>1
    <3> HIDE DEF n, a
    <3> QED BY <1>1, <1>2, <3>1, SliceOfSecond
  <2>2. SubSeq(ds, a, n) = ds
    BY SubSeqFull
  <2>3. Len(h) + a = 2 /\ Len(h) + n = n + 1
    <3> HIDE DEF n
    <3> QED BY <1>1, <1>2
  <2> HIDE DEF hd, n, a
  <2> QED BY <2>1, <2>2, <2>3
<1> HIDE DEF hd, n
<1>7. cells \in Seq(Cell) /\ Len(cells) = n + 1 + k
  <2>1. cells \in Seq(Cell) /\ Len(cells) = Len(hd) + k
    BY <1>3, <1>4, ConcatProperties
  <2> HIDE DEF k
  <2> QED BY <1>4, <2>1
<1>8. SubSeq(cells, 2, n + 1) = SubSeq(hd, 2, n + 1) /\ SubSeq(cells, 1, n + 1) = SubSeq(hd, 1, n + 1)
  <2> DEFINE e == n + 1
  <2>1. 1 \in Nat /\ 2 \in Nat /\ e \in Nat /\ 1 <= 2 /\ 1 <= 1 /\ 2 <= e + 1 /\ 1 <= e + 1 /\ e <= Len(hd)
    BY <1>1, <1>4
  <2> HIDE DEF e
  <2>2. SubSeq(cells, 2, e) = SubSeq(hd, 2, e) /\ SubSeq(cells, 1, e) = SubSeq(hd, 1, e)
    BY <1>3, <1>4, <2>1, SliceOfFirst
  <2> QED BY <2>2 DEF e
<1>9. SubSeq(hd, 1, n + 1) = hd
  BY <1>4, SubSeqFull
<1>10. SubSeq(cells, n + 2, Len(cells)) = tail
  <2> DEFINE a == 1
  <2>1. SubSeq(cells, Len(hd) + a, Len(hd) + k) = SubSeq(tail, a, k)
    <3>1. 1 <= a /\ a <= k + 1 /\ k <= Len(tail) /\ a \in Nat /\ k \in Nat
      BY <1>3
    <3> HIDE DEF k, a
    <3> QED BY <1>3, <1>4, <3>1, SliceOfSecond
  <2>2. SubSeq(tail, a, k) = tail
    BY <1>3, SubSeqFull
  <2>3. Len(hd) + a = n + 2 /\ Len(hd) + k = Len(cells)
    <3> HIDE DEF k, cells
    <3> QED BY <1>1, <1>3, <1>4, <1>7
  <2> HIDE DEF k, cells, a
  <2> QED BY <2>1, <2>2, <2>3
<1> HIDE DEF cells, k
<1>11. /\ hd \in Seq(Cell) /\ tail \in Seq(Cell) /\ cells \in Seq(Cell) /\ n \in Nat /\ ds \in Seq(Cell)
       /\ Len(hd) = n + 1 /\ k \in {0, 1} /\ Len(cells) = n + 1 + k
       /\ hd[1] = HeaderCell /\ \A i \in 2 .. (n + 1) : hd[i] \in Messages
       /\ SubSeq(hd, 2, n + 1) = ds
       /\ SubSeq(cells, 2, n + 1) = ds
       /\ SubSeq(cells, 1, n + 1) = hd
       /\ SubSeq(cells, n + 2, Len(cells)) = tail
  BY <1>1, <1>3, <1>4, <1>5, <1>6, <1>7, <1>8, <1>9, <1>10
<1> QED BY <1>11 DEF hd, h, cells, n, k

(* What is read of it is the messages.                                     *)
LEMMA HoldsScanned ==
  ASSUME NEW cells, NEW ds, Holds(cells, ds)
  PROVE  ScannedMessages(cells) = ds /\ Tidy(cells)
<1>1. PICK tail \in {<< >>, <<TornCell>>} : cells = (<<HeaderCell>> \o ds) \o tail
  BY DEF Holds
<1> DEFINE hd == <<HeaderCell>> \o ds
           n  == Len(ds)
<1>2. /\ hd \in Seq(Cell) /\ cells \in Seq(Cell) /\ n \in Nat
      /\ Len(hd) = n + 1 /\ Len(cells) = n + 1 + Len(tail)
      /\ hd[1] = HeaderCell /\ \A i \in 2 .. (n + 1) : hd[i] \in Messages
      /\ SubSeq(cells, 2, n + 1) = ds
      /\ cells = hd \o tail
  BY <1>1, HeldCells DEF Holds
<1> HIDE DEF hd, n
<1>3. CASE tail = << >>
  <2>1. cells = hd /\ Len(cells) = n + 1
    BY <1>2, <1>3, ConcatEmptySeq
  <2>2. Last(cells) = hd[n + 1]
    BY <2>1 DEF Last
  <2>3. hd[n + 1] # TornCell
    <3>1. CASE n = 0
      BY <1>2, <3>1, MessagesAreWhole
    <3>2. CASE n # 0
      <4>1. n + 1 \in 2 .. (n + 1)
        BY <1>2, <3>2
      <4> QED BY <1>2, <4>1, MessagesAreWhole
    <3> QED BY <3>1, <3>2
  <2>4. ScannedMessages(cells) = SubSeq(cells, 2, n + 1)
    BY <2>1, <2>2, <2>3 DEF ScannedMessages
  <2> QED BY <1>2, <2>4 DEF Tidy
<1>4. CASE tail = <<TornCell>>
  <2>1. Len(tail) = 1 /\ tail[1] = TornCell /\ tail \in Seq(Cell)
    BY <1>4, MessagesAreWhole
  <2>2. Len(cells) = n + 2 /\ Len(cells) - 1 = n + 1
    BY <1>2, <2>1
  <2>3. cells[n + 2] = TornCell
    <3>1. n + 2 \in 1 .. (Len(hd) + Len(tail)) /\ ~(n + 2 <= Len(hd)) /\ n + 2 - Len(hd) = 1
      BY <1>2, <2>1
    <3> QED BY <1>2, <2>1, <3>1, ConcatProperties
  <2>4. ScannedMessages(cells) = SubSeq(cells, 2, n + 1)
    BY <2>2, <2>3 DEF ScannedMessages, Last
  <2> QED BY <1>2, <2>4 DEF Tidy
<1> QED BY <1>3, <1>4

(* What an open recording has: what is on the disk, and what is not yet.   *)
LEMMA TidyRecorded ==
  ASSUME NEW fs, NEW f, AllRecordings(fs), Open(fs, f), OpenTidy(fs, f)
  PROVE  LET ds == ScannedMessages(fs[f.name])
         IN /\ ds \in Seq(Messages) /\ f.unsaved \in Seq(Messages)
            /\ Recorded(fs, f) = ds \o f.unsaved /\ Recorded(fs, f) \in Seq(Messages)
            /\ Len(Recorded(fs, f)) = Len(ds) + Len(f.unsaved)
            /\ Len(ds) \in Nat /\ Len(f.unsaved) \in Nat /\ f.pos \in Nat
            /\ f.pos = 1 + Len(ds) + Len(f.unsaved)
<1> DEFINE cells == fs[f.name]
           ds    == ScannedMessages(cells)
           u     == f.unsaved
           n     == Len(ds)
           k     == Len(u)
<1>1. IsRecording(cells)
  BY DEF AllRecordings, Open
<1>2. /\ ds \in Seq(Messages) /\ u \in Seq(Messages) /\ n \in Nat /\ k \in Nat
      /\ n = f.pos - k - 1 /\ f.pos \in Nat /\ f.unsaved \in Seq(Cell)
  BY LenProperties DEF OpenTidy, Tidy, Holds, Open
<1>3. ds \in Seq(Cell) /\ 1 + n <= Len(cells) /\ ds = SubSeq(cells, 2, 1 + n)
  BY <1>1, ScannedIs
<1> HIDE DEF ds, cells
<1>4. ds \o u \in Seq(Messages) /\ Len(ds \o u) = n + k
  BY <1>2, ConcatProperties
<1>5. f.pos = 1 + n + k /\ f.pos = 1 + Len(ds \o u)
  <2> DEFINE p == f.pos
             l == Len(ds \o u)
  <2>1. p \in Nat /\ n = p - k - 1 /\ n \in Nat /\ k \in Nat /\ l = n + k
    BY <1>2, <1>4
  <2> HIDE DEF n, k, u, p, l
  <2>2. p = 1 + n + k /\ p = 1 + l
    BY <2>1
  <2> QED BY <2>2 DEF p, l
<1>6. Recorded(fs, f) = ds \o u
  BY <1>3, <1>5, LoadedRecorded DEF cells
<1> QED BY <1>2, <1>4, <1>5, <1>6 DEF ds, cells

(* Writing leaves the disk alone.                                          *)
LEMMA WrittenTidy ==
  ASSUME NEW fs, NEW f, AllRecordings(fs), Open(fs, f), OpenTidy(fs, f), NEW ms \in Seq(Messages)
  PROVE  OpenTidy(fs, Written(f, ms))
<1> DEFINE g == Written(f, ms)
           u == f.unsaved
           n == Len(ScannedMessages(fs[f.name]))
           v == u \o ms
           k == Len(u)
           l == Len(ms)
           p == f.pos
<1>1. g.name = f.name /\ g.pos = p + l /\ g.unsaved = v
  BY DEF Written, Open
<1>2. u \in Seq(Messages) /\ Tidy(fs[f.name]) /\ n = p - k - 1 /\ p \in Nat
  BY DEF OpenTidy, Open
<1>3. v \in Seq(Messages) /\ Len(v) = k + l /\ k \in Nat /\ l \in Nat
  BY <1>2, ConcatProperties, LenProperties
<1>4. n = (p + l) - Len(v) - 1
  <2> HIDE DEF n, p, k, l, v
  <2> QED BY <1>2, <1>3
<1> HIDE DEF g
<1>5. g.unsaved \in Seq(Messages) /\ Tidy(fs[g.name])
  BY <1>1, <1>2, <1>3
<1>6. Len(ScannedMessages(fs[g.name])) = g.pos - Len(g.unsaved) - 1
  <2> HIDE DEF p, l, v
  <2> QED BY <1>1, <1>4
<1>7. OpenTidy(fs, g)
  BY <1>5, <1>6 DEF OpenTidy
<1> QED BY <1>7 DEF g

(* The cells from a place behind what is on the disk.                      *)
LEMMA BehindDisk ==
  ASSUME NEW fs, NEW f, AllRecordings(fs), Open(fs, f), OpenTidy(fs, f), NEW k \in Nat
  PROVE  LET cells == fs[f.name]
             n     == Len(ScannedMessages(cells))
         IN SubSeq(cells, n + 1 + k + 1, Len(cells)) \in {<< >>, <<TornCell>>}
<1> DEFINE cells == fs[f.name]
           ds    == ScannedMessages(cells)
           n     == Len(ds)
           l     == Len(cells)
<1>1. PICK tail \in {<< >>, <<TornCell>>} : cells = (<<HeaderCell>> \o ds) \o tail
  BY DEF OpenTidy, Tidy, Holds
<1>2. /\ n \in Nat /\ Len(tail) \in {0, 1} /\ l = n + 1 + Len(tail)
      /\ SubSeq(cells, n + 2, l) = tail
  <2>1. ds \in Seq(Messages)
    BY DEF OpenTidy, Tidy, Holds
  <2> HIDE DEF ds, cells
  <2> QED BY <1>1, <2>1, HeldCells
<1> HIDE DEF cells, n, l
<1>3. CASE k = 0
  <2>1. n + 1 + k + 1 = n + 2
    BY <1>2, <1>3
  <2> QED BY <1>2, <2>1 DEF cells, n, l
<1>4. CASE k # 0
  <2> DEFINE a == n + 1 + k + 1
  <2>1. n \in Int /\ l \in Int /\ l <= n + 2 /\ k \in Nat /\ k > 0
    BY <1>2, <1>4, SMTT(20)
  <2>3. a \in Int /\ l \in Int /\ l < a
    BY <2>1
  <2> HIDE DEF a
  <2>2. SubSeq(cells, a, l) = << >>
    BY <2>3, SubSeqEmpty
  <2> QED BY <2>2 DEF a, cells, n, l
<1> QED BY <1>3, <1>4

(* A file is what the process sees of it once it is flushed.               *)
LEMMA SeenHolds ==
  ASSUME NEW fs, NEW f, AllRecordings(fs), Open(fs, f), OpenTidy(fs, f)
  PROVE  Holds(Seen(fs, f), Recorded(fs, f))
<1> DEFINE cells == fs[f.name]
           ds    == ScannedMessages(cells)
           u     == f.unsaved
           n     == Len(ds)
           k     == Len(u)
           h     == <<HeaderCell>>
           rest  == SubSeq(cells, f.pos + 1, Len(cells))
<1>1. /\ ds \in Seq(Messages) /\ u \in Seq(Messages) /\ n \in Nat /\ k \in Nat /\ f.pos = 1 + n + k
      /\ Recorded(fs, f) = ds \o u /\ Recorded(fs, f) \in Seq(Messages)
  BY TidyRecorded
<1>2. PICK tail \in {<< >>, <<TornCell>>} : cells = (h \o ds) \o tail
  BY DEF OpenTidy, Tidy, Holds
<1>3. SubSeq(cells, 1, n + 1) = h \o ds
  <2> HIDE DEF ds, cells
  <2>1. SubSeq((h \o ds) \o tail, 1, n + 1) = h \o ds
    BY <1>1, HeldCells
  <2> QED BY <1>2, <2>1
<1>4. rest \in {<< >>, <<TornCell>>}
  <2>1. f.pos + 1 = n + 1 + k + 1
    <3> HIDE DEF n, k
    <3> QED BY <1>1
  <2> QED BY <1>1, <2>1, BehindDisk
<1>5. f.pos - k = n + 1
  <2> HIDE DEF n, k
  <2> QED BY <1>1
<1>6. Seen(fs, f) = (SubSeq(cells, 1, f.pos - k) \o u) \o rest
  BY DEF Seen
<1>7. (h \o ds) \o u = h \o (ds \o u)
  <2>1. h \in Seq(Cell)
    BY MessagesAreWhole
  <2>2. ds \in Seq(Cell) /\ u \in Seq(Cell)
    BY <1>1, MessagesAreWhole, SeqMonotonic
  <2> HIDE DEF h, ds, u
  <2> QED BY <2>1, <2>2, CellsJoin
<1> HIDE DEF h, ds, u, n, k, cells, rest
<1>8. Seen(fs, f) = (h \o Recorded(fs, f)) \o rest
  BY <1>1, <1>3, <1>5, <1>6, <1>7
<1> QED BY <1>1, <1>4, <1>8 DEF Holds, h

(* After it is flushed all of it is on the disk.                           *)
LEMMA FlushedTidy ==
  ASSUME NEW fs, NEW f, AllRecordings(fs), Open(fs, f), OpenTidy(fs, f)
  PROVE  LET gs == Flushed(fs, f)
         IN /\ OpenTidy(gs, [f EXCEPT !.unsaved = << >>])
            /\ ScannedMessages(gs[f.name]) = Recorded(fs, f)
<1> DEFINE gs == Flushed(fs, f)
           g  == [f EXCEPT !.unsaved = << >>]
           r  == Recorded(fs, f)
<1>1. gs[f.name] = Seen(fs, f)
  BY DEF Flushed, Open
<1>2. ScannedMessages(gs[f.name]) = r /\ Tidy(gs[f.name])
  BY <1>1, SeenHolds, HoldsScanned
<1>3. g.name = f.name /\ g.pos = f.pos /\ g.unsaved = << >>
  BY DEF Open
<1>4. << >> \in Seq(Messages) /\ Len(<< >>) = 0
  BY EmptySeq
<1>5. Len(r) = f.pos - 1 /\ f.pos \in Nat
  BY RecordedIs
<1> HIDE DEF g, gs, r
<1>6. Len(r) = g.pos - Len(g.unsaved) - 1
  BY <1>3, <1>4, <1>5
<1>7. OpenTidy(gs, g)
  BY <1>2, <1>3, <1>4, <1>6 DEF OpenTidy
<1> QED BY <1>2, <1>7 DEF g, gs, r

(* A recording does not change with other files.                           *)
LEMMA SameFileTidy ==
  ASSUME NEW fs, NEW gs, NEW f, gs[f.name] = fs[f.name], OpenTidy(fs, f)
  PROVE  OpenTidy(gs, f)
BY DEF OpenTidy

(* A new recording has nothing.                                            *)
LEMMA NewTidy ==
  ASSUME NEW fs, NEW name, fs[name] = <<HeaderCell>>
  PROVE  OpenTidy(fs, openRecording(name)) /\ ScannedMessages(fs[name]) = << >>
<1> DEFINE f == openRecording(name)
<1>1. f.name = name /\ f.pos = 1 /\ f.unsaved = << >>
  BY DEF openRecording
<1>2. << >> \in Seq(Messages) /\ Len(<< >>) = 0
  BY EmptySeq
<1>3. <<HeaderCell>> = (<<HeaderCell>> \o << >>) \o << >>
  <2>1. <<HeaderCell>> \in Seq(Cell)
    BY MessagesAreWhole
  <2> QED BY <2>1, ConcatEmptySeq
<1>4. Holds(fs[name], << >>)
  BY <1>2, <1>3 DEF Holds
<1>5. ScannedMessages(fs[name]) = << >> /\ Tidy(fs[name])
  BY <1>4, HoldsScanned
<1> HIDE DEF f
<1>6. OpenTidy(fs, f)
  BY <1>1, <1>2, <1>5 DEF OpenTidy
<1> QED BY <1>5, <1>6 DEF f

(* The first cells of a file are the header and the first messages.        *)
LEMMA FirstCells ==
  ASSUME NEW r \in Seq(Messages), NEW m \in 0 .. Len(r), NEW rest \in {<< >>, <<TornCell>>}
  PROVE  SubSeq((<<HeaderCell>> \o r) \o rest, 1, m + 1) = <<HeaderCell>> \o SubSeq(r, 1, m)
<1> DEFINE h == <<HeaderCell>>
           n == Len(r)
           x == SubSeq(r, 1, m)
           y == SubSeq(r, m + 1, n)
           hd == h \o r
           hx == h \o x
<1>1. r \in Seq(Cell) /\ n \in Nat /\ m \in Nat /\ m <= n
  BY MessagesAreWhole, SeqMonotonic, LenProperties
<1>2. hd \in Seq(Cell) /\ rest \in Seq(Cell) /\ Len(hd) = n + 1
  BY HeldCells
<1>3. x \in Seq(Cell) /\ Len(x) = m /\ \A i \in 1 .. m : x[i] = r[i]
  <2> DEFINE a == 1
  <2>1. a \in Nat /\ 1 <= a /\ a <= m + 1 /\ m <= n /\ m - a + 1 = m /\ a - 1 = 0
    BY <1>1
  <2>2. SubSeq(r, a, m) \in Seq(Cell) /\ Len(SubSeq(r, a, m)) = m - a + 1
        /\ \A i \in 1 .. (m - a + 1) : SubSeq(r, a, m)[i] = r[a + i - 1]
    <3> HIDE DEF a
    <3> QED BY <1>1, <2>1, Slice
  <2> QED BY <1>1, <2>1, <2>2
<1>4. y \in Seq(Cell) /\ x \o y = r
  <2> DEFINE a == 1
             b == m + 1
  <2>1. a \in Nat /\ 1 <= a /\ a <= m + 1 /\ m <= n /\ m \in Nat /\ n \in Nat
    BY <1>1
  <2>5. b \in Nat /\ 1 <= b /\ b <= n + 1 /\ n <= Len(r)
    BY <1>1
  <2>2. SubSeq(r, a, m) \o SubSeq(r, m + 1, n) = SubSeq(r, a, n)
    <3>1. n <= Len(r)
      BY <1>1
    <3> HIDE DEF a, n
    <3> QED BY <1>1, <2>1, <3>1, SlicesJoin
  <2>3. SubSeq(r, b, n) \in Seq(Cell)
    <3> HIDE DEF b, n
    <3> QED BY <1>1, <2>1, <2>5, Slice
  <2>4. SubSeq(r, a, n) = r
    BY <1>1, SubSeqFull
  <2> QED BY <2>2, <2>3, <2>4
<1>5. x \in Seq(Messages)
  <2> HIDE DEF x, n
  <2>1. \A i \in 1 .. m : r[i] \in Messages
    BY <1>1, ElementOfSeq DEF n
  <2>2. x \in [1 .. m -> Messages]
    BY <1>1, <1>3, <2>1, LenProperties
  <2> QED BY <1>1, <2>2, SeqDef
<1>6. hx \in Seq(Cell) /\ Len(hx) = m + 1
  <2> HIDE DEF x
  <2> QED BY <1>3, <1>5, HeldCells
<1>7. hd = hx \o y
  <2>1. h \in Seq(Cell)
    BY MessagesAreWhole
  <2> HIDE DEF h, x, y
  <2> QED BY <1>3, <1>4, <2>1, CellsJoin
<1>8. SubSeq(hd, 1, m + 1) = SubSeq(hx, 1, m + 1) /\ SubSeq(hd \o rest, 1, m + 1) = SubSeq(hd, 1, m + 1)
  <2> DEFINE a == 1
             e == m + 1
  <2>1. a \in Nat /\ e \in Nat /\ 1 <= a /\ a <= e + 1 /\ e <= Len(hx) /\ e <= Len(hd)
    BY <1>1, <1>2, <1>6
  <2> HIDE DEF a, e, hx, hd, y
  <2>2. SubSeq(hx \o y, a, e) = SubSeq(hx, a, e)
    BY <1>4, <1>6, <2>1, SliceOfFirst
  <2>3. SubSeq(hd \o rest, a, e) = SubSeq(hd, a, e)
    BY <1>2, <2>1, SliceOfFirst
  <2> QED BY <1>7, <2>2, <2>3 DEF a, e
<1>9. SubSeq(hx, 1, m + 1) = hx
  BY <1>6, SubSeqFull
<1> QED BY <1>8, <1>9

(* What a crash leaves of the recording that is written.                   *)
Crashed(fs, f, k, torn) ==
  LET cells == fs[f.name]
      at    == f.pos - Len(f.unsaved) + k
  IN SubSeq(Seen(fs, f), 1, at) \o
     (IF torn THEN <<TornCell>> ELSE SubSeq(cells, at + 1, Len(cells)))

(* A crash leaves the first messages, however much of the rest it tears.   *)
LEMMA CrashedHolds ==
  ASSUME NEW fs, NEW f, AllRecordings(fs), Open(fs, f), OpenTidy(fs, f),
         NEW k \in 0 .. Len(f.unsaved), NEW torn \in BOOLEAN
  PROVE  /\ Tidy(Crashed(fs, f, k, torn))
         /\ ScannedMessages(Crashed(fs, f, k, torn)) =
              SubSeq(Recorded(fs, f), 1, Len(ScannedMessages(fs[f.name])) + k)
<1> DEFINE cells == fs[f.name]
           n     == Len(ScannedMessages(cells))
           u     == f.unsaved
           r     == Recorded(fs, f)
           at    == f.pos - Len(u) + k
           m     == n + k
           x     == SubSeq(r, 1, m)
           tail  == IF torn THEN <<TornCell>> ELSE SubSeq(cells, at + 1, Len(cells))
           h     == <<HeaderCell>>
<1>1. /\ r \in Seq(Messages) /\ n \in Nat /\ Len(u) \in Nat /\ f.pos \in Nat
      /\ f.pos = 1 + n + Len(u) /\ Len(r) = n + Len(u)
  BY TidyRecorded
<1>2. k \in Nat /\ k <= Len(u)
  BY <1>1
<1>3. at = m + 1 /\ m \in 0 .. Len(r) /\ at + 1 = n + 1 + k + 1
  <2> DEFINE l == Len(u)
             p == f.pos
             c == Len(r)
  <2>1. n \in Nat /\ l \in Nat /\ p = 1 + n + l /\ c = n + l /\ k \in Nat /\ k <= l /\ at = p - l + k
    BY <1>1, <1>2
  <2> HIDE DEF n, l, p, c, at
  <2>2. at = m + 1 /\ m \in 0 .. c /\ at + 1 = n + 1 + k + 1
    BY <2>1
  <2> QED BY <2>2 DEF c
<1>4. tail \in {<< >>, <<TornCell>>}
  <2>1. SubSeq(cells, n + 1 + k + 1, Len(cells)) \in {<< >>, <<TornCell>>}
    BY <1>2, BehindDisk
  <2> HIDE DEF cells, n, at
  <2> QED BY <1>3, <2>1
<1>5. PICK rest \in {<< >>, <<TornCell>>} : Seen(fs, f) = (h \o r) \o rest
  <2>1. Holds(Seen(fs, f), r)
    BY SeenHolds
  <2> HIDE DEF r
  <2> QED BY <2>1 DEF Holds
<1> HIDE DEF r, m, tail
<1>6. SubSeq(Seen(fs, f), 1, at) = h \o x
  <2>1. SubSeq(Seen(fs, f), 1, m + 1) = h \o x
    <3> HIDE DEF h
    <3> QED BY <1>1, <1>3, <1>5, FirstCells DEF h
  <2> HIDE DEF at
  <2> QED BY <1>3, <2>1
<1>7. x \in Seq(Messages)
  <2> DEFINE a == 1
  <2> DEFINE c == Len(r)
  <2>3. c \in Nat /\ m \in 0 .. c
    BY <1>1, <1>3, LenProperties
  <2>1. a \in Nat /\ 1 <= a /\ m \in Nat /\ a <= m + 1 /\ m <= Len(r)
    <3> HIDE DEF c
    <3>1. m \in Nat /\ m <= c /\ 1 <= m + 1
      BY <2>3
    <3> QED BY <3>1 DEF c
  <2> HIDE DEF a
  <2>2. SubSeq(r, a, m) \in Seq(Messages)
    BY <1>1, <2>1, Slice
  <2> QED BY <2>2 DEF a
<1>8. Crashed(fs, f, k, torn) = (h \o x) \o tail
  BY <1>6 DEF Crashed, tail
<1> HIDE DEF x, h
<1>9. Holds(Crashed(fs, f, k, torn), x)
  BY <1>4, <1>7, <1>8 DEF Holds, h
<1>10. ScannedMessages(Crashed(fs, f, k, torn)) = x /\ Tidy(Crashed(fs, f, k, torn))
  BY <1>9, HoldsScanned
<1> QED BY <1>10 DEF x, r, m

(* The messages on the disk, more of them, and all of them.                *)
LEMMA MorePrefix ==
  ASSUME NEW S, NEW ds \in Seq(S), NEW u \in Seq(S), NEW k \in 0 .. Len(u)
  PROVE  LET r == ds \o u
             x == SubSeq(r, 1, Len(ds) + k)
         IN Durable!IsPrefixOf(ds, x) /\ Durable!IsPrefixOf(x, r)
<1> DEFINE r == ds \o u
           n == Len(ds)
           l == Len(u)
           c == Len(r)
           m == n + k
           a == 1
           x == SubSeq(r, a, m)
<1>1. n \in Nat /\ l \in Nat /\ r \in Seq(S) /\ c = n + l /\ k \in Nat /\ k <= l
  BY LenProperties, ConcatProperties
<1>2. /\ a \in Nat /\ m \in Nat /\ 1 <= a /\ a <= m + 1 /\ m <= c /\ a <= n + 1 /\ n <= m - a + 1 /\ n <= c
      /\ a + a - 1 = a /\ a + n - 1 = n /\ m - a + 1 = m /\ n <= m
  <2> HIDE DEF n, l, c
  <2> QED BY <1>1
<1> HIDE DEF a, m, r
<1>3. x \in Seq(S) /\ Len(x) = m
  <2>1. x \in Seq(S) /\ Len(x) = m - a + 1
    BY <1>1, <1>2, Slice
  <2> QED BY <1>2, <2>1
<1>4. SubSeq(x, a, n) = SubSeq(r, a, n)
  <2>1. SubSeq(x, a, n) = SubSeq(r, a + a - 1, a + n - 1)
    BY <1>1, <1>2, SliceOfSlice
  <2> QED BY <1>2, <2>1
<1>5. SubSeq(r, a, n) = ds
  <2>1. SubSeq(ds \o u, a, n) = SubSeq(ds, a, n)
    BY <1>1, <1>2, SliceOfFirst
  <2>2. SubSeq(ds, 1, n) = ds
    BY SubSeqFull
  <2> QED BY <2>1, <2>2 DEF a, r
<1>6. Durable!IsPrefixOf(ds, x)
  <2> HIDE DEF x
  <2> QED BY <1>2, <1>3, <1>4, <1>5 DEF Durable!IsPrefixOf, a
<1>7. Durable!IsPrefixOf(x, r)
  <2>1. x = SubSeq(r, 1, m)
    BY DEF a
  <2> HIDE DEF x
  <2> QED BY <1>2, <1>3, <2>1 DEF Durable!IsPrefixOf
<1> QED BY <1>6, <1>7 DEF r, x, m, a

----------------------------------------------------------------------------
(* Adding to the history.                                                  *)

(* What is added to the history is a message.                              *)
LEMMA MessagesAre ==
  /\ \A c \in Clients : JoinMsg(c) \in Messages /\ LeaveMsg(c) \in Messages
                        /\ StreamStartMsg(c, 0) \in Messages
  /\ \A c \in Clients, n \in Drawings : DrawMsg(c, n) \in Messages
  /\ {ImageMsg(0), OwnerMsg(0), SoftResetMsg, CaughtUpMsg} \subseteq Messages
BY DEF Messages

(* The messages are in their files, and counted.                           *)
Tidied(fs, h) ==
  /\ OpenTidy(fs, h.recording)
  /\ h.streamRecording # NoFile => OpenTidy(fs, h.streamRecording)
  /\ h.sizeInBytes \in Int

LeftAlone == Fields \ {"recording", "blocks", "lastIndex", "sizeInBytes"}

(* These messages have been written.                                       *)
Longer(f, g, more) ==
  /\ DOMAIN g = {"name", "pos", "unsaved"}
  /\ g.name = f.name /\ g.pos = f.pos + Len(more) /\ g.unsaved = f.unsaved \o more

(* These messages have been added, and nothing else has happened.          *)
Grows(h, g, more) ==
  /\ DOMAIN g = Fields
  /\ Longer(h.recording, g.recording, more)
  /\ g.lastIndex = h.lastIndex + Len(more)
  /\ g.sizeInBytes = h.sizeInBytes + Len(more)
  /\ \A f \in LeftAlone : g[f] = h[f]

Extends(h, g) == \E more \in Seq(Messages) : Grows(h, g, more)

Counts(h) == h.lastIndex \in Int /\ h.sizeInBytes \in Int

(* Writing messages, and then more.                                        *)
LEMMA LongerTwice ==
  ASSUME NEW fs, NEW f, Open(fs, f), NEW p \in Seq(Messages), NEW q \in Seq(Messages),
         NEW g, NEW h, Longer(f, g, p), Longer(g, h, q)
  PROVE  Longer(f, h, p \o q)
<1> DEFINE u == f.unsaved
           a == f.pos
           b == Len(p)
           c == Len(q)
           d == Len(p \o q)
<1>1. p \in Seq(Cell) /\ q \in Seq(Cell) /\ u \in Seq(Cell)
  BY MessagesAreWhole, SeqMonotonic DEF Open
<1>2. (u \o p) \o q = u \o (p \o q)
  <2> HIDE DEF u
  <2> QED BY <1>1, CellsJoin
<1>3. d = b + c /\ b \in Nat /\ c \in Nat /\ a \in Nat
  BY ConcatProperties, LenProperties DEF Open
<1>4. h.pos = (a + b) + c /\ h.unsaved = (u \o p) \o q /\ h.name = f.name
      /\ DOMAIN h = {"name", "pos", "unsaved"}
  BY DEF Longer
<1>5. (a + b) + c = a + d
  <2> HIDE DEF a, b, c, d
  <2> QED BY <1>3
<1> QED BY <1>2, <1>4, <1>5 DEF Longer

(* A recording stays in order, with the new messages at its end.           *)
LEMMA LongerIs ==
  ASSUME NEW fs, NEW f, AllRecordings(fs), Open(fs, f), OpenTidy(fs, f),
         NEW more \in Seq(Messages), NEW g, Longer(f, g, more)
  PROVE  /\ Open(fs, g) /\ OpenTidy(fs, g) /\ g.name = f.name
         /\ Recorded(fs, g) = Recorded(fs, f) \o more
<1> DEFINE w == Written(f, more)
<1>1. more \in Seq(Cell)
  BY MessagesAreWhole, SeqMonotonic
<1>2. Open(fs, w) /\ OpenTidy(fs, w) /\ w.name = f.name /\ Recorded(fs, w) = Recorded(fs, f) \o more
  BY <1>1, WrittenOpen, WrittenTidy, WrittenRecorded
<1>3. w.pos = f.pos + Len(more) /\ w.unsaved = f.unsaved \o more
  BY DEF Written, Open
<1> HIDE DEF w
<1>4. g.name = w.name /\ g.pos = w.pos /\ g.unsaved = w.unsaved /\ DOMAIN g = DOMAIN w
  BY <1>2, <1>3 DEF Longer, Open
<1>5. Recorded(fs, g) = Recorded(fs, w)
  BY <1>4 DEF Recorded, Seen
<1>6. Open(fs, g)
  BY <1>2, <1>4 DEF Open
<1>7. OpenTidy(fs, g)
  BY <1>2, <1>4 DEF OpenTidy
<1> QED BY <1>2, <1>4, <1>5, <1>6, <1>7

(* A history that grows, and grows again.                                  *)
LEMMA GrowsTwice ==
  ASSUME NEW fs, NEW h, Open(fs, h.recording), Counts(h), NEW g, NEW k,
         NEW p \in Seq(Messages), NEW q \in Seq(Messages), Grows(h, g, p), Grows(g, k, q)
  PROVE  Grows(h, k, p \o q)
<1>1. Len(p \o q) = Len(p) + Len(q) /\ Len(p) \in Nat /\ Len(q) \in Nat
  BY ConcatProperties, LenProperties
<1>2. Longer(h.recording, k.recording, p \o q)
  <2>1. Longer(h.recording, g.recording, p) /\ Longer(g.recording, k.recording, q)
    BY DEF Grows
  <2> QED BY <2>1, LongerTwice
<1>3. \A f \in LeftAlone : k[f] = h[f]
  BY DEF Grows
<1>4. k.lastIndex = h.lastIndex + Len(p \o q) /\ k.sizeInBytes = h.sizeInBytes + Len(p \o q)
  <2> DEFINE a == Len(p)
             b == Len(q)
             x == h.lastIndex
             y == h.sizeInBytes
  <2>1. k.lastIndex = (x + a) + b /\ k.sizeInBytes = (y + a) + b
    BY DEF Grows
  <2>2. x \in Int /\ y \in Int
    BY DEF Counts
  <2> HIDE DEF a, b, x, y
  <2>3. (x + a) + b = x + (a + b) /\ (y + a) + b = y + (a + b)
    BY <1>1, <2>2 DEF a, b
  <2> QED BY <1>1, <2>1, <2>3 DEF a, b, x, y
<1>5. DOMAIN k = Fields
  BY DEF Grows
<1> QED BY <1>2, <1>3, <1>4, <1>5 DEF Grows

(* Files stay open, and their messages in them.                            *)
LEMMA GrowsTidied ==
  ASSUME NEW fs, NEW h, AllRecordings(fs), FilesOpen(fs, h), Tidied(fs, h), Counts(h),
         NEW g, NEW more \in Seq(Messages), Grows(h, g, more)
  PROVE  FilesOpen(fs, g) /\ Tidied(fs, g) /\ Counts(g)
<1>1. Len(more) \in Nat
  BY LenProperties
<1>2. Open(fs, h.recording) /\ OpenTidy(fs, h.recording)
  BY DEF FilesOpen, Tidied
<1>3. /\ Longer(h.recording, g.recording, more) /\ DOMAIN g = Fields
      /\ g.streamRecording = h.streamRecording /\ g.fileCount = h.fileCount
      /\ g.forkPos = h.forkPos /\ g.resetStreamState = h.resetStreamState
  BY DEF Grows, LeftAlone, Fields
<1>4. Open(fs, g.recording) /\ g.recording.name = h.recording.name /\ OpenTidy(fs, g.recording)
  BY <1>2, <1>3, LongerIs
<1>6. g.lastIndex = h.lastIndex + Len(more) /\ g.sizeInBytes = h.sizeInBytes + Len(more)
  BY DEF Grows
<1>7. Counts(g)
  BY <1>1, <1>6 DEF Counts
<1>8. FilesOpen(fs, g)
  BY <1>3, <1>4 DEF FilesOpen
<1>9. Tidied(fs, g)
  BY <1>3, <1>4, <1>7 DEF Tidied, Counts
<1> QED BY <1>7, <1>8, <1>9

(* Growing keeps the files in order.                                       *)
LEMMA ExtendsTidied ==
  ASSUME NEW fs, NEW h, AllRecordings(fs), FilesOpen(fs, h), Tidied(fs, h), Counts(h),
         NEW g, Extends(h, g)
  PROVE  FilesOpen(fs, g) /\ Tidied(fs, g) /\ Counts(g)
BY GrowsTidied DEF Extends

(* Growing twice is growing.                                               *)
LEMMA ExtendsTwice ==
  ASSUME NEW fs, NEW h, AllRecordings(fs), FilesOpen(fs, h), Counts(h),
         NEW g, Extends(h, g), NEW k, Extends(g, k)
  PROVE  Extends(h, k)
<1>1. PICK p \in Seq(Messages) : Grows(h, g, p)
  BY DEF Extends
<1>2. PICK q \in Seq(Messages) : Grows(g, k, q)
  BY DEF Extends
<1>3. p \o q \in Seq(Messages)
  BY ConcatProperties
<1>4. Grows(h, k, p \o q)
  <2>1. Open(fs, h.recording)
    BY DEF FilesOpen
  <2> QED BY <1>1, <1>2, <2>1, GrowsTwice
<1> QED BY <1>3, <1>4 DEF Extends

(* Growing by nothing.                                                     *)
LEMMA GrowsNot ==
  ASSUME NEW fs, NEW h, FilesOpen(fs, h), Counts(h)
  PROVE  Grows(h, h, << >>)
<1> DEFINE f == h.recording
<1>1. << >> \in Seq(Messages) /\ Len(<< >>) = 0
  BY EmptySeq
<1>2. f.unsaved \o << >> = f.unsaved
  BY ConcatEmptySeq DEF FilesOpen, Open
<1>3. f.pos + 0 = f.pos /\ h.lastIndex + 0 = h.lastIndex /\ h.sizeInBytes + 0 = h.sizeInBytes
  BY DEF FilesOpen, Open, Counts
<1>4. Longer(f, f, << >>)
  BY <1>1, <1>2, <1>3 DEF Longer, FilesOpen, Open
<1>5. DOMAIN h = Fields
  BY DEF FilesOpen
<1>6. Grows(h, h, << >>)
  BY <1>1, <1>3, <1>4, <1>5 DEF Grows
<1> QED BY <1>6

(* A history that nothing is added to.                                     *)
LEMMA ExtendsNot ==
  ASSUME NEW fs, NEW h, FilesOpen(fs, h), Counts(h)
  PROVE  Extends(h, h)
BY GrowsNot, EmptySeq DEF Extends

(* addMessageInternal is growing by a message, ...                         *)
LEMMA AddInternalGrows ==
  ASSUME NEW fs, NEW h, FilesOpen(fs, h), NEW m \in Messages
  PROVE  Grows(h, AddInternal(h, m), <<m>>)
<1> DEFINE g == AddInternal(h, m)
           f == h.recording
<1>1. Len(<<m>>) = 1
  OBVIOUS
<1>2. DOMAIN f = {"name", "pos", "unsaved"}
  BY DEF FilesOpen, Open
<1>3. /\ DOMAIN g = Fields /\ g.recording = Written(f, <<m>>)
      /\ g.lastIndex = h.lastIndex + 1 /\ g.sizeInBytes = h.sizeInBytes + 1
      /\ \A x \in LeftAlone : g[x] = h[x]
  BY DEF FilesOpen, Fields, LeftAlone, AddInternal, historyAdd
<1>4. Longer(f, Written(f, <<m>>), <<m>>)
  BY <1>2 DEF Longer, Written
<1> HIDE DEF g
<1>5. Grows(h, g, <<m>>)
  BY <1>1, <1>3, <1>4 DEF Grows
<1> QED BY <1>5 DEF g

(* ... and so are addMessage and what is added around it, ...              *)
LEMMA AddExtends ==
  ASSUME NEW fs, NEW h, FilesOpen(fs, h), Counts(h), NEW m \in Messages,
         NEW g \in {addMessage(h, m), addToHistory(h, m)}
  PROVE  Extends(h, g)
<1>1. <<m>> \in Seq(Messages)
  OBVIOUS
<1>2. Extends(h, AddInternal(h, m))
  BY <1>1, AddInternalGrows DEF Extends
<1>3. Extends(h, h)
  BY ExtendsNot
<1>4. g \in {h, AddInternal(h, m)}
  BY DEF addMessage, addToHistory
<1> QED BY <1>2, <1>3, <1>4

(* Nothing or the one message.                                             *)
Perhaps(m) == {<< >>, <<m>>}

(* To add one message adds it, or nothing.                                 *)
LEMMA AddedPerhaps ==
  ASSUME NEW fs, NEW h, FilesOpen(fs, h), Counts(h), NEW m \in Messages,
         NEW g \in {h, addMessage(h, m), addToHistory(h, m)}
  PROVE  \E more \in Perhaps(m) : Grows(h, g, more)
<1>1. Grows(h, AddInternal(h, m), <<m>>)
  BY AddInternalGrows
<1>2. Grows(h, h, << >>)
  BY GrowsNot
<1>3. g \in {h, AddInternal(h, m)}
  BY DEF addMessage, addToHistory
<1> QED BY <1>1, <1>2, <1>3 DEF Perhaps

(* Adding two messages, each of which may find no room.                    *)
LEMMA AddTwice ==
  ASSUME NEW fs, NEW h, AllRecordings(fs), FilesOpen(fs, h), Tidied(fs, h), Counts(h),
         NEW g, Extends(h, g), NEW m \in Messages,
         NEW k \in {g, addMessage(g, m), addToHistory(g, m)}
  PROVE  Extends(h, k)
<1>1. FilesOpen(fs, g) /\ Tidied(fs, g) /\ Counts(g)
  BY ExtendsTidied
<1>2. Extends(g, k)
  BY <1>1, AddExtends, ExtendsNot
<1> QED BY <1>2, ExtendsTwice

(* ... the messages when a user joins, ...                                 *)
LEMMA WithJoinExtends ==
  ASSUME NEW fs, NEW h, AllRecordings(fs), FilesOpen(fs, h), Tidied(fs, h), Counts(h),
         NEW id \in Clients
  PROVE  Extends(h, WithJoin(h, id))
<1>1. Extends(h, addMessage(h, CaughtUpMsg))
  BY AddExtends, MessagesAre
<1>2. JoinMsg(id) \in Messages
  BY MessagesAre
<1> QED BY <1>1, <1>2, AddTwice DEF WithJoin

(* ... and those when a user leaves.                                       *)
LEMMA WithLeaveExtends ==
  ASSUME NEW fs, NEW h, NEW id \in Clients, NEW op, NEW others,
         LET a  == AbortedBy(h, id)
         IN AllRecordings(fs) /\ FilesOpen(fs, a) /\ Tidied(fs, a) /\ Counts(a)
  PROVE  Extends(AbortedBy(h, id), WithLeave(h, id, op, others))
<1> DEFINE a    == AbortedBy(h, id)
           left == addToHistory(a, LeaveMsg(id))
<1>1. LeaveMsg(id) \in Messages /\ OwnerMsg(0) \in Messages
  BY MessagesAre
<1>2. Extends(a, left)
  <2> HIDE DEF a
  <2> QED BY <1>1, AddExtends DEF a
<1>3. WithLeave(h, id, op, others) \in {left, addToHistory(left, OwnerMsg(0))}
  BY DEF WithLeave
<1> HIDE DEF a, left
<1>4. Extends(a, addToHistory(left, OwnerMsg(0)))
  BY <1>1, <1>2, AddTwice DEF a
<1> QED BY <1>2, <1>3, <1>4 DEF a

(* A stream that is given up leaves the rest.                              *)
LEMMA AbortIs ==
  ASSUME NEW fs, NEW h, NEW c, FilesOpen(fs, h)
  PROVE  LET g == AbortedBy(h, c)
         IN /\ \A f \in Fields \ {"fileCount", "streamFileCount", "streamBlocks",
                                  "streamRecording", "resetStreamState", "ctxId"} : g[f] = h[f]
            /\ ~StreamedResetBy(h, c) => g = h
            /\ StreamedResetBy(h, c) =>
                 g.resetStreamState = "None" /\ g.ctxId = 0 /\ g.streamRecording = NoFile
<1>1. CASE ~StreamedResetBy(h, c)
  BY <1>1 DEF AbortedBy
<1>2. CASE StreamedResetBy(h, c)
  BY <1>2 DEF AbortedBy, Discarded, FilesOpen, Fields
<1> QED BY <1>1, <1>2

(* Giving up a stream leaves the recording as it was.                      *)
LEMMA AbortTidied ==
  ASSUME NEW fs, NEW h, NEW c, AllRecordings(fs), FilesOpen(fs, h), Tidied(fs, h), Counts(h)
  PROVE  LET gs == filesAfterAbort(fs, h, c)
             g  == AbortedBy(h, c)
         IN /\ AllRecordings(gs) /\ FilesOpen(gs, g) /\ Tidied(gs, g) /\ Counts(g)
            /\ gs[h.recording.name] = fs[h.recording.name]
            /\ Recorded(gs, g.recording) = Recorded(fs, h.recording)
<1> DEFINE gs == filesAfterAbort(fs, h, c)
           g  == AbortedBy(h, c)
<1>1. AllRecordings(gs) /\ FilesOpen(gs, g) /\ g.recording = h.recording
  BY AbortOpen
<1>2. Counts(g) /\ g.sizeInBytes \in Int
  BY AbortIs DEF Counts, Fields
<1>3. gs[h.recording.name] = fs[h.recording.name]
  <2>1. CASE ~StreamedResetBy(h, c)
    BY <2>1 DEF filesAfterAbort
  <2>2. CASE StreamedResetBy(h, c)
    <3>1. gs = Without(fs, h.streamRecording.name)
      BY <2>2 DEF filesAfterAbort, discardFile, StreamedResetBy, FilesOpen
    <3>2. h.recording.name \in DOMAIN fs \ {h.streamRecording.name}
      BY <2>2 DEF FilesOpen, StreamedResetBy, Open
    <3> QED BY <3>1, <3>2 DEF Without
  <2> QED BY <2>1, <2>2
<1>4. OpenTidy(gs, g.recording) /\ Recorded(gs, g.recording) = Recorded(fs, h.recording)
  <2>1. OpenTidy(fs, h.recording)
    BY DEF Tidied
  <2> HIDE DEF gs, g
  <2> QED BY <1>1, <1>3, <2>1, SameFileTidy, SameFileRecorded
<1>5. g.streamRecording # NoFile => OpenTidy(gs, g.streamRecording)
  <2>1. CASE ~StreamedResetBy(h, c)
    BY <2>1 DEF filesAfterAbort, AbortedBy, Tidied
  <2>2. CASE StreamedResetBy(h, c)
    BY <2>2, AbortIs
  <2> QED BY <2>1, <2>2
<1> HIDE DEF gs, g
<1>6. Tidied(gs, g)
  BY <1>2, <1>4, <1>5 DEF Tidied
<1> QED BY <1>1, <1>2, <1>3, <1>4, <1>6 DEF gs, g

----------------------------------------------------------------------------
(* What the files are a history of.                                        *)

(* What a stream has, for a history that holds one.                        *)
Image(fs, h) == SubSeq(Recorded(fs, h.streamRecording), 1, totalMessageCount(h.streamBlocks))

(* The history h with the messages ms.                                     *)
HistOf(ms, fs, h) ==
  LET none == h.resetStreamState = "None"
  IN Hist(ms, h.firstIndex, h.lastIndex, h.sizeInBytes, h.autoResetBaseSize,
          h.resetStreamState, h.ctxId,
          IF none THEN << >> ELSE Image(fs, h),
          IF none THEN -1 ELSE h.forkPos - 1,
          IF none THEN 0 ELSE h.resetStreamSize,
          IF none THEN 0 ELSE h.resetStreamStartIndex,
          IF none THEN 0 ELSE h.resetStreamMessageCount)

StreamOf(fs, h) ==
  IF h.resetStreamState = "None"
  THEN [messages |-> << >>, index |-> -1, size |-> 0, start |-> 0, count |-> 0]
  ELSE [messages |-> Image(fs, h), index |-> h.forkPos - 1, size |-> h.resetStreamSize,
        start |-> h.resetStreamStartIndex, count |-> h.resetStreamMessageCount]

(* The history that messages and an object make.                           *)
LEMMA HistOfIs ==
  ASSUME NEW ms, NEW fs, NEW h
  PROVE  LET s == StreamOf(fs, h)
         IN Hist(ms, h.firstIndex, h.lastIndex, h.sizeInBytes, h.autoResetBaseSize,
                 h.resetStreamState, h.ctxId, s.messages, s.index, s.size, s.start, s.count)
            = HistOf(ms, fs, h)
<1>1. CASE h.resetStreamState = "None"
  BY <1>1 DEF HistOf, StreamOf
<1>2. CASE h.resetStreamState # "None"
  BY <1>2 DEF HistOf, StreamOf
<1> QED BY <1>1, <1>2

(* What is held in each state of the server and of a call, ...             *)
LEMMA HeldQuiet ==
  /\ server = "up" /\ call.at \in {"none", "copied"} =>
       Held = HistOf(Recorded(files, fh.recording), files, fh)
  /\ server = "up" /\ call.at \in {"opened", "named"} =>
       Held = HistOf(call.messages, files, fh)
  /\ server # "up" /\ call = NoCall => Held = HistOf(<< >>, files, fh)
<1>1. ASSUME call.at # "journalled"
      PROVE  Settled = fh /\ Streamed(fh) = StreamOf(files, fh)
  BY <1>1 DEF Settled, Streamed, StreamMessages, StreamOf, Image
<1>2. ASSUME call.at # "journalled" PROVE Held = HistOf(SettledMessages, files, fh)
  BY <1>1, <1>2, HeldIs, HistOfIs
<1>3. server = "up" /\ call.at \in {"none", "copied"} => SettledMessages = Recorded(files, fh.recording)
  BY <1>1 DEF SettledMessages, InReset
<1>4. server = "up" /\ call.at \in {"opened", "named"} => SettledMessages = call.messages
  BY DEF SettledMessages, InReset
<1>6. call = NoCall => call.at = "none"
  BY DEF NoCall
<1>5. server # "up" /\ call = NoCall => SettledMessages = << >>
  BY <1>6 DEF SettledMessages, InReset
<1> QED BY <1>2, <1>3, <1>4, <1>5, <1>6

(* ... in the next state too, ...                                          *)
LEMMA HeldNext ==
  /\ server' = "up" /\ call'.at \in {"none", "copied"} =>
       Held' = HistOf(Recorded(files', fh'.recording), files', fh')
  /\ server' = "up" /\ call'.at \in {"opened", "named"} =>
       Held' = HistOf(call'.messages, files', fh')
  /\ server' # "up" /\ call' = NoCall => Held' = HistOf(<< >>, files', fh')
<1> DEFINE s == StreamOf(files', fh')
<1>1. ASSUME call'.at # "journalled"
      PROVE  Settled' = fh' /\ Streamed(fh)' = s
  BY <1>1 DEF Settled, Streamed, StreamMessages, StreamOf, Image
<1>2. ASSUME call'.at # "journalled" PROVE Held' = HistOf(SettledMessages', files', fh')
  <2>1. Held' = InMemory(fh, Streamed(fh))'
    BY <1>1, <1>2 DEF Held, Settled
  <2>2. Held' = Hist(SettledMessages', fh'.firstIndex, fh'.lastIndex, fh'.sizeInBytes,
                     fh'.autoResetBaseSize, fh'.resetStreamState, fh'.ctxId,
                     s.messages, s.index, s.size, s.start, s.count)
    BY <1>1, <1>2, <2>1 DEF InMemory, Hist
  <2> HIDE DEF s
  <2> QED BY <2>2, HistOfIs DEF s
<1>3. server' = "up" /\ call'.at \in {"none", "copied"} =>
        SettledMessages' = Recorded(files', fh'.recording)
  BY <1>1 DEF SettledMessages, InReset
<1>4. server' = "up" /\ call'.at \in {"opened", "named"} => SettledMessages' = call'.messages
  BY DEF SettledMessages, InReset
<1>6. call' = NoCall => call'.at = "none"
  BY DEF NoCall
<1>5. server' # "up" /\ call' = NoCall => SettledMessages' = << >>
  BY <1>6 DEF SettledMessages, InReset
<1> QED BY <1>2, <1>3, <1>4, <1>5, <1>6

(* Once the journal names the stream, it is the history.                   *)
LEMMA HeldResolved ==
  ASSUME FilesOpen(files, fh)
  PROVE  server = "up" /\ call.at = "journalled" =>
           Held = HistOf(Recorded(files, Resolved(fh).recording), files, Resolved(fh))
<1> SUFFICES ASSUME server = "up", call.at = "journalled"
             PROVE  Held = HistOf(Recorded(files, Resolved(fh).recording), files, Resolved(fh))
  OBVIOUS
<1> DEFINE h == Resolved(fh)
<1>1. Settled = h
  BY DEF Settled
<1>2. h.resetStreamState = "None"
  BY DEF Resolved, FilesOpen, Fields
<1>3. SettledMessages = Recorded(files, h.recording)
  BY <1>1 DEF SettledMessages, InReset
<1> HIDE DEF h
<1>4. Streamed(h) = StreamOf(files, h)
  BY <1>2 DEF Streamed, StreamOf
<1>5. Held = HistOf(SettledMessages, files, h)
  BY <1>1, <1>4, HeldIs, HistOfIs
<1> QED BY <1>3, <1>5 DEF h

(* ... and when the journal already names the streamed history.            *)
LEMMA HeldResolvedNext ==
  ASSUME FilesOpen(files', fh')
  PROVE  server' = "up" /\ call'.at = "journalled" =>
           Held' = HistOf(Recorded(files', Resolved(fh').recording), files', Resolved(fh'))
<1> SUFFICES ASSUME server' = "up", call'.at = "journalled"
             PROVE  Held' = HistOf(Recorded(files', Resolved(fh').recording), files', Resolved(fh'))
  OBVIOUS
<1> DEFINE h == Resolved(fh')
           s == StreamOf(files', h)
<1>1. Settled' = h
  BY DEF Settled, Resolved
<1>2. h.resetStreamState = "None"
  BY DEF Resolved, FilesOpen, Fields
<1>3. SettledMessages' = Recorded(files', h.recording)
  BY <1>1 DEF SettledMessages, InReset
<1> HIDE DEF h
<1>4. Streamed(Settled)' = s
  BY <1>1, <1>2 DEF Streamed, StreamOf
<1>5. Held' = Hist(SettledMessages', h.firstIndex, h.lastIndex, h.sizeInBytes,
                   h.autoResetBaseSize, h.resetStreamState, h.ctxId,
                   s.messages, s.index, s.size, s.start, s.count)
  BY <1>1, <1>4 DEF Held, InMemory, Hist
<1> HIDE DEF s
<1>6. Held' = HistOf(SettledMessages', files', h)
  BY <1>5, HistOfIs DEF s
<1> QED BY <1>3, <1>6 DEF h

----------------------------------------------------------------------------
(* Steps of DurableHistory.                                                *)

(* What is on the disk stays as it is.                                     *)
Steady ==
  /\ Recovered' = Recovered
  /\ (call'.at = "opened") = (call.at = "opened")
  /\ server' = server

(* A step that saves nothing.                                              *)
LEMMA BecomesIs ==
  ASSUME NEW h, Held' = Durable!Live(h), Steady
  PROVE  Durable!Becomes(h)
BY DEF Durable!Becomes, Held, Steady

(* The history with more messages.                                         *)
LEMMA LiveAdded ==
  ASSUME NEW h, IsHist(h), NEW more
  PROVE  LET k == Durable!Live(Durable!addMessageInternal(h, more))
         IN /\ h.resetStreamState = "None" =>
                 k = Hist(h.messages \o more, h.firstIndex, h.lastIndex + Len(more),
                          h.sizeInBytes + Len(more), h.autoResetBaseSize, "None", h.ctxId,
                          << >>, -1, 0, 0, 0)
            /\ h.resetStreamState # "None" =>
                 k = Hist(h.messages \o more, h.firstIndex, h.lastIndex + Len(more),
                          h.sizeInBytes + Len(more), h.autoResetBaseSize, h.resetStreamState,
                          h.ctxId, h.resetStream, h.resetStreamIndex, h.resetStreamSize,
                          h.resetStreamStartIndex, h.resetStreamMessageCount)
<1> DEFINE a == Durable!addMessageInternal(h, more)
<1>1. /\ IsHist(a) /\ a.messages = h.messages \o more /\ a.lastIndex = h.lastIndex + Len(more)
      /\ a.sizeInBytes = h.sizeInBytes + Len(more)
      /\ \A f \in HistFields \ {"messages", "lastIndex", "sizeInBytes"} : a[f] = h[f]
  BY AddedIs
<1> HIDE DEF a
<1>2. /\ a.firstIndex = h.firstIndex /\ a.autoResetBaseSize = h.autoResetBaseSize
      /\ a.resetStreamState = h.resetStreamState /\ a.ctxId = h.ctxId
      /\ a.resetStream = h.resetStream /\ a.resetStreamIndex = h.resetStreamIndex
      /\ a.resetStreamSize = h.resetStreamSize
      /\ a.resetStreamStartIndex = h.resetStreamStartIndex
      /\ a.resetStreamMessageCount = h.resetStreamMessageCount
  BY <1>1 DEF HistFields
<1>3. a = Hist(h.messages \o more, h.firstIndex, h.lastIndex + Len(more), h.sizeInBytes + Len(more),
               h.autoResetBaseSize, h.resetStreamState, h.ctxId, h.resetStream, h.resetStreamIndex,
               h.resetStreamSize, h.resetStreamStartIndex, h.resetStreamMessageCount)
  BY <1>1, <1>2, HistIs
<1> QED BY <1>3, LiveIs DEF a

(* A step that adds messages.                                              *)
LEMMA ExtendedIs ==
  ASSUME NEW h, IsHist(h), h.messages \in Seq(Messages), NEW more \in Seq(Messages),
         Held' = Durable!Live(Durable!addMessageInternal(h, more)), Steady
  PROVE  Durable!Extended(h)
<1> DEFINE ms == Held'.messages
           p  == h.messages
           n  == Len(p)
           k  == Len(more)
<1>1. ms = p \o more
  <2>1. CASE h.resetStreamState = "None"
    <3>1. Held' = Hist(p \o more, h.firstIndex, h.lastIndex + Len(more),
                       h.sizeInBytes + Len(more), h.autoResetBaseSize, "None", h.ctxId,
                       << >>, -1, 0, 0, 0)
      BY <2>1, LiveAdded
    <3> QED BY <3>1 DEF Hist
  <2>2. CASE h.resetStreamState # "None"
    <3>1. Held' = Hist(p \o more, h.firstIndex, h.lastIndex + Len(more),
                       h.sizeInBytes + Len(more), h.autoResetBaseSize, h.resetStreamState,
                       h.ctxId, h.resetStream, h.resetStreamIndex, h.resetStreamSize,
                       h.resetStreamStartIndex, h.resetStreamMessageCount)
      BY <2>2, LiveAdded
    <3> QED BY <3>1 DEF Hist
  <2> QED BY <2>1, <2>2
<1>2. ms \in Seq(Messages) /\ Len(ms) = n + k /\ n \in Nat /\ k \in Nat
  BY <1>1, ConcatProperties, LenProperties
<1>3. SubSeq(ms, n + 1, Len(ms)) = more
  <2> DEFINE a == 1
  <2>1. a \in Nat /\ 1 <= a /\ a <= k + 1 /\ k <= Len(more)
    BY <1>2
  <2> HIDE DEF a, n, k, ms, p
  <2>2. SubSeq(p \o more, Len(p) + a, Len(p) + k) = SubSeq(more, a, k)
    BY <1>2, <2>1, SliceOfSecond DEF p
  <2>3. SubSeq(more, a, k) = more
    BY SubSeqFull DEF a, k
  <2> QED BY <1>1, <1>2, <2>2, <2>3 DEF a, n, k
<1>4. Durable!Becomes(Durable!addMessageInternal(h, SubSeq(ms, n + 1, Len(ms))))
  <2> HIDE DEF ms, n
  <2> QED BY <1>3, BecomesIs
<1> QED BY <1>2, <1>4 DEF Durable!Extended, Held

(* What HistOf is, field by field.                                         *)
LEMMA HistOfHas ==
  ASSUME NEW ms, NEW fs, NEW h
  PROVE  LET k == HistOf(ms, fs, h)
         IN /\ IsHist(k) /\ k.messages = ms /\ k.firstIndex = h.firstIndex
            /\ k.lastIndex = h.lastIndex /\ k.sizeInBytes = h.sizeInBytes
            /\ k.autoResetBaseSize = h.autoResetBaseSize
            /\ k.resetStreamState = h.resetStreamState /\ k.ctxId = h.ctxId
            /\ h.resetStreamState # "None" =>
                 /\ k.resetStream = Image(fs, h) /\ k.resetStreamIndex = h.forkPos - 1
                 /\ k.resetStreamSize = h.resetStreamSize
                 /\ k.resetStreamStartIndex = h.resetStreamStartIndex
                 /\ k.resetStreamMessageCount = h.resetStreamMessageCount
BY HistHas DEF HistOf

(* A history without a stream, ...                                         *)
LEMMA NoStream ==
  ASSUME NEW ms, NEW fs, NEW h, h.resetStreamState = "None"
  PROVE  HistOf(ms, fs, h) = Hist(ms, h.firstIndex, h.lastIndex, h.sizeInBytes, h.autoResetBaseSize,
                                  "None", h.ctxId, << >>, -1, 0, 0, 0)
BY DEF HistOf

(* ... and with one.                                                       *)
LEMMA WithStream ==
  ASSUME NEW ms, NEW fs, NEW h, h.resetStreamState # "None"
  PROVE  HistOf(ms, fs, h) = Hist(ms, h.firstIndex, h.lastIndex, h.sizeInBytes, h.autoResetBaseSize,
                                  h.resetStreamState, h.ctxId, Image(fs, h), h.forkPos - 1,
                                  h.resetStreamSize, h.resetStreamStartIndex,
                                  h.resetStreamMessageCount)
BY DEF HistOf

(* Messages are added in memory as they are in the files.                  *)
LEMMA GrownHist ==
  ASSUME NEW fs, NEW gs, NEW h, NEW g, NEW ms, NEW more, Grows(h, g, more),
         h.resetStreamState # "None" =>
           Recorded(gs, g.streamRecording) = Recorded(fs, h.streamRecording)
  PROVE  HistOf(ms \o more, gs, g) =
           Durable!Live(Durable!addMessageInternal(HistOf(ms, fs, h), more))
<1> DEFINE k == HistOf(ms, fs, h)
<1>1. /\ g.lastIndex = h.lastIndex + Len(more) /\ g.sizeInBytes = h.sizeInBytes + Len(more)
      /\ g.firstIndex = h.firstIndex /\ g.autoResetBaseSize = h.autoResetBaseSize
      /\ g.resetStreamState = h.resetStreamState /\ g.ctxId = h.ctxId /\ g.forkPos = h.forkPos
      /\ g.resetStreamSize = h.resetStreamSize
      /\ g.resetStreamStartIndex = h.resetStreamStartIndex
      /\ g.resetStreamMessageCount = h.resetStreamMessageCount
      /\ g.streamBlocks = h.streamBlocks
  BY DEF Grows, LeftAlone, Fields
<1>2. /\ IsHist(k) /\ k.messages = ms /\ k.firstIndex = h.firstIndex
      /\ k.lastIndex = h.lastIndex /\ k.sizeInBytes = h.sizeInBytes
      /\ k.autoResetBaseSize = h.autoResetBaseSize
      /\ k.resetStreamState = h.resetStreamState /\ k.ctxId = h.ctxId
      /\ h.resetStreamState # "None" =>
           /\ k.resetStream = Image(fs, h) /\ k.resetStreamIndex = h.forkPos - 1
           /\ k.resetStreamSize = h.resetStreamSize
           /\ k.resetStreamStartIndex = h.resetStreamStartIndex
           /\ k.resetStreamMessageCount = h.resetStreamMessageCount
  BY HistOfHas
<1> HIDE DEF k
<1>3. CASE h.resetStreamState = "None"
  <2>1. HistOf(ms \o more, gs, g) =
          Hist(ms \o more, g.firstIndex, g.lastIndex, g.sizeInBytes, g.autoResetBaseSize,
               "None", g.ctxId, << >>, -1, 0, 0, 0)
    BY <1>1, <1>3, NoStream
  <2> QED BY <1>1, <1>2, <1>3, <2>1, LiveAdded DEF k
<1>4. CASE h.resetStreamState # "None"
  <2>1. Image(gs, g) = Image(fs, h)
    BY <1>1, <1>4 DEF Image
  <2>2. HistOf(ms \o more, gs, g) =
          Hist(ms \o more, g.firstIndex, g.lastIndex, g.sizeInBytes, g.autoResetBaseSize,
               g.resetStreamState, g.ctxId, Image(gs, g), g.forkPos - 1,
               g.resetStreamSize, g.resetStreamStartIndex, g.resetStreamMessageCount)
    BY <1>1, <1>4, WithStream
  <2>3. /\ k.resetStreamState # "None"
        /\ k.resetStream = Image(fs, h) /\ k.resetStreamIndex = h.forkPos - 1
        /\ k.resetStreamSize = h.resetStreamSize
        /\ k.resetStreamStartIndex = h.resetStreamStartIndex
        /\ k.resetStreamMessageCount = h.resetStreamMessageCount
    BY <1>2, <1>4
  <2>4. Durable!Live(Durable!addMessageInternal(k, more)) =
          Hist(k.messages \o more, k.firstIndex, k.lastIndex + Len(more),
               k.sizeInBytes + Len(more), k.autoResetBaseSize, k.resetStreamState,
               k.ctxId, k.resetStream, k.resetStreamIndex, k.resetStreamSize,
               k.resetStreamStartIndex, k.resetStreamMessageCount)
    BY <1>2, <2>3, LiveAdded
  <2> QED BY <1>1, <1>2, <2>1, <2>2, <2>3, <2>4 DEF k
<1> QED BY <1>3, <1>4

(* A stream is given up in memory as it is in the files.                   *)
LEMMA AbortedHas ==
  ASSUME NEW h, IsHist(h), h.resetStreamState = "Streaming"
  PROVE  LET a == Durable!abortStreamedReset(h, h.ctxId)
         IN /\ IsHist(a) /\ a.messages = h.messages /\ a.firstIndex = h.firstIndex
            /\ a.lastIndex = h.lastIndex /\ a.sizeInBytes = h.sizeInBytes
            /\ a.autoResetBaseSize = h.autoResetBaseSize
            /\ a.resetStreamState = "None" /\ a.ctxId = 0
<1> DEFINE d == Durable!discardResetStream(h)
           a == Durable!abortActiveStreamedReset(h)
<1>1. /\ IsHist(d) /\ d.messages = h.messages /\ d.firstIndex = h.firstIndex
      /\ d.lastIndex = h.lastIndex /\ d.sizeInBytes = h.sizeInBytes
      /\ d.autoResetBaseSize = h.autoResetBaseSize
  BY DEF Durable!discardResetStream, IsHist, HistFields
<1>2. a = [d EXCEPT !.resetStreamState = "None", !.ctxId = 0]
  BY DEF Durable!abortActiveStreamedReset
<1> HIDE DEF d, a
<1>3. /\ IsHist(a) /\ a.messages = d.messages /\ a.firstIndex = d.firstIndex
      /\ a.lastIndex = d.lastIndex /\ a.sizeInBytes = d.sizeInBytes
      /\ a.autoResetBaseSize = d.autoResetBaseSize
      /\ a.resetStreamState = "None" /\ a.ctxId = 0
  BY <1>1, <1>2 DEF IsHist, HistFields
<1>4. Durable!abortStreamedReset(h, h.ctxId) = a
  BY DEF Durable!abortStreamedReset, Durable!StreamedResetBy, a
<1> QED BY <1>1, <1>3, <1>4

(* Giving up a stream and adding messages, in the files as in memory.      *)
LEMMA AbortedHist ==
  ASSUME NEW fs, NEW gs, NEW h, NEW c, NEW g, NEW ms, NEW more, FilesOpen(fs, h),
         StreamedResetBy(h, c), Grows(AbortedBy(h, c), g, more)
  PROVE  LET k == HistOf(ms, fs, h)
             a == Durable!abortStreamedReset(k, k.ctxId)
         IN /\ k.resetStreamState = "Streaming" /\ IsHist(a) /\ a.messages = ms
            /\ HistOf(ms \o more, gs, g) = Durable!Live(Durable!addMessageInternal(a, more))
<1> DEFINE k == HistOf(ms, fs, h)
           a == Durable!abortStreamedReset(k, k.ctxId)
           b == AbortedBy(h, c)
<1>1. /\ IsHist(k) /\ k.messages = ms /\ k.firstIndex = h.firstIndex
      /\ k.lastIndex = h.lastIndex /\ k.sizeInBytes = h.sizeInBytes
      /\ k.autoResetBaseSize = h.autoResetBaseSize
      /\ k.resetStreamState = "Streaming"
  BY HistOfHas DEF StreamedResetBy
<1> HIDE DEF k
<1>2. /\ IsHist(a) /\ a.messages = ms /\ a.firstIndex = h.firstIndex
      /\ a.lastIndex = h.lastIndex /\ a.sizeInBytes = h.sizeInBytes
      /\ a.autoResetBaseSize = h.autoResetBaseSize
      /\ a.resetStreamState = "None" /\ a.ctxId = 0
  BY <1>1, AbortedHas
<1> HIDE DEF a
<1>3. /\ b.firstIndex = h.firstIndex /\ b.lastIndex = h.lastIndex /\ b.sizeInBytes = h.sizeInBytes
      /\ b.autoResetBaseSize = h.autoResetBaseSize
      /\ b.resetStreamState = "None" /\ b.ctxId = 0
  BY AbortIs DEF Fields
<1> HIDE DEF b
<1>4. /\ g.lastIndex = b.lastIndex + Len(more) /\ g.sizeInBytes = b.sizeInBytes + Len(more)
      /\ g.firstIndex = b.firstIndex /\ g.autoResetBaseSize = b.autoResetBaseSize
      /\ g.resetStreamState = b.resetStreamState /\ g.ctxId = b.ctxId
  BY DEF Grows, LeftAlone, Fields, b
<1>5. HistOf(ms \o more, gs, g) =
        Hist(ms \o more, g.firstIndex, g.lastIndex, g.sizeInBytes, g.autoResetBaseSize,
             "None", g.ctxId, << >>, -1, 0, 0, 0)
  BY <1>3, <1>4, NoStream
<1>6. HistOf(ms \o more, gs, g) = Durable!Live(Durable!addMessageInternal(a, more))
  <2> DEFINE live == Durable!Live(Durable!addMessageInternal(a, more))
  <2>1. live = Hist(a.messages \o more, a.firstIndex, a.lastIndex + Len(more),
                    a.sizeInBytes + Len(more), a.autoResetBaseSize, "None", a.ctxId,
                    << >>, -1, 0, 0, 0)
    BY <1>2, LiveAdded
  <2> HIDE DEF live
  <2>2. /\ g.lastIndex = a.lastIndex + Len(more) /\ g.sizeInBytes = a.sizeInBytes + Len(more)
        /\ g.firstIndex = a.firstIndex /\ g.autoResetBaseSize = a.autoResetBaseSize
        /\ g.ctxId = a.ctxId /\ a.messages = ms
    BY <1>2, <1>3, <1>4
  <2>3. HistOf(ms \o more, gs, g) = live
    BY <1>5, <2>1, <2>2
  <2> QED BY <2>3 DEF live
<1> QED BY <1>1, <1>2, <1>6 DEF k, a

----------------------------------------------------------------------------
(* The files between two steps.                                            *)

(* What is in the files, beyond what loading them needs.                   *)
DiskInv ==
  /\ call.messages \in Seq(Messages)
  /\ server # "gone" => Tidy(files[Last(journal)])
  /\ server = "up" =>
       /\ Tidied(files, fh)
       /\ call.at \in {"copied", "journalled"} => fh.streamRecording.unsaved = << >>
       /\ call.at = "copied" =>
            /\ fh.resetStreamState = "Prepared"
            /\ SizeLimit = 0 \/ fh.streamRecording.pos - 1 <= SizeLimit
       /\ call.at \in {"opened", "named"} => fh.recording.pos = 1

(* The invariant under which every step is one of DurableHistory.          *)
DurableInv == RecoverableInv /\ IndexInv /\ DiskInv

(* A restart reads the recording that the journal names last, ...          *)
LEMMA RecoveredIs ==
  ASSUME RecoverableInv, server # "gone"
  PROVE  Recovered = ScannedMessages(files[Last(journal)])
BY DEF RecoverableInv, Recovered

(* ... in the next state too.                                              *)
LEMMA RecoveredNext ==
  ASSUME RecoverableInv', server' # "gone"
  PROVE  Recovered' = ScannedMessages(files'[Last(journal')])
BY DEF RecoverableInv, Recovered

(* The size in memory is that of the messages.                             *)
LEMMA IndexCounts ==
  ASSUME NEW fs, NEW h, AllRecordings(fs), FilesOpen(fs, h), NEW gap \in Int, Index(fs, h, gap),
         Tidied(fs, h)
  PROVE  Counts(h)
<1> DEFINE n == Len(Recorded(fs, h.recording))
<1>1. n \in Nat /\ h.firstIndex \in Int
  BY IndexIs
<1>2. h.lastIndex = h.firstIndex + n - 1 + gap
  BY DEF Index
<1> HIDE DEF n
<1>3. h.lastIndex \in Int
  BY <1>1, <1>2
<1> QED BY <1>3 DEF Counts, Tidied

(* What there is between two calls.                                        *)
LEMMA ReadyDisk ==
  ASSUME DurableInv, Ready
  PROVE  LET ms == Recorded(files, fh.recording)
         IN /\ AllRecordings(files) /\ FilesOpen(files, fh) /\ Indexes(files, fh)
            /\ Tidied(files, fh) /\ Counts(fh)
            /\ call.at = "none" /\ server = "up" /\ call.messages \in Seq(Messages)
            /\ journal # << >> /\ Last(journal) = fh.recording.name
            /\ fh.recording.name \in DOMAIN files
            /\ ms \in Seq(Messages)
            /\ Held = HistOf(ms, files, fh)
            /\ Recovered = ScannedMessages(files[fh.recording.name])
<1>1. RecoverableInv /\ IndexInv /\ DiskInv
  BY DEF DurableInv
<1>2. AllRecordings(files) /\ FilesOpen(files, fh) /\ Indexes(files, fh)
  BY <1>1, ReadyIndexes
<1>3. call.at = "none" /\ server = "up"
  BY DEF Ready
<1>4. Tidied(files, fh) /\ call.messages \in Seq(Messages)
  BY <1>1, <1>3 DEF DiskInv
<1>5. Counts(fh)
  <2>1. 0 \in Int /\ Index(files, fh, 0)
    BY <1>2 DEF Indexes
  <2> QED BY <1>2, <1>4, <2>1, IndexCounts
<1>6. journal # << >> /\ Last(journal) = fh.recording.name /\ fh.recording.name \in DOMAIN files
  BY <1>1, <1>3 DEF RecoverableInv, Named
<1>7. Recorded(files, fh.recording) \in Seq(Messages)
  <2>1. Open(files, fh.recording) /\ OpenTidy(files, fh.recording)
    BY <1>2, <1>4 DEF FilesOpen, Tidied
  <2> QED BY <1>2, <2>1, TidyRecorded
<1>8. Held = HistOf(Recorded(files, fh.recording), files, fh)
  BY <1>3, HeldQuiet
<1>9. Recovered = ScannedMessages(files[fh.recording.name])
  BY <1>1, <1>3, <1>6, RecoveredIs
<1> QED BY <1>2, <1>3, <1>4, <1>5, <1>6, <1>7, <1>8, <1>9

(* After a step between resets.                                            *)
LEMMA QuietDisk ==
  ASSUME DurableInv, Ready, RecoverableInv', UNCHANGED <<journal, call, server>>,
         Tidied(files', fh')
  PROVE  /\ DiskInv' /\ fh'.recording.name = fh.recording.name
         /\ Held' = HistOf(Recorded(files', fh'.recording), files', fh')
         /\ Recovered' = ScannedMessages(files'[fh.recording.name])
<1>1. call'.at = "none" /\ server' = "up" /\ call'.messages \in Seq(Messages)
      /\ Last(journal') = fh.recording.name
  BY ReadyDisk
<1>2. Last(journal') = fh'.recording.name
  BY <1>1 DEF RecoverableInv, Named
<1>3. Tidy(files'[fh'.recording.name])
  BY DEF Tidied, OpenTidy
<1>4. DiskInv'
  BY <1>1, <1>2, <1>3 DEF DiskInv
<1>5. Held' = HistOf(Recorded(files', fh'.recording), files', fh')
  BY <1>1, HeldNext
<1>6. Recovered' = ScannedMessages(files'[fh.recording.name])
  BY <1>1, RecoveredNext
<1> QED BY <1>1, <1>2, <1>4, <1>5, <1>6

(* When nothing has been written to the disk.                              *)
LEMMA SteadyDisk ==
  ASSUME DurableInv, Ready, RecoverableInv', UNCHANGED <<journal, call, server>>,
         Tidied(files', fh'), files'[fh.recording.name] = files[fh.recording.name]
  PROVE  Steady
<1>1. Recovered' = Recovered
  BY ReadyDisk, QuietDisk
<1> QED BY <1>1 DEF Steady

----------------------------------------------------------------------------
(* Adding to the history, after giving up a stream or not.                 *)

(* A step that only adds to the history.                                   *)
LEMMA AddedStep ==
  ASSUME DurableInv, Ready, RecoverableInv', UNCHANGED <<journal, call, server>>,
         files' = files, Extends(fh, fh')
  PROVE  DiskInv' /\ Durable!Add
<1> DEFINE ms == Recorded(files, fh.recording)
<1>1. /\ AllRecordings(files) /\ FilesOpen(files, fh) /\ Tidied(files, fh) /\ Counts(fh)
      /\ ms \in Seq(Messages) /\ Held = HistOf(ms, files, fh)
  BY ReadyDisk
<1>2. Tidied(files', fh')
  BY <1>1, ExtendsTidied
<1>3. PICK more \in Seq(Messages) : Grows(fh, fh', more)
  BY DEF Extends
<1>4. Recorded(files', fh'.recording) = ms \o more
  <2>1. Open(files, fh.recording) /\ OpenTidy(files, fh.recording)
        /\ Longer(fh.recording, fh'.recording, more)
    BY <1>1, <1>3 DEF FilesOpen, Tidied, Grows
  <2>2. Recorded(files, fh.recording) = ms
    OBVIOUS
  <2> HIDE DEF ms
  <2>3. Recorded(files, fh'.recording) = ms \o more
    <3> DEFINE f == fh.recording
               g == fh'.recording
    <3>1. /\ AllRecordings(files) /\ Open(files, f) /\ OpenTidy(files, f) /\ Longer(f, g, more)
          /\ Recorded(files, f) = ms
      BY <1>1, <2>1, <2>2
    <3> HIDE DEF f, g
    <3>2. Recorded(files, g) = Recorded(files, f) \o more
      BY <3>1, LongerIs
    <3> QED BY <3>1, <3>2 DEF g
  <2> QED BY <2>3
<1>5. fh'.streamRecording = fh.streamRecording
  BY <1>3 DEF Grows, LeftAlone, Fields
<1> HIDE DEF ms
<1>6. HistOf(ms \o more, files', fh') =
        Durable!Live(Durable!addMessageInternal(HistOf(ms, files, fh), more))
  BY <1>3, <1>5, GrownHist
<1>7. Held' = Durable!Live(Durable!addMessageInternal(Held, more))
  BY <1>1, <1>2, <1>4, <1>6, QuietDisk
<1>8. Steady
  BY <1>2, SteadyDisk
<1>9. IsHist(Held) /\ Held.messages = ms
  BY <1>1, HistOfHas
<1>10. Durable!Extended(Held)
  BY <1>1, <1>7, <1>8, <1>9, ExtendedIs
<1>11. DiskInv'
  BY <1>2, QuietDisk
<1> QED BY <1>10, <1>11 DEF Durable!Add, Held

(* A step that may give up a stream and then adds messages.                *)
LEMMA AbortedStep ==
  ASSUME DurableInv, Ready, RecoverableInv', UNCHANGED <<journal, call, server>>, NEW c,
         files' = filesAfterAbort(files, fh, c), Extends(AbortedBy(fh, c), fh')
  PROVE  DiskInv' /\ (Durable!Add \/ Durable!AbortAndAdd)
<1> DEFINE ms == Recorded(files, fh.recording)
           b  == AbortedBy(fh, c)
<1>1. CASE ~StreamedResetBy(fh, c)
  <2>1. files' = files /\ b = fh
    BY <1>1 DEF filesAfterAbort, AbortedBy
  <2> QED BY <2>1, AddedStep
<1>2. CASE StreamedResetBy(fh, c)
  <2>1. /\ AllRecordings(files) /\ FilesOpen(files, fh) /\ Tidied(files, fh) /\ Counts(fh)
        /\ ms \in Seq(Messages) /\ Held = HistOf(ms, files, fh)
    BY ReadyDisk
  <2>2. /\ AllRecordings(files') /\ FilesOpen(files', b) /\ Tidied(files', b) /\ Counts(b)
        /\ files'[fh.recording.name] = files[fh.recording.name]
        /\ Recorded(files', b.recording) = ms
    BY <2>1, AbortTidied
  <2> HIDE DEF ms, b
  <2>3. Extends(b, fh')
    BY DEF b
  <2>4. Tidied(files', fh')
    BY <2>2, <2>3, ExtendsTidied
  <2>5. PICK more \in Seq(Messages) : Grows(b, fh', more)
    BY <2>3 DEF Extends
  <2>6. Recorded(files', fh'.recording) = ms \o more
    <3> DEFINE fs == files'
               f  == b.recording
               g  == fh'.recording
    <3>1. AllRecordings(fs) /\ Open(fs, f) /\ OpenTidy(fs, f) /\ Longer(f, g, more)
      BY <2>2, <2>5 DEF FilesOpen, Tidied, Grows
    <3>2. Recorded(fs, f) = ms
      BY <2>2
    <3> HIDE DEF fs, f, g
    <3>3. Recorded(fs, g) = Recorded(fs, f) \o more
      BY <3>1, LongerIs
    <3> QED BY <3>2, <3>3 DEF fs, g
  <2> DEFINE k == HistOf(ms, files, fh)
             a == Durable!abortStreamedReset(k, k.ctxId)
  <2>7. /\ k.resetStreamState = "Streaming" /\ IsHist(a) /\ a.messages = ms
        /\ HistOf(ms \o more, files', fh') = Durable!Live(Durable!addMessageInternal(a, more))
    BY <1>2, <2>1, <2>5, AbortedHist DEF b
  <2> HIDE DEF k, a
  <2>8. Held' = Durable!Live(Durable!addMessageInternal(a, more))
    BY <2>4, <2>6, <2>7, QuietDisk
  <2>9. Steady
    BY <2>2, <2>4, SteadyDisk
  <2>10. Durable!Extended(a)
    BY <2>1, <2>7, <2>8, <2>9, ExtendedIs
  <2>11. Held = k /\ a = Durable!abortStreamedReset(Held, Held.ctxId)
    BY <2>1 DEF k, a
  <2>12. Durable!AbortAndAdd
    BY <2>7, <2>10, <2>11 DEF Durable!AbortAndAdd, Held
  <2>13. DiskInv'
    BY <2>4, QuietDisk
  <2> QED BY <2>12, <2>13
<1> QED BY <1>1, <1>2

(* A user joins.                                                           *)
LEMMA JoinDurable ==
  ASSUME DurableInv, RecoverableInv', NEW name \in Names, NEW id \in Clients, Join(name, id)
  PROVE  DiskInv' /\ Durable!Add
<1> DEFINE h == WithJoin(fh, id)
<1>1. /\ Ready /\ UNCHANGED <<journal, call, server>> /\ files' = files
      /\ fh' \in {h, addToHistory(h, OwnerMsg(0))}
  BY DEF Join
<1>2. AllRecordings(files) /\ FilesOpen(files, fh) /\ Tidied(files, fh) /\ Counts(fh)
  BY <1>1, ReadyDisk
<1>3. Extends(fh, h)
  BY <1>2, WithJoinExtends
<1> HIDE DEF h
<1>4. OwnerMsg(0) \in Messages
  BY MessagesAre
<1>5. Extends(fh, fh')
  BY <1>1, <1>2, <1>3, <1>4, AddTwice
<1> QED BY <1>1, <1>5, AddedStep

(* A user draws.                                                           *)
LEMMA DrawDurable ==
  ASSUME DurableInv, RecoverableInv', NEW id \in Clients, Draw(id)
  PROVE  DiskInv' /\ Durable!Add
<1>1. Ready /\ UNCHANGED <<journal, call, server>> /\ files' = files
  BY DEF Draw
<1>2. PICK n \in Drawings : fh' = addToHistory(fh, DrawMsg(id, n))
  BY DEF Draw
<1>3. FilesOpen(files, fh) /\ Counts(fh) /\ DrawMsg(id, n) \in Messages
  BY <1>1, ReadyDisk, MessagesAre
<1>4. Extends(fh, fh')
  BY <1>2, <1>3, AddExtends
<1> QED BY <1>1, <1>4, AddedStep

(* A user comes back by another connection, which ends his stream.         *)
LEMMA RejoinDurable ==
  ASSUME DurableInv, RecoverableInv', NEW i \in DOMAIN clients, Rejoin(i)
  PROVE  DiskInv' /\ (Durable!Add \/ Durable!AbortAndAdd)
<1> DEFINE c == clients[i].id
           rejoined == Append(Others(i), clients[i])
           a == AbortedBy(fh, c)
           h == WithLeave(fh, c, i = 1, rejoined)
<1>1. /\ Ready /\ UNCHANGED <<journal, call, server>>
      /\ files' = filesAfterAbort(files, fh, c) /\ fh' = WithJoin(h, c)
  BY DEF Rejoin
<1>2. c \in Clients
  BY OthersType DEF DurableInv, RecoverableInv, ClientsType
<1>3. AllRecordings(files') /\ FilesOpen(files', a) /\ Tidied(files', a) /\ Counts(a)
  BY <1>1, ReadyDisk, AbortTidied
<1>4. Extends(a, h)
  <2> HIDE DEF c, rejoined
  <2> QED BY <1>2, <1>3, WithLeaveExtends
<1> HIDE DEF c, h, a
<1>5. FilesOpen(files', h) /\ Tidied(files', h) /\ Counts(h)
  BY <1>3, <1>4, ExtendsTidied
<1>6. Extends(h, fh')
  BY <1>1, <1>2, <1>3, <1>5, WithJoinExtends
<1>7. Extends(AbortedBy(fh, c), fh')
  BY <1>3, <1>4, <1>6, ExtendsTwice DEF a
<1> QED BY <1>1, <1>7, AbortedStep

(* A user leaves, which ends his stream.                                   *)
LEMMA RemoveUserDurable ==
  ASSUME DurableInv, RecoverableInv', NEW i \in DOMAIN clients, removeUser(i)
  PROVE  DiskInv' /\ (Durable!Add \/ Durable!AbortAndAdd)
<1> DEFINE c == clients[i].id
           others == Others(i)
<1>1. /\ Ready /\ UNCHANGED <<journal, call, server>>
      /\ files' = filesAfterAbort(files, fh, c) /\ fh' = WithLeave(fh, c, i = 1, others)
  BY DEF removeUser
<1>2. c \in Clients
  BY OthersType DEF DurableInv, RecoverableInv, ClientsType
<1>3. LET a == AbortedBy(fh, c)
      IN AllRecordings(files') /\ FilesOpen(files', a) /\ Tidied(files', a) /\ Counts(a)
  BY <1>1, ReadyDisk, AbortTidied
<1> HIDE DEF c, others
<1>4. Extends(AbortedBy(fh, c), fh')
  BY <1>1, <1>2, <1>3, WithLeaveExtends
<1> QED BY <1>1, <1>4, AbortedStep

(* A user gives up his stream.                                             *)
LEMMA StreamAbortDurable ==
  ASSUME DurableInv, RecoverableInv', NEW id \in Clients, StreamAbort(id)
  PROVE  DiskInv' /\ (Durable!Add \/ Durable!AbortAndAdd)
<1>1. /\ Ready /\ UNCHANGED <<journal, call, server>>
      /\ files' = filesAfterAbort(files, fh, id) /\ fh' = AbortedBy(fh, id)
  BY DEF StreamAbort
<1>2. LET a == AbortedBy(fh, id)
      IN FilesOpen(files', a) /\ Counts(a)
  BY <1>1, ReadyDisk, AbortTidied
<1>3. Extends(AbortedBy(fh, id), fh')
  BY <1>1, <1>2, ExtendsNot
<1> QED BY <1>1, <1>3, AbortedStep

----------------------------------------------------------------------------
(* Reading and flushing.                                                   *)

(* A step that changes neither the history nor what is saved of it.        *)
LEMMA StutterIs ==
  ASSUME Held' = Held, Steady
  PROVE  UNCHANGED Durable!vars
BY DEF Durable!vars, Held, Steady

(* A history of which only the recordings and the index have changed.      *)
LEMMA SameHist ==
  ASSUME NEW fs, NEW gs, NEW h, NEW g, NEW ms,
         \A f \in {"firstIndex", "lastIndex", "sizeInBytes", "autoResetBaseSize",
                   "resetStreamState", "ctxId", "forkPos", "streamBlocks", "resetStreamSize",
                   "resetStreamStartIndex", "resetStreamMessageCount"} : g[f] = h[f],
         h.resetStreamState # "None" =>
           Recorded(gs, g.streamRecording) = Recorded(fs, h.streamRecording)
  PROVE  HistOf(ms, gs, g) = HistOf(ms, fs, h)
<1>1. /\ g.firstIndex = h.firstIndex /\ g.lastIndex = h.lastIndex /\ g.sizeInBytes = h.sizeInBytes
      /\ g.autoResetBaseSize = h.autoResetBaseSize
      /\ g.resetStreamState = h.resetStreamState /\ g.ctxId = h.ctxId /\ g.forkPos = h.forkPos
      /\ g.resetStreamSize = h.resetStreamSize
      /\ g.resetStreamStartIndex = h.resetStreamStartIndex
      /\ g.resetStreamMessageCount = h.resetStreamMessageCount
      /\ g.streamBlocks = h.streamBlocks
  OBVIOUS
<1>2. CASE h.resetStreamState = "None"
  BY <1>1, <1>2, NoStream
<1>3. CASE h.resetStreamState # "None"
  <2>1. Image(gs, g) = Image(fs, h)
    BY <1>1, <1>3 DEF Image
  <2> QED BY <1>1, <1>3, <2>1, WithStream
<1> QED BY <1>2, <1>3

(* The first messages, and all of them.                                    *)
LEMMA AllPrefix ==
  ASSUME NEW S, NEW ds \in Seq(S), NEW u \in Seq(S)
  PROVE  Durable!IsPrefixOf(ds, ds \o u) /\ Durable!IsPrefixOf(ds \o u, ds \o u)
<1> DEFINE r == ds \o u
           k == Len(u)
<1>1. k \in 0 .. Len(u) /\ r \in Seq(S) /\ Len(r) = Len(ds) + k
  BY ConcatProperties, LenProperties
<1>2. SubSeq(r, 1, Len(ds) + k) = r
  BY <1>1, SubSeqFull
<1> HIDE DEF k
<1>3. Durable!IsPrefixOf(ds, SubSeq(r, 1, Len(ds) + k)) /\ Durable!IsPrefixOf(SubSeq(r, 1, Len(ds) + k), r)
  BY <1>1, MorePrefix
<1> HIDE DEF r
<1> QED BY <1>2, <1>3 DEF r

(* The recording of a history is flushed.                                  *)
LEMMA FlushedTidied ==
  ASSUME NEW fs, NEW h, AllRecordings(fs), FilesOpen(fs, h), Tidied(fs, h), NEW g,
         g.recording = [h.recording EXCEPT !.unsaved = << >>],
         g.streamRecording = h.streamRecording, g.sizeInBytes = h.sizeInBytes
  PROVE  LET gs == Flushed(fs, h.recording)
         IN /\ Tidied(gs, g)
            /\ Recorded(gs, g.recording) = Recorded(fs, h.recording)
            /\ ScannedMessages(gs[h.recording.name]) = Recorded(fs, h.recording)
            /\ h.streamRecording # NoFile =>
                 /\ gs[h.streamRecording.name] = fs[h.streamRecording.name]
                 /\ Recorded(gs, h.streamRecording) = Recorded(fs, h.streamRecording)
<1> DEFINE gs == Flushed(fs, h.recording)
<1>1. Open(fs, h.recording) /\ OpenTidy(fs, h.recording) /\ h.sizeInBytes \in Int
  BY DEF FilesOpen, Tidied
<1>2. OpenTidy(gs, g.recording) /\ ScannedMessages(gs[h.recording.name]) = Recorded(fs, h.recording)
  BY <1>1, FlushedTidy
<1>3. Recorded(gs, g.recording) = Recorded(fs, h.recording)
  BY <1>1, FlushedRecorded
<1> HIDE DEF gs
<1>4. ASSUME h.streamRecording # NoFile
      PROVE  /\ gs[h.streamRecording.name] = fs[h.streamRecording.name]
             /\ Recorded(gs, h.streamRecording) = Recorded(fs, h.streamRecording)
             /\ OpenTidy(gs, h.streamRecording)
  <2>1. Open(fs, h.streamRecording) /\ h.streamRecording.name # h.recording.name
        /\ OpenTidy(fs, h.streamRecording)
    BY <1>4 DEF FilesOpen, Tidied
  <2>2. gs[h.streamRecording.name] = fs[h.streamRecording.name]
    BY <1>1, <2>1, FlushedOther DEF gs
  <2> QED BY <2>1, <2>2, SameFileTidy, SameFileRecorded
<1>5. Tidied(gs, g)
  BY <1>1, <1>2, <1>4 DEF Tidied
<1> QED BY <1>2, <1>3, <1>4, <1>5 DEF gs

(* A step that writes what was buffered.                                   *)
LEMMA SavedStep ==
  ASSUME DurableInv, Ready, RecoverableInv', UNCHANGED <<journal, call, server>>,
         files' = Flushed(files, fh.recording),
         fh'.recording = [fh.recording EXCEPT !.unsaved = << >>],
         \A f \in Fields \ {"recording", "blocks"} : fh'[f] = fh[f]
  PROVE  DiskInv' /\ Durable!Save
<1> DEFINE ms == Recorded(files, fh.recording)
           ds == ScannedMessages(files[fh.recording.name])
           u  == fh.recording.unsaved
<1>1. /\ AllRecordings(files) /\ FilesOpen(files, fh) /\ Tidied(files, fh)
      /\ call.at = "none" /\ Recovered = ds
      /\ ms \in Seq(Messages) /\ Held = HistOf(ms, files, fh)
  BY ReadyDisk
<1>2. fh'.streamRecording = fh.streamRecording /\ fh'.sizeInBytes = fh.sizeInBytes
  BY DEF Fields
<1>3. /\ Tidied(files', fh') /\ Recorded(files', fh'.recording) = ms
      /\ ScannedMessages(files'[fh.recording.name]) = ms
      /\ fh.streamRecording # NoFile =>
           Recorded(files', fh.streamRecording) = Recorded(files, fh.streamRecording)
  BY <1>1, <1>2, FlushedTidied
<1>4. ds \in Seq(Messages) /\ u \in Seq(Messages) /\ ms = ds \o u
  <2>1. Open(files, fh.recording) /\ OpenTidy(files, fh.recording)
    BY <1>1 DEF FilesOpen, Tidied
  <2> QED BY <1>1, <2>1, TidyRecorded
<1> HIDE DEF ms, ds, u
<1>5. HistOf(ms, files', fh') = HistOf(ms, files, fh)
  <2>1. fh.resetStreamState # "None" => fh.streamRecording # NoFile
    BY <1>1 DEF FilesOpen
  <2>2. \A f \in {"firstIndex", "lastIndex", "sizeInBytes", "autoResetBaseSize",
                   "resetStreamState", "ctxId", "forkPos", "streamBlocks", "resetStreamSize",
                   "resetStreamStartIndex", "resetStreamMessageCount"} : fh'[f] = fh[f]
    BY DEF Fields
  <2> QED BY <1>2, <1>3, <2>1, <2>2, SameHist
<1>6. Held' = Held
  BY <1>1, <1>3, <1>5, QuietDisk
<1>7. Recovered' = ms /\ DiskInv'
  BY <1>3, QuietDisk
<1>8. Durable!IsPrefixOf(Recovered, Recovered') /\ Durable!IsPrefixOf(Recovered', Held.messages)
  <2>1. Held.messages = ms
    BY <1>1, HistOfHas
  <2>2. Durable!IsPrefixOf(ds, ds \o u) /\ Durable!IsPrefixOf(ds \o u, ds \o u)
    BY <1>4, AllPrefix
  <2>3. Durable!IsPrefixOf(ds, ms) /\ Durable!IsPrefixOf(ms, ms)
    BY <1>4, <2>2
  <2> QED BY <1>1, <1>7, <2>1, <2>3
<1> QED BY <1>1, <1>6, <1>7, <1>8 DEF Durable!Save, Durable!MoreSaved, Held

(* The timer flushes.                                                      *)
LEMMA FlushDurable ==
  ASSUME DurableInv, RecoverableInv', Flush
  PROVE  DiskInv' /\ Durable!Save
<1>1. /\ Ready /\ UNCHANGED <<journal, call, server>> /\ files' = Flushed(files, fh.recording)
      /\ fh' = [fh EXCEPT !.recording.unsaved = << >>]
  BY DEF Flush, flushRecording
<1>2. DOMAIN fh = Fields
  BY <1>1, ReadyDisk DEF FilesOpen
<1>3. fh'.recording = [fh.recording EXCEPT !.unsaved = << >>]
  BY <1>1, <1>2 DEF Fields
<1>4. \A f \in Fields \ {"recording", "blocks"} : fh'[f] = fh[f]
  BY <1>1, <1>2 DEF Fields
<1> QED BY <1>1, <1>3, <1>4, SavedStep

(* Reading a batch flushes.                                                *)
LEMMA FetchDurable ==
  ASSUME DurableInv, RecoverableInv', Fetch
  PROVE  DiskInv' /\ Durable!Save
<1>1. Ready
  BY DEF Fetch
<1>2. PICK after \in (fh.firstIndex - 1) .. (fh.lastIndex - 1) : getBatch_load(after)
  BY DEF Fetch
<1> DEFINE i == findBlock(fh.blocks, after)
           read == BlockRead(fh.blocks[i])
<1>3. /\ UNCHANGED <<journal, call, server>> /\ files' = Flushed(files, fh.recording)
      /\ fh' = [fh EXCEPT !.recording.unsaved = << >>, !.blocks[i].messages = read]
  BY <1>2 DEF getBatch_load
<1> HIDE DEF i, read
<1>4. DOMAIN fh = Fields
  BY <1>1, ReadyDisk DEF FilesOpen
<1>5. fh'.recording = [fh.recording EXCEPT !.unsaved = << >>]
  BY <1>3, <1>4 DEF Fields
<1>6. \A f \in Fields \ {"recording", "blocks"} : fh'[f] = fh[f]
  BY <1>3, <1>4 DEF Fields
<1> QED BY <1>1, <1>3, <1>5, <1>6, SavedStep

(* Dropping batches from memory is no step of the history.                 *)
LEMMA CleanUpDurable ==
  ASSUME DurableInv, RecoverableInv', CleanUp
  PROVE  DiskInv' /\ UNCHANGED Durable!vars
<1>1. Ready /\ UNCHANGED <<files, journal, call, server>>
  BY DEF CleanUp, cleanupBatches
<1>2. PICK before \in fh.firstIndex .. fh.lastIndex :
        fh' = [fh EXCEPT !.blocks = cleanup(@, before)]
  BY DEF CleanUp, cleanupBatches
<1>3. FilesOpen(files, fh) /\ Tidied(files, fh)
      /\ Held = HistOf(Recorded(files, fh.recording), files, fh)
  BY <1>1, ReadyDisk
<1>4. \A f \in Fields \ {"blocks"} : fh'[f] = fh[f]
  BY <1>2, <1>3 DEF FilesOpen, Fields
<1>5. /\ fh'.recording = fh.recording /\ fh'.streamRecording = fh.streamRecording
      /\ fh'.sizeInBytes = fh.sizeInBytes
  BY <1>4 DEF Fields
<1>6. Tidied(files', fh')
  BY <1>1, <1>3, <1>5 DEF Tidied
<1>7. HistOf(Recorded(files, fh.recording), files, fh') = HistOf(Recorded(files, fh.recording), files, fh)
  BY <1>4, <1>5, SameHist DEF Fields
<1>8. Held' = Held
  <2>1. Held' = HistOf(Recorded(files', fh'.recording), files', fh')
    BY <1>1, <1>6, QuietDisk
  <2> QED BY <1>1, <1>3, <1>5, <1>7, <2>1
<1>9. Steady /\ DiskInv'
  BY <1>1, <1>6, SteadyDisk, QuietDisk
<1> QED BY <1>8, <1>9, StutterIs

----------------------------------------------------------------------------
(* Streaming.                                                              *)

(* The index of the stream ends where the image does.                      *)
LEMMA ImageIs ==
  ASSUME NEW fs, NEW h, NEW sm \in Seq(Cell), NEW rest \in Seq(Cell),
         Covers(h.streamBlocks, 0, sm), Recorded(fs, h.streamRecording) = sm \o rest
  PROVE  Image(fs, h) = sm
<1> DEFINE a == 1
           n == Len(sm)
<1>1. totalMessageCount(h.streamBlocks) = n
  <2> DEFINE z == 0
  <2>1. z \in Int /\ Covers(h.streamBlocks, z, sm)
    OBVIOUS
  <2> HIDE DEF z
  <2> QED BY <2>1, LastBlock
<1>2. a \in Nat /\ n \in Nat /\ 1 <= a /\ a <= n + 1 /\ n <= Len(sm)
  BY LenProperties
<1>3. SubSeq(sm, a, n) = sm
  BY SubSeqFull
<1>4. SubSeq(sm \o rest, a, n) = SubSeq(sm, a, n)
  <2> HIDE DEF a, n
  <2> QED BY <1>2, SliceOfFirst DEF n
<1>5. Image(fs, h) = SubSeq(sm \o rest, a, n)
  BY <1>1 DEF Image
<1> HIDE DEF a, n
<1> QED BY <1>3, <1>4, <1>5

(* The same when the file holds nothing else.                              *)
LEMMA WholeImage ==
  ASSUME NEW fs, NEW h, NEW sm \in Seq(Cell), Covers(h.streamBlocks, 0, sm),
         Recorded(fs, h.streamRecording) = sm
  PROVE  Image(fs, h) = sm
<1>1. << >> \in Seq(Cell) /\ sm \o << >> = sm
  BY EmptySeq, ConcatEmptySeq
<1> QED BY <1>1, ImageIs

(* The image with one more message.                                        *)
LEMMA WithImageIs ==
  ASSUME NEW fs, NEW h, AllRecordings(fs), FilesOpen(fs, h), Tidied(fs, h), Indexes(fs, h),
         h.resetStreamState # "None", NEW m \in Messages
  PROVE  LET g == WithImage(h, m)
         IN /\ \A f \in Fields \ {"streamRecording", "streamBlocks"} : g[f] = h[f]
            /\ Open(fs, g.streamRecording) /\ OpenTidy(fs, g.streamRecording)
            /\ g.streamRecording.name = h.streamRecording.name
            /\ Recorded(fs, g.streamRecording) \in Seq(Cell)
            /\ Covers(g.streamBlocks, 0, Recorded(fs, g.streamRecording))
            /\ Recorded(fs, g.streamRecording) = Append(Image(fs, h), m)
<1> DEFINE g  == WithImage(h, m)
           sm == Recorded(fs, h.streamRecording)
           w  == Written(h.streamRecording, <<m>>)
<1>1. /\ sm \in Seq(Cell) /\ Covers(h.streamBlocks, 0, sm) /\ Unread(h.streamBlocks)
  BY DEF Indexes, Forked, Fork
<1>2. Image(fs, h) = sm
  BY <1>1, WholeImage
<1>3. h.streamRecording # NoFile /\ Open(fs, h.streamRecording) /\ OpenTidy(fs, h.streamRecording)
  BY DEF FilesOpen, Tidied
<1>4. m \in Cell /\ <<m>> \in Seq(Cell) /\ <<m>> \in Seq(Messages)
  BY MessagesAreWhole
<1>5. Open(fs, w) /\ OpenTidy(fs, w) /\ w.name = h.streamRecording.name
      /\ Recorded(fs, w) = sm \o <<m>>
  BY <1>3, <1>4, WrittenOpen, WrittenTidy, WrittenRecorded
<1>6. /\ \A f \in Fields \ {"streamRecording", "streamBlocks"} : g[f] = h[f]
      /\ g.streamRecording = w /\ g.streamBlocks = incrementLastBlock(h.streamBlocks, m)
  BY DEF FilesOpen, Fields, WithImage
<1> HIDE DEF g, w, sm
<1>7. Covers(incrementLastBlock(h.streamBlocks, m), 0, sm \o <<m>>)
  BY <1>1, <1>4, IncrementedLast
<1>8. sm \o <<m>> = Append(sm, m) /\ sm \o <<m>> \in Seq(Cell)
  BY <1>1, <1>4, AppendIsConcat, ConcatProperties
<1> QED BY <1>2, <1>5, <1>6, <1>7, <1>8 DEF g

(* A message is added to the image in memory.                              *)
LEMMA StreamAddedHas ==
  ASSUME NEW h, IsHist(h), NEW m, h.resetStreamState = "Streaming",
         ~(SizeLimit > 0 /\ h.resetStreamSize + 1 > SizeLimit)
  PROVE  Durable!Live(Durable!addStreamResetMessage(h, h.ctxId, m)) =
           Hist(h.messages, h.firstIndex, h.lastIndex, h.sizeInBytes, h.autoResetBaseSize,
                "Streaming", h.ctxId, Append(h.resetStream, m), h.resetStreamIndex,
                h.resetStreamSize + 1, h.resetStreamStartIndex, h.resetStreamMessageCount + 1)
<1> DEFINE k == [h EXCEPT !.resetStreamSize = @ + 1, !.resetStream = Append(@, m),
                          !.resetStreamMessageCount = @ + 1]
<1>1. Durable!addStreamResetMessage(h, h.ctxId, m) = k
  BY DEF Durable!addStreamResetMessage, Durable!AddResult
<1>2. /\ IsHist(k) /\ k.resetStreamSize = h.resetStreamSize + 1
      /\ k.resetStream = Append(h.resetStream, m)
      /\ k.resetStreamMessageCount = h.resetStreamMessageCount + 1
      /\ \A f \in HistFields \ {"resetStreamSize", "resetStream", "resetStreamMessageCount"} :
           k[f] = h[f]
  BY DEF IsHist, HistFields
<1> HIDE DEF k
<1>3. /\ k.messages = h.messages /\ k.firstIndex = h.firstIndex /\ k.lastIndex = h.lastIndex
      /\ k.sizeInBytes = h.sizeInBytes /\ k.autoResetBaseSize = h.autoResetBaseSize
      /\ k.resetStreamState = "Streaming" /\ k.ctxId = h.ctxId
      /\ k.resetStreamIndex = h.resetStreamIndex
      /\ k.resetStreamStartIndex = h.resetStreamStartIndex
  BY <1>2 DEF HistFields
<1>4. k = Hist(h.messages, h.firstIndex, h.lastIndex, h.sizeInBytes, h.autoResetBaseSize,
               "Streaming", h.ctxId, Append(h.resetStream, m), h.resetStreamIndex,
               h.resetStreamSize + 1, h.resetStreamStartIndex, h.resetStreamMessageCount + 1)
  BY <1>2, <1>3, HistIs
<1> QED BY <1>1, <1>4, LiveIs

(* A message of the reset image.                                           *)
LEMMA StreamDataDurable ==
  ASSUME DurableInv, RecoverableInv', NEW id \in Clients, StreamData(id)
  PROVE  /\ DiskInv' /\ Durable!AddToStream
         /\ Held.resetStreamState # "None" /\ Held'.messages = Held.messages
         /\ Held'.resetStream = Append(Held.resetStream, ImageMsg(0))
         /\ Held'.resetStreamIndex = Held.resetStreamIndex
<1> DEFINE m  == ImageMsg(0)
           g  == WithImage(fh, m)
           ms == Recorded(files, fh.recording)
<1>1. /\ Ready /\ UNCHANGED <<files, journal, call, server>>
      /\ AddResult(fh, id) = "Ok"
      /\ fh' = [g EXCEPT !.resetStreamSize = @ + 1, !.resetStreamMessageCount = @ + 1]
  BY DEF StreamData, addResetStreamMessage
<1>2. /\ fh.resetStreamState = "Streaming" /\ ~(SizeLimit > 0 /\ fh.resetStreamSize + 1 > SizeLimit)
  BY <1>1 DEF AddResult
<1>3. /\ AllRecordings(files) /\ FilesOpen(files, fh) /\ Tidied(files, fh) /\ Indexes(files, fh)
      /\ Held = HistOf(ms, files, fh)
  BY <1>1, ReadyDisk
<1>4. m \in Messages
  BY MessagesAre
<1> HIDE DEF m
<1>5. /\ \A f \in Fields \ {"streamRecording", "streamBlocks"} : g[f] = fh[f]
      /\ OpenTidy(files, g.streamRecording)
      /\ Recorded(files, g.streamRecording) \in Seq(Cell)
      /\ Covers(g.streamBlocks, 0, Recorded(files, g.streamRecording))
      /\ Recorded(files, g.streamRecording) = Append(Image(files, fh), m)
  BY <1>2, <1>3, <1>4, WithImageIs
<1>6. DOMAIN g = Fields
  BY <1>3 DEF WithImage, FilesOpen
<1> HIDE DEF g, ms
<1>7. /\ \A f \in Fields \ {"resetStreamSize", "resetStreamMessageCount"} : fh'[f] = g[f]
      /\ fh'.resetStreamSize = g.resetStreamSize + 1
      /\ fh'.resetStreamMessageCount = g.resetStreamMessageCount + 1
  BY <1>1, <1>6 DEF Fields
<1>8. /\ fh'.recording = fh.recording /\ fh'.firstIndex = fh.firstIndex
      /\ fh'.lastIndex = fh.lastIndex
      /\ fh'.sizeInBytes = fh.sizeInBytes /\ fh'.autoResetBaseSize = fh.autoResetBaseSize
      /\ fh'.resetStreamState = "Streaming" /\ fh'.ctxId = fh.ctxId /\ fh'.forkPos = fh.forkPos
      /\ fh'.resetStreamStartIndex = fh.resetStreamStartIndex
      /\ fh'.streamRecording = g.streamRecording /\ fh'.streamBlocks = g.streamBlocks
      /\ fh'.resetStreamSize = fh.resetStreamSize + 1
      /\ fh'.resetStreamMessageCount = fh.resetStreamMessageCount + 1
  BY <1>2, <1>5, <1>7 DEF Fields
<1>9. Image(files', fh') = Append(Image(files, fh), m)
  <2>1. Image(files', fh') = Image(files, g)
    BY <1>1, <1>8 DEF Image
  <2>2. Image(files, g) = Recorded(files, g.streamRecording)
    BY <1>5, WholeImage
  <2> QED BY <1>5, <2>1, <2>2
<1>10. Tidied(files', fh')
  BY <1>1, <1>3, <1>5, <1>8 DEF Tidied
<1>11. Held' = HistOf(ms, files', fh')
  <2>1. Recorded(files', fh'.recording) = ms
    BY <1>1, <1>8 DEF ms
  <2> QED BY <1>1, <1>10, <2>1, QuietDisk
<1>12. Held' = Hist(ms, fh.firstIndex, fh.lastIndex, fh.sizeInBytes, fh.autoResetBaseSize,
                    "Streaming", fh.ctxId, Append(Image(files, fh), m), fh.forkPos - 1,
                    fh.resetStreamSize + 1, fh.resetStreamStartIndex,
                    fh.resetStreamMessageCount + 1)
  <2>1. fh'.resetStreamState # "None"
    BY <1>8
  <2> QED BY <1>8, <1>9, <1>11, <2>1, WithStream
<1>13. /\ IsHist(Held) /\ Held.messages = ms /\ Held.firstIndex = fh.firstIndex
       /\ Held.lastIndex = fh.lastIndex /\ Held.sizeInBytes = fh.sizeInBytes
       /\ Held.autoResetBaseSize = fh.autoResetBaseSize
       /\ Held.resetStreamState = "Streaming" /\ Held.ctxId = fh.ctxId
       /\ Held.resetStream = Image(files, fh) /\ Held.resetStreamIndex = fh.forkPos - 1
       /\ Held.resetStreamSize = fh.resetStreamSize
       /\ Held.resetStreamStartIndex = fh.resetStreamStartIndex
       /\ Held.resetStreamMessageCount = fh.resetStreamMessageCount
  <2>1. fh.resetStreamState # "None"
    BY <1>2
  <2> QED BY <1>2, <1>3, <2>1, HistOfHas
<1>14. Held' = Durable!Live(Durable!addStreamResetMessage(Held, Held.ctxId, m))
  <2>1. ~(SizeLimit > 0 /\ Held.resetStreamSize + 1 > SizeLimit)
    BY <1>2, <1>13
  <2> QED BY <1>12, <1>13, <2>1, StreamAddedHas
<1>15. Steady /\ DiskInv'
  BY <1>1, <1>10, SteadyDisk, QuietDisk
<1>16. Durable!Becomes(Durable!addStreamResetMessage(Held, Held.ctxId, m))
  BY <1>14, <1>15, BecomesIs
<1>17. Durable!AddToStream
  BY <1>4, <1>13, <1>15, <1>16 DEF Durable!AddToStream, Held
<1>18. /\ Held'.messages = ms /\ Held'.resetStream = Append(Image(files, fh), m)
       /\ Held'.resetStreamIndex = fh.forkPos - 1
  <2> DEFINE s == Append(Image(files, fh), m)
             p == fh.forkPos - 1
             n == fh.resetStreamSize + 1
             k == fh.resetStreamMessageCount + 1
  <2>1. Held' = Hist(ms, fh.firstIndex, fh.lastIndex, fh.sizeInBytes, fh.autoResetBaseSize,
                     "Streaming", fh.ctxId, s, p, n, fh.resetStreamStartIndex, k)
    BY <1>12
  <2> HIDE DEF s, p, n, k
  <2>2. Held'.messages = ms /\ Held'.resetStream = s /\ Held'.resetStreamIndex = p
    BY <2>1, HistHas
  <2> QED BY <2>2 DEF s, p
<1> QED BY <1>13, <1>15, <1>17, <1>18 DEF m

(* The image is complete, or its messages are not as many as they should   *)
(* be.                                                                     *)
LEMMA PreparedHas ==
  ASSUME NEW h, IsHist(h), h.resetStreamState = "Streaming", h.resetStreamMessageCount # 0
  PROVE  Durable!Live(Durable!prepareStreamedReset(h, h.ctxId, h.resetStreamMessageCount)) =
           Hist(h.messages, h.firstIndex, h.lastIndex, h.sizeInBytes, h.autoResetBaseSize,
                "Prepared", 0, Append(h.resetStream, CaughtUpMsg), h.resetStreamIndex,
                h.resetStreamSize, h.resetStreamStartIndex, h.resetStreamMessageCount)
<1> DEFINE n == h.resetStreamMessageCount
           k == [h EXCEPT !.resetStream = Append(@, Durable!CaughtUpMsg),
                          !.resetStreamState = "Prepared", !.ctxId = 0]
<1>1. Durable!PrepareResult(h, h.ctxId, n) = "Ok"
  BY DEF Durable!PrepareResult
<1>2. Durable!prepareStreamedReset(h, h.ctxId, n) = k
  BY <1>1 DEF Durable!prepareStreamedReset
<1>3. Durable!CaughtUpMsg = CaughtUpMsg
  BY DEF Durable!CaughtUpMsg, CaughtUpMsg
<1>4. /\ IsHist(k) /\ k.resetStreamState = "Prepared" /\ k.ctxId = 0
      /\ k.resetStream = Append(h.resetStream, CaughtUpMsg)
      /\ \A f \in HistFields \ {"resetStream", "resetStreamState", "ctxId"} : k[f] = h[f]
  BY <1>3 DEF IsHist, HistFields
<1> HIDE DEF k
<1>5. /\ k.messages = h.messages /\ k.firstIndex = h.firstIndex /\ k.lastIndex = h.lastIndex
      /\ k.sizeInBytes = h.sizeInBytes /\ k.autoResetBaseSize = h.autoResetBaseSize
      /\ k.resetStreamIndex = h.resetStreamIndex /\ k.resetStreamSize = h.resetStreamSize
      /\ k.resetStreamStartIndex = h.resetStreamStartIndex
      /\ k.resetStreamMessageCount = h.resetStreamMessageCount
  BY <1>4 DEF HistFields
<1>6. k = Hist(h.messages, h.firstIndex, h.lastIndex, h.sizeInBytes, h.autoResetBaseSize,
               "Prepared", 0, Append(h.resetStream, CaughtUpMsg), h.resetStreamIndex,
               h.resetStreamSize, h.resetStreamStartIndex, h.resetStreamMessageCount)
  BY <1>4, <1>5, HistIs
<1> QED BY <1>2, <1>6, LiveIs

(* A stream with a wrong count of messages is over, ...                    *)
LEMMA RefusedHas ==
  ASSUME NEW h, IsHist(h), h.resetStreamState = "Streaming"
  PROVE  Durable!Live(Durable!prepareStreamedReset(h, h.ctxId, 0)) =
           Hist(h.messages, h.firstIndex, h.lastIndex, h.sizeInBytes, h.autoResetBaseSize,
                "None", 0, << >>, -1, 0, 0, 0)
<1> DEFINE a == Durable!abortStreamedReset(h, h.ctxId)
<1>1. Durable!PrepareResult(h, h.ctxId, 0) = "InvalidMessageCount"
  BY DEF Durable!PrepareResult
<1>2. Durable!prepareStreamedReset(h, h.ctxId, 0) = a
  BY <1>1 DEF Durable!prepareStreamedReset, Durable!abortStreamedReset, Durable!StreamedResetBy
<1>3. /\ IsHist(a) /\ a.messages = h.messages /\ a.firstIndex = h.firstIndex
      /\ a.lastIndex = h.lastIndex /\ a.sizeInBytes = h.sizeInBytes
      /\ a.autoResetBaseSize = h.autoResetBaseSize
      /\ a.resetStreamState = "None" /\ a.ctxId = 0
  BY AbortedHas
<1> HIDE DEF a
<1>4. a = Hist(h.messages, h.firstIndex, h.lastIndex, h.sizeInBytes, h.autoResetBaseSize,
               "None", 0, a.resetStream, a.resetStreamIndex, a.resetStreamSize,
               a.resetStreamStartIndex, a.resetStreamMessageCount)
  BY <1>3, HistIs
<1> QED BY <1>2, <1>4, LiveIs

(* ... and so it is in the files.                                          *)
LEMMA StreamRefusedDurable ==
  ASSUME DurableInv, RecoverableInv', Ready, UNCHANGED <<journal, call, server>>,
         fh.resetStreamState = "Streaming",
         files' = filesAfterAbort(files, fh, -1), fh' = AbortedBy(fh, -1)
  PROVE  DiskInv' /\ Durable!PrepareStream
<1> DEFINE ms == Recorded(files, fh.recording)
<1>1. /\ AllRecordings(files) /\ FilesOpen(files, fh) /\ Tidied(files, fh) /\ Counts(fh)
      /\ Held = HistOf(ms, files, fh)
  BY ReadyDisk
<1>2. /\ Tidied(files', fh') /\ files'[fh.recording.name] = files[fh.recording.name]
      /\ Recorded(files', fh'.recording) = ms
  BY <1>1, AbortTidied
<1>3. /\ fh'.firstIndex = fh.firstIndex /\ fh'.lastIndex = fh.lastIndex
      /\ fh'.sizeInBytes = fh.sizeInBytes /\ fh'.autoResetBaseSize = fh.autoResetBaseSize
      /\ fh'.resetStreamState = "None" /\ fh'.ctxId = 0
  <2>1. StreamedResetBy(fh, -1)
    BY DEF StreamedResetBy
  <2> QED BY <1>1, <2>1, AbortIs DEF Fields
<1> HIDE DEF ms
<1>4. Held' = HistOf(ms, files', fh')
  BY <1>2, QuietDisk
<1>5. Held' = Hist(ms, fh.firstIndex, fh.lastIndex, fh.sizeInBytes, fh.autoResetBaseSize,
                   "None", 0, << >>, -1, 0, 0, 0)
  BY <1>3, <1>4, NoStream
<1>6. /\ IsHist(Held) /\ Held.messages = ms /\ Held.firstIndex = fh.firstIndex
      /\ Held.lastIndex = fh.lastIndex /\ Held.sizeInBytes = fh.sizeInBytes
      /\ Held.autoResetBaseSize = fh.autoResetBaseSize /\ Held.resetStreamState = "Streaming"
  BY <1>1, HistOfHas
<1>7. Held' = Durable!Live(Durable!prepareStreamedReset(Held, Held.ctxId, 0))
  BY <1>5, <1>6, RefusedHas
<1>8. Steady /\ DiskInv'
  BY <1>2, SteadyDisk, QuietDisk
<1>9. Durable!Becomes(Durable!prepareStreamedReset(Held, Held.ctxId, 0))
  BY <1>7, <1>8, BecomesIs
<1> QED BY <1>6, <1>8, <1>9 DEF Durable!PrepareStream, Held

(* The end of the stream.                                                  *)
LEMMA StreamFinishDurable ==
  ASSUME DurableInv, RecoverableInv', NEW id \in Clients, StreamFinish(id)
  PROVE  DiskInv' /\ Durable!PrepareStream
<1> DEFINE m  == CaughtUpMsg
           g  == WithImage(fh, m)
           ms == Recorded(files, fh.recording)
<1>1. Ready /\ UNCHANGED <<journal, call, server>>
  BY DEF StreamFinish, prepareResetStream
<1>2. CASE PrepareResult(fh, id, 1) = "InvalidMessageCount"
  <2>1. files' = filesAfterAbort(files, fh, -1) /\ fh' = AbortedBy(fh, -1)
    BY <1>2 DEF StreamFinish, prepareResetStream
  <2>2. fh.resetStreamState = "Streaming"
    BY <1>2 DEF PrepareResult
  <2> QED BY <1>1, <2>1, <2>2, StreamRefusedDurable
<1>3. CASE PrepareResult(fh, id, 1) = "Ok"
  <2>1. /\ fh.resetStreamState = "Streaming" /\ fh.resetStreamMessageCount = 1
        /\ files' = Flushed(files, g.streamRecording)
        /\ fh' = [g EXCEPT !.streamRecording.unsaved = << >>,
                           !.resetStreamState = "Prepared", !.ctxId = 0]
    BY <1>3 DEF StreamFinish, prepareResetStream, PrepareResult
  <2>2. /\ AllRecordings(files) /\ FilesOpen(files, fh) /\ Tidied(files, fh) /\ Indexes(files, fh)
        /\ Held = HistOf(ms, files, fh)
    BY <1>1, ReadyDisk
  <2>3. m \in Messages
    BY MessagesAre
  <2> HIDE DEF m
  <2>4. /\ \A f \in Fields \ {"streamRecording", "streamBlocks"} : g[f] = fh[f]
        /\ Open(files, g.streamRecording) /\ OpenTidy(files, g.streamRecording)
        /\ g.streamRecording.name = fh.streamRecording.name
        /\ Recorded(files, g.streamRecording) \in Seq(Cell)
        /\ Covers(g.streamBlocks, 0, Recorded(files, g.streamRecording))
        /\ Recorded(files, g.streamRecording) = Append(Image(files, fh), m)
    BY <2>1, <2>2, <2>3, WithImageIs
  <2>5. DOMAIN g = Fields
    BY <2>2 DEF WithImage, FilesOpen
  <2> HIDE DEF g, ms
  <2> DEFINE r == [g.streamRecording EXCEPT !.unsaved = << >>]
  <2>6. /\ \A f \in Fields \ {"streamRecording", "resetStreamState", "ctxId"} : fh'[f] = g[f]
        /\ fh'.streamRecording = r /\ fh'.resetStreamState = "Prepared" /\ fh'.ctxId = 0
    BY <2>1, <2>5 DEF Fields
  <2>7. OpenTidy(files', r) /\ Recorded(files', r) = Recorded(files, g.streamRecording)
    BY <2>1, <2>2, <2>4, FlushedTidy, FlushedRecorded
  <2> HIDE DEF r
  <2>8. /\ fh'.recording = fh.recording /\ fh'.firstIndex = fh.firstIndex
        /\ fh'.lastIndex = fh.lastIndex /\ fh'.sizeInBytes = fh.sizeInBytes
        /\ fh'.autoResetBaseSize = fh.autoResetBaseSize /\ fh'.forkPos = fh.forkPos
        /\ fh'.resetStreamStartIndex = fh.resetStreamStartIndex
        /\ fh'.resetStreamSize = fh.resetStreamSize
        /\ fh'.resetStreamMessageCount = fh.resetStreamMessageCount
        /\ fh'.streamBlocks = g.streamBlocks
    BY <2>4, <2>6 DEF Fields
  <2>9. Image(files', fh') = Append(Image(files, fh), m)
    <3>1. Covers(fh'.streamBlocks, 0, Recorded(files, g.streamRecording))
          /\ Recorded(files', fh'.streamRecording) = Recorded(files, g.streamRecording)
      BY <2>4, <2>6, <2>7, <2>8
    <3> QED BY <2>4, <3>1, WholeImage
  <2>10. files'[fh.recording.name] = files[fh.recording.name]
    <3>1. Open(files, fh.recording) /\ fh.recording.name # g.streamRecording.name
      BY <2>1, <2>2, <2>4 DEF FilesOpen
    <3>2. Flushed(files, g.streamRecording)[fh.recording.name] = files[fh.recording.name]
      BY <2>2, <2>4, <3>1, FlushedOther
    <3> QED BY <2>1, <3>2
  <2>11. OpenTidy(files', fh'.recording) /\ Recorded(files', fh'.recording) = ms
    <3>1. OpenTidy(files, fh.recording)
      BY <2>2 DEF Tidied
    <3> QED BY <2>8, <2>10, <3>1, SameFileTidy, SameFileRecorded DEF ms
  <2>12. Tidied(files', fh')
    BY <2>2, <2>6, <2>7, <2>8, <2>11 DEF Tidied
  <2>13. Held' = HistOf(ms, files', fh')
    BY <1>1, <2>11, <2>12, QuietDisk
  <2>14. Held' = Hist(ms, fh.firstIndex, fh.lastIndex, fh.sizeInBytes, fh.autoResetBaseSize,
                      "Prepared", 0, Append(Image(files, fh), m), fh.forkPos - 1,
                      fh.resetStreamSize, fh.resetStreamStartIndex, fh.resetStreamMessageCount)
    <3>1. fh'.resetStreamState # "None"
      BY <2>6
    <3>2. Held' = Hist(ms, fh'.firstIndex, fh'.lastIndex, fh'.sizeInBytes, fh'.autoResetBaseSize,
                       fh'.resetStreamState, fh'.ctxId, Image(files', fh'), fh'.forkPos - 1,
                       fh'.resetStreamSize, fh'.resetStreamStartIndex,
                       fh'.resetStreamMessageCount)
      BY <2>13, <3>1, WithStream
    <3> QED BY <2>6, <2>8, <2>9, <3>2
  <2>15. /\ IsHist(Held) /\ Held.messages = ms /\ Held.firstIndex = fh.firstIndex
         /\ Held.lastIndex = fh.lastIndex /\ Held.sizeInBytes = fh.sizeInBytes
         /\ Held.autoResetBaseSize = fh.autoResetBaseSize
         /\ Held.resetStreamState = "Streaming"
         /\ Held.resetStream = Image(files, fh) /\ Held.resetStreamIndex = fh.forkPos - 1
         /\ Held.resetStreamSize = fh.resetStreamSize
         /\ Held.resetStreamStartIndex = fh.resetStreamStartIndex
         /\ Held.resetStreamMessageCount = fh.resetStreamMessageCount
    <3>1. fh.resetStreamState # "None"
      BY <2>1
    <3> QED BY <2>1, <2>2, <3>1, HistOfHas
  <2> DEFINE n == Held.resetStreamMessageCount
  <2>16. Held' = Durable!Live(Durable!prepareStreamedReset(Held, Held.ctxId, n))
    <3>1. n # 0
      BY <2>1, <2>15
    <3> QED BY <2>14, <2>15, <3>1, PreparedHas DEF m
  <2>17. Steady /\ DiskInv'
    BY <1>1, <2>10, <2>12, SteadyDisk, QuietDisk
  <2>18. Durable!Becomes(Durable!prepareStreamedReset(Held, Held.ctxId, n))
    BY <2>16, <2>17, BecomesIs
  <2> QED BY <2>15, <2>17, <2>18 DEF Durable!PrepareStream, Held
<1> QED BY <1>2, <1>3 DEF StreamFinish, prepareResetStream

(* What the server adds to an image.                                       *)
LEMMA ServerSideMessages ==
  ASSUME RecoverableInv
  PROVE  serverSideStateMessages \in Seq(Messages)
<1> DEFINE joins == [i \in DOMAIN clients |-> JoinMsg(clients[i].id)]
<1>1. DOMAIN clients = 1 .. Len(clients) /\ Len(clients) \in Nat
  BY DEF RecoverableInv
<1>2. ASSUME NEW i \in DOMAIN clients PROVE JoinMsg(clients[i].id) \in Messages
  <2>1. clients[i].id \in Clients
    BY OthersType DEF RecoverableInv, ClientsType
  <2> QED BY <2>1, MessagesAre
<1>3. joins \in Seq(Messages)
  BY <1>1, <1>2, IsASeq
<1>4. <<OwnerMsg(0)>> \in Seq(Messages)
  BY MessagesAre
<1> HIDE DEF joins
<1>5. joins \o <<OwnerMsg(0)>> \in Seq(Messages)
  BY <1>3, <1>4, ConcatProperties
<1> QED BY <1>5 DEF serverSideStateMessages, joins

(* A stream is started in memory.                                          *)
StartMarkers(id) == <<SoftResetMsg, StreamStartMsg(id, 0)>>

(* A stream that starts, in memory.                                        *)
LEMMA StartedHas ==
  ASSUME NEW h, IsHist(h), Durable!StartResult(h) = "Ok", NEW id, NEW s
  PROVE  LET two == StartMarkers(id)
             ms  == h.messages \o two
         IN Durable!Live(Durable!startStreamedReset(h, id, 0, s)) =
              Hist(ms, h.firstIndex, h.lastIndex + Len(two), h.sizeInBytes + Len(two),
                   h.autoResetBaseSize, "Streaming", id, s, Len(ms), 0,
                   h.lastIndex + Len(two) + 1, 0)
<1> DEFINE two == StartMarkers(id)
           ms  == h.messages \o two
           a   == Durable!addMessageInternal(h, two)
           k   == [a EXCEPT !.resetStream = s, !.resetStreamIndex = Len(a.messages),
                            !.resetStreamState = "Streaming", !.ctxId = id,
                            !.resetStreamSize = 0,
                            !.resetStreamStartIndex = a.lastIndex + 1,
                            !.resetStreamMessageCount = 0]
<1>1. <<Durable!SoftResetMsg, Durable!StreamStartMsg(id, 0)>> = two
  BY DEF Durable!SoftResetMsg, Durable!StreamStartMsg, SoftResetMsg, StreamStartMsg, StartMarkers
<1>2. Durable!startStreamedReset(h, id, 0, s) = k
  BY <1>1 DEF Durable!startStreamedReset
<1>3. /\ IsHist(a) /\ a.messages = ms /\ a.lastIndex = h.lastIndex + Len(two)
      /\ a.sizeInBytes = h.sizeInBytes + Len(two)
      /\ \A f \in HistFields \ {"messages", "lastIndex", "sizeInBytes"} : a[f] = h[f]
  BY AddedIs
<1> HIDE DEF two, ms, a
<1>4. /\ IsHist(k) /\ k.resetStream = s /\ k.resetStreamIndex = Len(a.messages)
      /\ k.resetStreamState = "Streaming" /\ k.ctxId = id /\ k.resetStreamSize = 0
      /\ k.resetStreamStartIndex = a.lastIndex + 1 /\ k.resetStreamMessageCount = 0
      /\ k.messages = a.messages /\ k.firstIndex = a.firstIndex /\ k.lastIndex = a.lastIndex
      /\ k.sizeInBytes = a.sizeInBytes /\ k.autoResetBaseSize = a.autoResetBaseSize
  BY <1>3 DEF IsHist, HistFields
<1> HIDE DEF k
<1>5. a.firstIndex = h.firstIndex /\ a.autoResetBaseSize = h.autoResetBaseSize
  BY <1>3 DEF HistFields
<1>6. k = Hist(ms, h.firstIndex, h.lastIndex + Len(two), h.sizeInBytes + Len(two),
               h.autoResetBaseSize, "Streaming", id, s, Len(ms), 0,
               h.lastIndex + Len(two) + 1, 0)
  BY <1>3, <1>4, <1>5, HistIs
<1> QED BY <1>2, <1>6, LiveIs DEF two, ms

(* A stream that starts, in the files.                                     *)
LEMMA StreamStartDurable ==
  ASSUME DurableInv, RecoverableInv', NEW id \in Clients, StreamStart(id)
  PROVE  /\ DiskInv' /\ Durable!StartStream
         /\ Held'.messages = Held.messages \o StartMarkers(id)
         /\ Held'.resetStream = serverSideStateMessages
         /\ Held'.resetStreamIndex = Len(Held'.messages)
<1> DEFINE two == StartMarkers(id)
           h0  == AddInternal(fh, SoftResetMsg)
           h   == AddInternal(h0, StreamStartMsg(id, 0))
           s   == serverSideStateMessages
           old == Recorded(files, fh.recording)
           ms  == old \o two
<1>1. Ready /\ UNCHANGED <<journal, call, server>> /\ StartResult(fh) = "Ok"
  BY DEF StreamStart, openResetStream
<1>2. /\ AllRecordings(files) /\ FilesOpen(files, fh) /\ Tidied(files, fh) /\ Counts(fh)
      /\ old \in Seq(Messages) /\ Held = HistOf(old, files, fh)
  BY <1>1, ReadyDisk
<1>3. two \in Seq(Messages) /\ Grows(fh, h, two)
  <2>1. SoftResetMsg \in Messages /\ StreamStartMsg(id, 0) \in Messages
    BY MessagesAre
  <2>2. Grows(fh, h0, <<SoftResetMsg>>)
    BY <1>2, <2>1, AddInternalGrows
  <2>3. <<SoftResetMsg>> \in Seq(Messages) /\ <<StreamStartMsg(id, 0)>> \in Seq(Messages)
    BY <2>1
  <2>4. FilesOpen(files, h0)
    BY <1>2, <2>2, <2>3, GrowsTidied
  <2> HIDE DEF h0
  <2>5. Grows(h0, h, <<StreamStartMsg(id, 0)>>)
    BY <2>1, <2>4, AddInternalGrows
  <2> HIDE DEF h
  <2>6. Grows(fh, h, <<SoftResetMsg>> \o <<StreamStartMsg(id, 0)>>)
    BY <1>2, <2>2, <2>3, <2>5, GrowsTwice DEF FilesOpen
  <2>7. <<SoftResetMsg>> \o <<StreamStartMsg(id, 0)>> = two
    BY <2>1, PairIs DEF StartMarkers
  <2>8. two \in Seq(Messages)
    BY <2>1 DEF StartMarkers
  <2> QED BY <2>6, <2>7, <2>8
<1>4. PICK n \in 0 .. Cardinality(DOMAIN files) :
        LET name == <<h.fileCount + 1, n>>
            bs   == closeLastBlock(h.blocks)
        IN /\ uniqueRecordingFilename(files, h.fileCount + 1, name)
           /\ files' = WithNew(files, name)
           /\ fh' = [h EXCEPT !.fileCount = @ + 1, !.streamFileCount = h.fileCount + 1,
                              !.forkPos = h.recording.pos, !.blocks = bs,
                              !.streamBlockIndex = Len(bs),
                              !.streamBlocks = Indexed(1, 0, s),
                              !.streamRecording = Written(openRecording(name), s),
                              !.resetStreamState = "Streaming", !.ctxId = id,
                              !.resetStreamSize = 0, !.resetStreamMessageCount = 0,
                              !.resetStreamStartIndex = h.lastIndex + 1]
  BY DEF StreamStart, openResetStream, h, h0
<1> HIDE DEF h0, h, two, s, old, ms
<1> DEFINE name == <<h.fileCount + 1, n>>
           g    == Written(openRecording(name), s)
<1>5. FilesOpen(files, h) /\ Tidied(files, h) /\ h.fileCount = fh.fileCount
  BY <1>2, <1>3, GrowsTidied DEF Grows, LeftAlone, Fields
<1>6. name \in FileName /\ name \notin DOMAIN files /\ files' = WithNew(files, name)
  BY <1>4, <1>5 DEF FileName, FilesOpen, uniqueRecordingFilename
<1>7. /\ \A f \in {"firstIndex", "lastIndex", "sizeInBytes", "autoResetBaseSize", "recording"} :
           fh'[f] = h[f]
      /\ fh'.forkPos = h.recording.pos /\ fh'.streamBlocks = Indexed(1, 0, s)
      /\ fh'.streamRecording = g /\ fh'.resetStreamState = "Streaming" /\ fh'.ctxId = id
      /\ fh'.resetStreamSize = 0 /\ fh'.resetStreamMessageCount = 0
      /\ fh'.resetStreamStartIndex = h.lastIndex + 1
  <2>1. DOMAIN h = Fields
    BY <1>5 DEF FilesOpen
  <2> QED BY <1>4, <2>1 DEF Fields
<1> HIDE DEF name, g
<1>8. /\ h.firstIndex = fh.firstIndex /\ h.lastIndex = fh.lastIndex + Len(two)
      /\ h.sizeInBytes = fh.sizeInBytes + Len(two) /\ h.autoResetBaseSize = fh.autoResetBaseSize
  BY <1>3 DEF Grows, LeftAlone, Fields
<1>9. s \in Seq(Messages) /\ s \in Seq(Cell)
  BY ServerSideMessages, ServerSideType DEF DurableInv, s
<1>10. /\ AllRecordings(files') /\ Open(files', openRecording(name))
       /\ Open(files', h.recording) /\ Open(files', fh.recording)
  BY <1>2, <1>5, <1>6, NewOpen DEF FilesOpen
<1>11. files'[name] = <<HeaderCell>> /\ \A f \in DOMAIN files : files'[f] = files[f]
  BY <1>6 DEF WithNew
<1>12. OpenTidy(files', g) /\ Recorded(files', g) = s
  <2>1. OpenTidy(files', openRecording(name))
    BY <1>11, NewTidy
  <2>2. OpenTidy(files', g)
    BY <1>9, <1>10, <2>1, WrittenTidy DEF g
  <2>3. Recorded(files', openRecording(name)) = << >>
    BY <1>10, NewRecorded
  <2>4. Recorded(files', g) = << >> \o s
    BY <1>9, <1>10, <2>3, WrittenRecorded DEF g
  <2>5. << >> \o s = s
    BY <1>9, ConcatEmptySeq
  <2> QED BY <2>2, <2>4, <2>5
<1>13. Image(files', fh') = s
  <2>1. Covers(fh'.streamBlocks, 0, s) /\ Recorded(files', fh'.streamRecording) = s
    BY <1>7, <1>9, <1>12, AllIncremented
  <2> QED BY <1>9, <2>1, WholeImage
<1>14. fh'.recording = h.recording /\ fh'.sizeInBytes = h.sizeInBytes
  BY <1>7
<1>15. /\ Recorded(files, h.recording) = ms /\ Len(ms) = h.recording.pos - 1
       /\ h.recording.name \in DOMAIN files /\ fh.recording.name \in DOMAIN files
       /\ OpenTidy(files, h.recording)
  <2>1. Open(files, fh.recording) /\ OpenTidy(files, fh.recording)
        /\ Longer(fh.recording, h.recording, two) /\ Open(files, h.recording)
        /\ OpenTidy(files, h.recording)
    BY <1>2, <1>3, <1>5 DEF FilesOpen, Tidied, Grows
  <2>2. Recorded(files, h.recording) = Recorded(files, fh.recording) \o two
    BY <1>2, <1>3, <2>1, LongerIs
  <2>3. Len(Recorded(files, h.recording)) = h.recording.pos - 1
    BY <1>2, <2>1, RecordedIs
  <2> QED BY <2>1, <2>2, <2>3 DEF ms, old, Open
<1>16. OpenTidy(files', fh'.recording) /\ Recorded(files', fh'.recording) = ms
  <2>1. files'[h.recording.name] = files[h.recording.name]
    BY <1>11, <1>15
  <2> QED BY <1>14, <1>15, <2>1, SameFileTidy, SameFileRecorded
<1>17. Tidied(files', fh')
  BY <1>5, <1>7, <1>12, <1>14, <1>16 DEF Tidied
<1>18. files'[fh.recording.name] = files[fh.recording.name]
  BY <1>11, <1>15
<1>19. Held' = HistOf(ms, files', fh')
  BY <1>1, <1>16, <1>17, QuietDisk
<1>20. Held' = Hist(ms, fh.firstIndex, fh.lastIndex + Len(two), fh.sizeInBytes + Len(two),
                    fh.autoResetBaseSize, "Streaming", id, s, Len(ms), 0,
                    fh.lastIndex + Len(two) + 1, 0)
  <2>1. fh'.resetStreamState # "None"
    BY <1>7
  <2> QED BY <1>7, <1>8, <1>13, <1>15, <1>19, <2>1, WithStream
<1>21. /\ IsHist(Held) /\ Held.messages = old /\ Held.firstIndex = fh.firstIndex
       /\ Held.lastIndex = fh.lastIndex /\ Held.sizeInBytes = fh.sizeInBytes
       /\ Held.autoResetBaseSize = fh.autoResetBaseSize
       /\ Held.resetStreamState = fh.resetStreamState
  BY <1>2, HistOfHas
<1>22. Durable!StartResult(Held) = "Ok" /\ Held.resetStreamState = "None"
  BY <1>1, <1>21 DEF Durable!StartResult, StartResult, Durable!hasRegularSpaceFor,
                     hasRegularSpaceFor, Durable!hasSpaceFor, hasSpaceFor
<1>23. Held' = Durable!Live(Durable!startStreamedReset(Held, id, 0, s))
  BY <1>20, <1>21, <1>22, StartedHas DEF ms, two
<1>24. Steady /\ DiskInv'
  BY <1>1, <1>17, <1>18, SteadyDisk, QuietDisk
<1>25. Held'.resetStream = s /\ Held'.messages = ms /\ Held'.resetStreamIndex = Len(ms)
  BY <1>20, HistHas
<1>26. Durable!Becomes(Durable!startStreamedReset(Held, id, 0, Held'.resetStream))
  BY <1>23, <1>24, <1>25, BecomesIs
<1>27. Held'.messages = Held.messages \o StartMarkers(id)
  BY <1>21, <1>25 DEF ms, two
<1>28. Held'.resetStream = serverSideStateMessages
  BY <1>25 DEF s
<1>29. Durable!StartStream
  BY <1>9, <1>22, <1>24, <1>25, <1>26 DEF Durable!StartStream, Held
<1> QED BY <1>24, <1>25, <1>27, <1>28, <1>29

----------------------------------------------------------------------------
(* A streamed reset takes the place of the history.                        *)

(* What has been added since the stream was started.                       *)
LEMMA ForkBounds ==
  ASSUME NEW fs, NEW h, AllRecordings(fs), FilesOpen(fs, h), Index(fs, h, 0),
         NEW sm \in Seq(Cell), Fork(h, sm)
  PROVE  LET p  == h.forkPos
             ms == Recorded(fs, h.recording)
         IN /\ p \in Nat /\ 1 <= p /\ p <= h.recording.pos /\ h.recording.pos \in Nat
            /\ ms \in Seq(Cell) /\ Len(ms) = h.recording.pos - 1
            /\ Since(fs, h) = SubSeq(ms, p, Len(ms))
            /\ Since(fs, h) \in Seq(Cell) /\ Len(Since(fs, h)) = h.recording.pos - p
            /\ \A S : ms \in Seq(S) => Since(fs, h) \in Seq(S)
<1> DEFINE p  == h.forkPos
           ms == Recorded(fs, h.recording)
           e  == h.recording.pos
           k  == h.streamBlockIndex
           n  == Len(ms)
<1>1. /\ ms \in Seq(Cell) /\ n \in Nat /\ n = e - 1 /\ e \in Nat /\ e >= 1
      /\ h.firstIndex \in Int /\ Covers(h.blocks, h.firstIndex, ms)
  BY IndexIs
<1>2. k \in 1 .. Len(h.blocks) /\ (h.blocks)[k].startOffset = p
  BY DEF Fork
<1>3. p \in Nat /\ 1 <= p /\ p <= (h.blocks)[k].endOffset /\ (h.blocks)[k].endOffset \in Nat
      /\ (h.blocks)[k].endOffset <= n + 1
  <2> HIDE DEF ms, k, p
  <2>1. /\ (h.blocks)[k].startOffset \in Nat /\ 1 <= (h.blocks)[k].startOffset
        /\ (h.blocks)[k].endOffset \in Nat
        /\ (h.blocks)[k].startOffset <= (h.blocks)[k].endOffset
        /\ (h.blocks)[k].endOffset <= Len(ms) + 1
    BY <1>1, <1>2, BlockBounds
  <2> QED BY <1>2, <2>1
<1>4. Since(fs, h) = SubSeq(ms, p, n)
  BY DEF Since
<1> HIDE DEF p, ms, e, k, n
<1>5. p <= e /\ p <= n + 1 /\ n - p + 1 = e - p
  BY <1>1, <1>3
<1>6. \A S : ms \in Seq(S) => SubSeq(ms, p, n) \in Seq(S) /\ Len(SubSeq(ms, p, n)) = n - p + 1
  <2> TAKE S
  <2> HAVE ms \in Seq(S)
  <2>1. n <= Len(ms)
    BY <1>1 DEF n
  <2> QED BY <1>1, <1>3, <1>5, <2>1, Slice
<1> QED BY <1>1, <1>3, <1>4, <1>5, <1>6 DEF p, ms, e, n

(* A file with more written behind all that was in it.                     *)
LEMMA CopiedTidy ==
  ASSUME NEW fs, NEW f, AllRecordings(fs), Open(fs, f), OpenTidy(fs, f), atEnd(fs, f),
         NEW ms \in Seq(Messages), NEW gs, gs[f.name] = Seen(fs, f) \o ms
  PROVE  \A g : g.name = f.name /\ g.pos = f.pos + Len(ms) /\ g.unsaved = << >>
                => OpenTidy(gs, g) /\ ScannedMessages(gs[g.name]) = Recorded(fs, f) \o ms
<1> SUFFICES ASSUME NEW g, g.name = f.name, g.pos = f.pos + Len(ms), g.unsaved = << >>
             PROVE  OpenTidy(gs, g) /\ ScannedMessages(gs[g.name]) = Recorded(fs, f) \o ms
  OBVIOUS
<1> DEFINE r    == Recorded(fs, f)
           seen == Seen(fs, f)
           hd   == <<HeaderCell>>
<1>1. r \in Seq(Messages) /\ Len(r) = f.pos - 1 /\ f.pos \in Nat
  <2>1. r \in Seq(Messages)
    BY TidyRecorded
  <2>2. Len(r) = f.pos - 1 /\ f.pos \in Nat
    BY RecordedIs
  <2> QED BY <2>1, <2>2
<1>2. PICK tail \in {<< >>, <<TornCell>>} : seen = (hd \o r) \o tail
  BY SeenHolds DEF Holds
<1>3. f.pos = Len(seen)
  BY DEF atEnd
<1> HIDE DEF r, seen
<1>4. tail = << >>
  <2>1. Len(seen) = Len(r) + 1 + Len(tail) /\ Len(tail) \in {0, 1}
    BY <1>1, <1>2, HeldCells
  <2>2. Len(<<TornCell>>) = 1
    OBVIOUS
  <2> DEFINE a == Len(tail)
             b == f.pos
             c == Len(r)
  <2>3. a \in {0, 1} /\ b = c + 1 + a /\ c = b - 1 /\ b \in Nat
    BY <1>1, <1>3, <2>1
  <2> HIDE DEF a, b, c
  <2>4. a # 1
    BY <2>3
  <2> QED BY <1>2, <2>2, <2>4 DEF a
<1>5. hd \in Seq(Cell) /\ r \in Seq(Cell) /\ ms \in Seq(Cell) /\ r \o ms \in Seq(Messages)
      /\ r \o ms \in Seq(Cell)
  <2>1. hd \in Seq(Cell)
    BY MessagesAreWhole
  <2>2. r \in Seq(Cell) /\ ms \in Seq(Cell)
    BY <1>1, MessagesAreWhole, SeqMonotonic
  <2> QED BY <1>1, <2>1, <2>2, ConcatProperties
<1> HIDE DEF hd
<1>6. seen \o ms = (hd \o (r \o ms)) \o << >>
  <2>1. hd \o r \in Seq(Cell) /\ hd \o (r \o ms) \in Seq(Cell)
    BY <1>5, ConcatProperties
  <2>2. seen = hd \o r /\ (hd \o (r \o ms)) \o << >> = hd \o (r \o ms)
    BY <1>2, <1>4, <2>1, ConcatEmptySeq
  <2>3. (hd \o r) \o ms = hd \o (r \o ms)
    BY <1>5, CellsJoin
  <2> QED BY <2>2, <2>3
<1>7. Holds(seen \o ms, r \o ms)
  BY <1>5, <1>6 DEF Holds, hd
<1>8. ScannedMessages(seen \o ms) = r \o ms /\ Tidy(seen \o ms)
  BY <1>7, HoldsScanned
<1>9. Len(r \o ms) = g.pos - Len(g.unsaved) - 1
  <2>1. Len(r \o ms) = Len(r) + Len(ms) /\ Len(ms) \in Nat
    BY <1>1, ConcatProperties, LenProperties
  <2>2. Len(g.unsaved) = 0
    BY EmptySeq
  <2> DEFINE a == Len(r \o ms)
             b == g.pos
             c == Len(ms)
             d == Len(r)
             e == f.pos
             x == Len(g.unsaved)
  <2>3. a = d + c /\ c \in Nat /\ d = e - 1 /\ e \in Nat /\ b = e + c /\ x = 0
    BY <1>1, <2>1, <2>2
  <2> HIDE DEF a, b, c, d, e, x
  <2>4. a = b - x - 1
    BY <2>3
  <2> QED BY <2>4 DEF a, b, x
<1>10. g.unsaved \in Seq(Messages)
  BY EmptySeq
<1>11. gs[g.name] = seen \o ms
  BY DEF seen
<1> QED BY <1>8, <1>9, <1>10, <1>11 DEF OpenTidy, r

(* What is saved are the first messages, and all of them may be.           *)
LEMMA SavedPrefix ==
  ASSUME DurableInv, Ready
  PROVE  LET ms == Recorded(files, fh.recording)
         IN Durable!IsPrefixOf(Recovered, ms) /\ Durable!IsPrefixOf(ms, ms)
<1> DEFINE ms == Recorded(files, fh.recording)
           ds == ScannedMessages(files[fh.recording.name])
           u  == fh.recording.unsaved
<1>1. /\ AllRecordings(files) /\ FilesOpen(files, fh) /\ Tidied(files, fh) /\ Recovered = ds
  BY ReadyDisk
<1>2. ds \in Seq(Messages) /\ u \in Seq(Messages) /\ ms = ds \o u
  <2>1. Open(files, fh.recording) /\ OpenTidy(files, fh.recording)
    BY <1>1 DEF FilesOpen, Tidied
  <2> QED BY <1>1, <2>1, TidyRecorded
<1> HIDE DEF ms, ds, u
<1>3. Durable!IsPrefixOf(ds, ds \o u) /\ Durable!IsPrefixOf(ds \o u, ds \o u)
  BY <1>2, AllPrefix
<1> QED BY <1>1, <1>2, <1>3 DEF ms

(* The messages since the start of the stream are copied behind the image. *)
LEMMA StreamCopiedDurable ==
  ASSUME DurableInv, RecoverableInv', Ready, UNCHANGED <<journal, server>>,
         isResetStreamPending(fh), isStreamResetIoAvailable, ResolvedFits,
         copyForkMessagesToResetStream, call' = [call EXCEPT !.at = "copied"]
  PROVE  DiskInv' /\ Durable!Save
<1> DEFINE r    == fh.recording
           s    == fh.streamRecording
           fs   == Flushed(files, r)
           fork == ForkMessages
           r2   == [r EXCEPT !.unsaved = << >>]
           s2   == [s EXCEPT !.pos = @ + Len(fork), !.unsaved = << >>]
           ms   == Recorded(files, r)
           sm   == Recorded(files, s)
<1>1. /\ AllRecordings(files) /\ FilesOpen(files, fh) /\ Indexes(files, fh) /\ Tidied(files, fh)
      /\ server = "up" /\ call.at = "none" /\ call.messages \in Seq(Messages)
      /\ journal # << >> /\ Last(journal) = r.name /\ r.name \in DOMAIN files
      /\ ms \in Seq(Messages) /\ Held = HistOf(ms, files, fh)
  BY ReadyDisk
<1>2. /\ fh.resetStreamState = "Prepared" /\ atEnd(files, r) /\ atEnd(files, s)
  BY DEF isResetStreamPending, isStreamResetIoAvailable
<1>3. Open(files, r) /\ Open(files, s) /\ s.name # r.name /\ s # NoFile
      /\ OpenTidy(files, r) /\ OpenTidy(files, s)
  BY <1>1, <1>2 DEF FilesOpen, Tidied
<1>4. Index(files, fh, 0) /\ Fork(fh, sm) /\ sm \in Seq(Cell)
  BY <1>1, <1>2 DEF Indexes, Forked, Fork
<1>5. server' = "up" /\ call'.at = "copied" /\ call'.messages = call.messages
  BY <1>1 DEF RecoverableInv, DurableInv
<1>6. /\ files' = [fs EXCEPT ![s.name] = Seen(files, s) \o fork]
      /\ fh' = [fh EXCEPT !.recording.unsaved = << >>, !.streamRecording.pos = @ + Len(fork),
                          !.streamRecording.unsaved = << >>]
  BY DEF copyForkMessagesToResetStream
<1>7. /\ fh'.recording = r2 /\ fh'.streamRecording = s2
      /\ \A f \in Fields \ {"recording", "streamRecording"} : fh'[f] = fh[f]
  BY <1>1, <1>3, <1>6 DEF FilesOpen, Fields, Open
<1>8. fork = Since(files, fh) /\ fork \in Seq(Messages) /\ Len(fork) = r.pos - fh.forkPos
      /\ r.pos \in Nat /\ fh.forkPos \in Nat
  <2>1. fork = Since(files, fh)
    BY <1>1, <1>2, ForkIs
  <2>2. /\ Since(files, fh) \in Seq(Messages) /\ Len(Since(files, fh)) = r.pos - fh.forkPos
        /\ r.pos \in Nat /\ fh.forkPos \in Nat
    BY <1>1, <1>4, ForkBounds
  <2> QED BY <2>1, <2>2
<1>9. /\ s2.name = s.name /\ s2.pos = s.pos + Len(fork) /\ s2.unsaved = << >> /\ r2.name = r.name
  BY <1>3 DEF Open
<1>10. DOMAIN fs = DOMAIN files /\ fs[s.name] = files[s.name]
  <2>1. DOMAIN fs = DOMAIN files
    BY <1>1, <1>3, FlushedIsRecording
  <2>2. fs[s.name] = files[s.name]
    BY <1>1, <1>3, FlushedOther
  <2> QED BY <2>1, <2>2
<1>11. files'[s.name] = Seen(files, s) \o fork /\ files'[r.name] = fs[r.name]
  BY <1>3, <1>6, <1>10 DEF Open
<1>12. OpenTidy(fs, r2) /\ ScannedMessages(fs[r.name]) = ms /\ Recorded(fs, r2) = ms
  BY <1>1, <1>3, FlushedTidy, FlushedRecorded
<1> HIDE DEF fs, fork, r2, s2, sm, ms
<1>13. OpenTidy(files', r2) /\ ScannedMessages(files'[r.name]) = ms /\ Recorded(files', r2) = ms
  <2>1. files'[r2.name] = fs[r2.name]
    BY <1>9, <1>11
  <2> QED BY <1>11, <1>12, <2>1, SameFileTidy, SameFileRecorded
<1>14. OpenTidy(files', s2) /\ ScannedMessages(files'[s2.name]) = sm \o fork
  <2> HIDE DEF s
  <2>1. OpenTidy(files', s2) /\ ScannedMessages(files'[s2.name]) = Recorded(files, s) \o fork
    <3>1. AllRecordings(files) /\ Open(files, s) /\ OpenTidy(files, s) /\ atEnd(files, s)
      BY <1>1, <1>2, <1>3
    <3>2. fork \in Seq(Messages)
      BY <1>8
    <3>3. s2.name = s.name /\ s2.pos = s.pos + Len(fork) /\ s2.unsaved = << >>
      BY <1>9
    <3> DEFINE gs == files'
    <3>4. gs[s.name] = Seen(files, s) \o fork
      BY <1>11
    <3> HIDE DEF gs
    <3>5. \A g : g.name = s.name /\ g.pos = s.pos + Len(fork) /\ g.unsaved = << >>
                 => OpenTidy(gs, g) /\ ScannedMessages(gs[g.name]) = Recorded(files, s) \o fork
      BY <3>1, <3>2, <3>4, CopiedTidy, Zenon
    <3>6. OpenTidy(gs, s2) /\ ScannedMessages(gs[s2.name]) = Recorded(files, s) \o fork
      BY <3>3, <3>5
    <3> QED BY <3>6 DEF gs
  <2> QED BY <2>1 DEF sm
<1>15. fh'.sizeInBytes = fh.sizeInBytes /\ fh'.resetStreamState = "Prepared"
       /\ fh'.forkPos = fh.forkPos /\ fh'.streamBlocks = fh.streamBlocks
  BY <1>2, <1>7 DEF Fields
<1>16. Tidied(files', fh')
  BY <1>1, <1>7, <1>13, <1>14, <1>15 DEF Tidied
<1>17. SizeLimit = 0 \/ s2.pos - 1 <= SizeLimit
  <2>1. SizeLimit = 0 \/ (r.pos - fh.forkPos) + (s.pos - 1) <= SizeLimit
    BY DEF ResolvedFits
  <2> DEFINE a == r.pos
             b == fh.forkPos
             c == s.pos
             d == Len(fork)
             e == s2.pos
  <2>2. a \in Nat /\ b \in Nat /\ c \in Nat /\ d = a - b /\ e = c + d
    <3>1. c \in Nat
      BY <1>1, <1>3, RecordedIs
    <3> QED BY <1>8, <1>9, <3>1
  <2>3. CASE SizeLimit = 0
    BY <2>3
  <2>4. CASE (a - b) + (c - 1) <= SizeLimit
    <3>1. SizeLimit \in Nat
      BY SessionHistoryAssumption
    <3> HIDE DEF a, b, c, d, e
    <3>2. e - 1 <= SizeLimit
      BY <2>2, <2>4, <3>1
    <3> QED BY <3>2 DEF e
  <2> QED BY <2>1, <2>3, <2>4
<1>18. DiskInv'
  <2>1. Last(journal') = r.name /\ Tidy(files'[r.name])
    BY <1>1, <1>9, <1>13 DEF OpenTidy
  <2> QED BY <1>1, <1>5, <1>7, <1>9, <1>15, <1>16, <1>17, <2>1 DEF DiskInv
<1>19. Image(files, fh) = sm /\ Image(files', fh') = sm
  <2>1. Covers(fh.streamBlocks, 0, sm) /\ Covers(fh'.streamBlocks, 0, sm)
    BY <1>4, <1>15 DEF Fork
  <2>2. Recorded(files', s2) = sm \o fork
    <3>1. AllRecordings(files') /\ Open(files', s2)
      <4>1. fh'.streamRecording # NoFile
        BY <1>5 DEF RecoverableInv, Named
      <4> QED BY <1>5, <1>7, <4>1 DEF RecoverableInv, FilesOpen
    <3>2. Recorded(files', s2) = ScannedMessages(files'[s2.name]) \o s2.unsaved
      BY <1>14, <3>1, TidyRecorded
    <3>3. sm \o fork \in Seq(Cell)
      <4>1. fork \in Seq(Cell)
        BY <1>8, MessagesAreWhole, SeqMonotonic
      <4> QED BY <1>4, <4>1, ConcatProperties
    <3> QED BY <1>9, <1>14, <3>2, <3>3, ConcatEmptySeq
  <2>3. fork \in Seq(Cell)
    BY <1>8, MessagesAreWhole, SeqMonotonic
  <2>4. Image(files', fh') = sm
    BY <1>4, <1>7, <2>1, <2>2, <2>3, ImageIs
  <2>5. Image(files, fh) = sm
    BY <1>4, <1>7, <2>1, WholeImage DEF sm
  <2> QED BY <1>4, <1>7, <2>1, <2>4, <2>5
<1>20. Held' = Held
  <2>1. Held' = HistOf(ms, files', fh')
    BY <1>5, <1>7, <1>13, HeldNext
  <2>2. fh.resetStreamState # "None" /\ fh'.resetStreamState # "None"
    BY <1>2, <1>15
  <2>3. /\ fh'.firstIndex = fh.firstIndex /\ fh'.lastIndex = fh.lastIndex
        /\ fh'.autoResetBaseSize = fh.autoResetBaseSize /\ fh'.ctxId = fh.ctxId
        /\ fh'.resetStreamSize = fh.resetStreamSize
        /\ fh'.resetStreamStartIndex = fh.resetStreamStartIndex
        /\ fh'.resetStreamMessageCount = fh.resetStreamMessageCount
    BY <1>7 DEF Fields
  <2> QED BY <1>1, <1>2, <1>15, <1>19, <2>1, <2>2, <2>3, WithStream
<1>21. Recovered' = ms
  <2>1. server' # "gone" /\ Last(journal') = r.name
    BY <1>1, <1>5
  <2> QED BY <1>13, <2>1, RecoveredNext
<1>22. Durable!IsPrefixOf(Recovered, Recovered') /\ Durable!IsPrefixOf(Recovered', Held.messages)
  <2>1. Held.messages = ms
    BY <1>1, HistOfHas
  <2>2. Durable!IsPrefixOf(Recovered, ms) /\ Durable!IsPrefixOf(ms, ms)
    BY SavedPrefix DEF ms
  <2> QED BY <1>21, <2>1, <2>2
<1> QED BY <1>1, <1>5, <1>18, <1>20, <1>22 DEF Durable!Save, Durable!MoreSaved, Held

(* What a resolved history has: the image and what has come since.         *)
LEMMA ResolvedHas ==
  ASSUME NEW fs, NEW h, AllRecordings(fs), FilesOpen(fs, h), Index(fs, h, 0),
         h.resetStreamState # "None", NEW sm \in Seq(Cell), Fork(h, sm), Image(fs, h) = sm
  PROVE  LET ms == Recorded(fs, h.recording)
             k  == HistOf(ms, fs, h)
         IN /\ Durable!ResolvedMessages(k) = sm \o Since(fs, h)
            /\ sm \o Since(fs, h) \in Seq(Cell)
            /\ Len(sm \o Since(fs, h)) = Len(sm) + (h.recording.pos - h.forkPos)
<1> DEFINE ms == Recorded(fs, h.recording)
           k  == HistOf(ms, fs, h)
           p  == h.forkPos
           n  == Len(ms)
<1>1. /\ p \in Nat /\ Since(fs, h) = SubSeq(ms, p, n) /\ Since(fs, h) \in Seq(Cell)
      /\ Len(Since(fs, h)) = h.recording.pos - p
  BY ForkBounds
<1>2. k.resetStream = sm /\ k.messages = ms /\ k.resetStreamIndex = p - 1
  BY HistOfHas
<1> HIDE DEF k, ms, p, n
<1>3. (p - 1) + 1 = p
  BY <1>1
<1>4. Durable!ResolvedMessages(k) = sm \o SubSeq(ms, (p - 1) + 1, n)
  BY <1>2 DEF Durable!ResolvedMessages, n
<1>5. Durable!ResolvedMessages(k) = sm \o Since(fs, h)
  BY <1>1, <1>3, <1>4
<1>6. sm \o Since(fs, h) \in Seq(Cell) /\ Len(sm \o Since(fs, h)) = Len(sm) + Len(Since(fs, h))
  BY <1>1, ConcatProperties
<1> QED BY <1>1, <1>5, <1>6 DEF k, ms, p

(* A stream that does not fit is given up.                                 *)
LEMMA GivenUpHas ==
  ASSUME NEW h, IsHist(h), ~Durable!resolveOk(h)
  PROVE  Durable!Live(Durable!resolveStreamedReset(h)) =
           Hist(h.messages, h.firstIndex, h.lastIndex, h.sizeInBytes, h.autoResetBaseSize,
                "None", 0, << >>, -1, 0, 0, 0)
<1> DEFINE k == [h EXCEPT !.resetStreamState = "None", !.ctxId = 0]
<1>1. Durable!resolveStreamedReset(h) = k
  BY DEF Durable!resolveStreamedReset
<1>2. /\ IsHist(k) /\ k.resetStreamState = "None" /\ k.ctxId = 0
      /\ k.messages = h.messages /\ k.firstIndex = h.firstIndex /\ k.lastIndex = h.lastIndex
      /\ k.sizeInBytes = h.sizeInBytes /\ k.autoResetBaseSize = h.autoResetBaseSize
  BY DEF IsHist, HistFields
<1> HIDE DEF k
<1>3. k = Hist(k.messages, k.firstIndex, k.lastIndex, k.sizeInBytes, k.autoResetBaseSize,
               k.resetStreamState, k.ctxId, k.resetStream, k.resetStreamIndex,
               k.resetStreamSize, k.resetStreamStartIndex, k.resetStreamMessageCount)
  BY <1>2, HistIs
<1>4. Durable!Live(k) = Hist(k.messages, k.firstIndex, k.lastIndex, k.sizeInBytes,
                             k.autoResetBaseSize, k.resetStreamState, k.ctxId, << >>, -1, 0, 0, 0)
  BY <1>2, <1>3, LiveIs
<1> QED BY <1>1, <1>2, <1>4

(* A streamed history that would be too large is dropped.                  *)
LEMMA StreamGivenUpDurable ==
  ASSUME DurableInv, RecoverableInv', Ready, UNCHANGED <<journal, call, server>>,
         isResetStreamPending(fh), isStreamResetIoAvailable, ~ResolvedFits,
         files' = Flushed(Flushed(files, fh.recording), fh.streamRecording),
         fh' = [fh EXCEPT !.recording.unsaved = << >>, !.streamRecording.unsaved = << >>,
                          !.resetStreamState = "None", !.ctxId = 0]
  PROVE  DiskInv' /\ Durable!ResolveStream
<1> DEFINE r    == fh.recording
           s    == fh.streamRecording
           fs   == Flushed(files, r)
           r2   == [r EXCEPT !.unsaved = << >>]
           s2   == [s EXCEPT !.unsaved = << >>]
           ms   == Recorded(files, r)
           sm   == Recorded(files, s)
<1>1. /\ AllRecordings(files) /\ FilesOpen(files, fh) /\ Indexes(files, fh) /\ Tidied(files, fh)
      /\ call.at = "none" /\ ms \in Seq(Messages) /\ Held = HistOf(ms, files, fh)
  BY ReadyDisk
<1>2. fh.resetStreamState = "Prepared"
  BY DEF isResetStreamPending
<1>3. Open(files, r) /\ Open(files, s) /\ s.name # r.name /\ s # NoFile
      /\ OpenTidy(files, r) /\ OpenTidy(files, s)
  BY <1>1, <1>2 DEF FilesOpen, Tidied
<1>4. Index(files, fh, 0) /\ Fork(fh, sm) /\ sm \in Seq(Cell)
  BY <1>1, <1>2 DEF Indexes, Forked, Fork
<1>5. /\ fh'.recording = r2 /\ fh'.streamRecording = s2
      /\ fh'.resetStreamState = "None" /\ fh'.ctxId = 0
      /\ \A f \in Fields \ {"recording", "streamRecording", "resetStreamState", "ctxId"} :
           fh'[f] = fh[f]
  BY <1>1, <1>3 DEF FilesOpen, Fields, Open
<1>6. AllRecordings(fs) /\ fs[s.name] = files[s.name] /\ Open(fs, r2) /\ Open(fs, s)
      /\ r2.name = r.name
  <2>1. r2.name = r.name
    BY <1>3 DEF Open
  <2>2. AllRecordings(fs) /\ Open(fs, r2) /\ Open(fs, s)
    BY <1>1, <1>3, FlushedIsRecording, FlushedSelfOpen, FlushedOpen
  <2>3. fs[s.name] = files[s.name]
    BY <1>1, <1>3, FlushedOther
  <2> QED BY <2>1, <2>2, <2>3
<1>7. OpenTidy(fs, r2) /\ ScannedMessages(fs[r.name]) = ms /\ Recorded(fs, r2) = ms
  BY <1>1, <1>3, FlushedTidy, FlushedRecorded
<1>8. Image(files, fh) = sm
  BY <1>4, WholeImage DEF Fork
<1> HIDE DEF fs, r2, sm, ms, s
<1>9. OpenTidy(fs, s)
  BY <1>3, <1>6, SameFileTidy
<1>10. OpenTidy(files', s2)
  BY <1>6, <1>9, FlushedTidy DEF fs, s
<1> HIDE DEF s2
<1>11. files'[r.name] = fs[r.name]
  <2>1. Flushed(fs, s)[r2.name] = fs[r2.name]
    BY <1>3, <1>6, FlushedOther
  <2> QED BY <1>6, <2>1 DEF fs, s
<1>12. OpenTidy(files', r2) /\ ScannedMessages(files'[r.name]) = ms /\ Recorded(files', r2) = ms
  <2>1. files'[r2.name] = fs[r2.name]
    BY <1>6, <1>11
  <2> QED BY <1>7, <1>11, <2>1, SameFileTidy, SameFileRecorded
<1>13. fh'.sizeInBytes = fh.sizeInBytes /\ fh'.firstIndex = fh.firstIndex
       /\ fh'.lastIndex = fh.lastIndex /\ fh'.autoResetBaseSize = fh.autoResetBaseSize
  BY <1>5 DEF Fields
<1>14. Tidied(files', fh')
  BY <1>1, <1>5, <1>10, <1>12, <1>13 DEF Tidied
<1>15. DiskInv' /\ Held' = HistOf(ms, files', fh') /\ Recovered' = ms
  BY <1>5, <1>12, <1>14, QuietDisk
<1>16. Held' = Hist(ms, fh.firstIndex, fh.lastIndex, fh.sizeInBytes, fh.autoResetBaseSize,
                    "None", 0, << >>, -1, 0, 0, 0)
  <2>1. HistOf(ms, files', fh') =
          Hist(ms, fh'.firstIndex, fh'.lastIndex, fh'.sizeInBytes, fh'.autoResetBaseSize,
               "None", fh'.ctxId, << >>, -1, 0, 0, 0)
    <3>1. fh'.resetStreamState = "None"
      BY <1>5
    <3> QED BY <3>1, NoStream
  <2> QED BY <1>5, <1>13, <1>15, <2>1
<1>17. /\ IsHist(Held) /\ Held.messages = ms /\ Held.firstIndex = fh.firstIndex
       /\ Held.lastIndex = fh.lastIndex /\ Held.sizeInBytes = fh.sizeInBytes
       /\ Held.autoResetBaseSize = fh.autoResetBaseSize /\ Held.resetStreamState = "Prepared"
  BY <1>1, <1>2, HistOfHas
<1>18. ~Durable!resolveOk(Held)
  <2> DEFINE all == sm \o Since(files, fh)
             a == r.pos
             b == fh.forkPos
             c == s.pos
             d == Len(sm)
  <2>1. Durable!ResolvedMessages(Held) = all /\ Len(all) = d + (a - b)
    BY <1>1, <1>2, <1>4, <1>8, ResolvedHas DEF ms
  <2>2. a \in Nat /\ b \in Nat /\ b <= a
    BY <1>1, <1>4, ForkBounds
  <2>3. d = c - 1 /\ c \in Nat
    BY <1>1, <1>3, RecordedIs DEF sm
  <2>4. SizeLimit # 0 /\ ~((a - b) + (c - 1) <= SizeLimit)
    BY <2>2 DEF ResolvedFits, s
  <2> HIDE DEF a, b, c, d, all
  <2>5. SizeLimit # 0 /\ ~(d + (a - b) <= SizeLimit)
    BY <2>2, <2>3, <2>4, SessionHistoryAssumption
  <2> QED BY <2>1, <2>5 DEF Durable!resolveOk, Durable!Size
<1>19. Held' = Durable!Live(Durable!resolveStreamedReset(Held))
  BY <1>16, <1>17, <1>18, GivenUpHas
<1>20. Durable!IsPrefixOf(Recovered, Recovered') /\ Durable!IsPrefixOf(Recovered', Held.messages)
  <2>1. Durable!IsPrefixOf(Recovered, ms) /\ Durable!IsPrefixOf(ms, ms)
    BY SavedPrefix DEF ms
  <2> QED BY <1>15, <1>17, <2>1
<1>21. Durable!isResetStreamPending(Held)
  BY <1>17 DEF Durable!isResetStreamPending
<1> QED BY <1>1, <1>15, <1>18, <1>19, <1>20, <1>21 DEF Durable!ResolveStream, Durable!MoreSaved, Held

(* The start of the swap, or its refusal.                                  *)
LEMMA StreamResolveDurable ==
  ASSUME DurableInv, RecoverableInv', StreamResolve
  PROVE  DiskInv' /\ (Durable!Save \/ Durable!ResolveStream)
BY StreamCopiedDurable, StreamGivenUpDurable DEF StreamResolve, resolveStreamedReset_start

(* The history that takes the place of the one before.                     *)
LEMMA TakenPlaceHas ==
  ASSUME NEW h, IsHist(h), Durable!resolveOk(h)
  PROVE  LET ms == Durable!ResolvedMessages(h)
         IN Durable!Live(Durable!resolveStreamedReset(h)) =
              Hist(ms, h.lastIndex + 1, h.lastIndex + Len(ms), Len(ms), h.resetStreamSize,
                   "None", 0, << >>, -1, 0, 0, 0)
<1> DEFINE ms   == Durable!ResolvedMessages(h)
           done == [h EXCEPT !.resetStreamState = "None", !.ctxId = 0]
           k    == [done EXCEPT !.messages = ms, !.resetStream = << >>,
                                !.sizeInBytes = Durable!Size(ms),
                                !.firstIndex = h.lastIndex + 1,
                                !.lastIndex = @ + Len(ms),
                                !.autoResetBaseSize = h.resetStreamSize]
<1>1. Durable!resolveStreamedReset(h) = k
  BY DEF Durable!resolveStreamedReset
<1>2. IsHist(done) /\ done.resetStreamState = "None" /\ done.ctxId = 0
      /\ done.lastIndex = h.lastIndex
  BY DEF IsHist, HistFields
<1> HIDE DEF done, ms
<1>3. /\ IsHist(k) /\ k.resetStreamState = "None" /\ k.ctxId = 0
      /\ k.messages = ms /\ k.firstIndex = h.lastIndex + 1 /\ k.lastIndex = h.lastIndex + Len(ms)
      /\ k.sizeInBytes = Len(ms) /\ k.autoResetBaseSize = h.resetStreamSize
  BY <1>2 DEF IsHist, HistFields, Durable!Size
<1> HIDE DEF k
<1>4. k = Hist(k.messages, k.firstIndex, k.lastIndex, k.sizeInBytes, k.autoResetBaseSize,
               k.resetStreamState, k.ctxId, k.resetStream, k.resetStreamIndex,
               k.resetStreamSize, k.resetStreamStartIndex, k.resetStreamMessageCount)
  BY <1>3, HistIs
<1>5. Durable!Live(k) = Hist(k.messages, k.firstIndex, k.lastIndex, k.sizeInBytes,
                             k.autoResetBaseSize, k.resetStreamState, k.ctxId, << >>, -1, 0, 0, 0)
  BY <1>3, <1>4, LiveIs
<1> QED BY <1>1, <1>3, <1>5 DEF ms

(* The stream is named in the journal: it is what the server would load.   *)
LEMMA ResolveJournalDurable ==
  ASSUME DurableInv, RecoverableInv', resolveStreamedReset_journal
  PROVE  DiskInv' /\ Durable!ResolveStream
<1> DEFINE s    == fh.streamRecording
           rs   == Recorded(files, s)
           ms   == Recorded(files, fh.recording)
           n    == Len(rs)
           g    == Resolved(fh)
<1>1. /\ server = "up" /\ call.at = "copied" /\ UNCHANGED <<files, fh, server>>
      /\ call'.at = "journalled" /\ call'.messages = call.messages
      /\ journal' = Append(journal, s.name)
  BY DEF resolveStreamedReset_journal, writeFileEntryToJournal, RecoverableInv, DurableInv
<1>2. /\ AllRecordings(files) /\ FilesOpen(files, fh) /\ s # NoFile
      /\ Tidied(files, fh) /\ s.unsaved = << >> /\ fh.resetStreamState = "Prepared"
      /\ SizeLimit = 0 \/ s.pos - 1 <= SizeLimit
      /\ Index(files, fh, 0) /\ CopiedFork(files, fh)
  BY <1>1 DEF DurableInv, RecoverableInv, Named, DiskInv, IndexInv, InReset
<1>3. PICK sm \in Seq(Cell) : Fork(fh, sm) /\ rs = sm \o Since(files, fh)
  BY <1>2 DEF CopiedFork
<1>4. Open(files, s) /\ OpenTidy(files, s)
  BY <1>2 DEF FilesOpen, Tidied
<1>5. rs = ScannedMessages(files[s.name]) /\ rs \in Seq(Messages) /\ n = s.pos - 1
  <2>1. rs = ScannedMessages(files[s.name]) \o s.unsaved /\ rs \in Seq(Messages)
        /\ ScannedMessages(files[s.name]) \in Seq(Messages)
    BY <1>2, <1>4, TidyRecorded
  <2>2. n = s.pos - 1
    BY <1>2, <1>4, RecordedIs
  <2> QED BY <1>2, <2>1, <2>2, ConcatEmptySeq
<1>6. Held = HistOf(ms, files, fh)
  BY <1>1, HeldQuiet
<1>7. Image(files, fh) = sm
  <2>1. Since(files, fh) \in Seq(Cell)
    BY <1>2, <1>3, ForkBounds
  <2>2. Covers(fh.streamBlocks, 0, sm)
    BY <1>3 DEF Fork
  <2> QED BY <1>3, <2>1, <2>2, ImageIs
<1>8. Durable!ResolvedMessages(Held) = rs
  <2>1. fh.resetStreamState # "None"
    BY <1>2
  <2>2. Durable!ResolvedMessages(HistOf(ms, files, fh)) = sm \o Since(files, fh)
    BY <1>2, <1>3, <1>7, <2>1, ResolvedHas
  <2> QED BY <1>3, <1>6, <2>2
<1>9. /\ IsHist(Held) /\ Held.lastIndex = fh.lastIndex /\ Held.resetStreamState = "Prepared"
      /\ Held.resetStreamSize = fh.resetStreamSize
  <2>1. fh.resetStreamState # "None"
    BY <1>2
  <2> QED BY <1>2, <1>6, <2>1, HistOfHas
<1>10. g.recording = s /\ g.resetStreamState = "None" /\ g.ctxId = 0
       /\ g.sizeInBytes = s.pos - 1 /\ g.autoResetBaseSize = fh.resetStreamSize
       /\ g.firstIndex = fh.lastIndex + 1 /\ g.lastIndex = fh.lastIndex + n
  BY <1>2, <1>3, ResolvedIndex
<1> HIDE DEF g, ms
<1>11. Held' = HistOf(rs, files, g)
  <2>1. Held' = HistOf(Recorded(files', Resolved(fh').recording), files', Resolved(fh'))
    <3>1. FilesOpen(files', fh') /\ server' = "up" /\ call'.at = "journalled"
      BY <1>1, <1>2
    <3> QED BY <3>1, HeldResolvedNext
  <2>2. files' = files /\ Resolved(fh') = g
    BY <1>1 DEF g
  <2> QED BY <1>10, <2>1, <2>2
<1> HIDE DEF s, rs, n
<1>12. Durable!resolveOk(Held)
  BY <1>2, <1>5, <1>8 DEF Durable!resolveOk, Durable!Size, n
<1>13. Held' = Hist(rs, fh.lastIndex + 1, fh.lastIndex + n, n, fh.resetStreamSize,
                    "None", 0, << >>, -1, 0, 0, 0)
  BY <1>5, <1>10, <1>11, NoStream
<1>14. Held' = Durable!Live(Durable!resolveStreamedReset(Held))
  BY <1>8, <1>9, <1>12, <1>13, TakenPlaceHas DEF n
<1>15. Last(journal') = s.name
  <2>1. server' = "up" /\ call'.at = "journalled" /\ fh' = fh
    BY <1>1
  <2> QED BY <2>1 DEF RecoverableInv, Named, s
<1>16. Recovered' = rs
  <2>1. server' # "gone" /\ files' = files
    BY <1>1
  <2> QED BY <1>5, <1>15, <2>1, RecoveredNext
<1>17. DiskInv'
  <2>1. Tidy(files[s.name])
    BY <1>4 DEF OpenTidy
  <2>2. call.messages \in Seq(Messages)
    BY DEF DurableInv, DiskInv
  <2> QED BY <1>1, <1>2, <1>15, <2>1, <2>2 DEF DiskInv, s
<1>18. Durable!isResetStreamPending(Held)
  BY <1>9 DEF Durable!isResetStreamPending
<1>19. Recovered' = Held'.messages
  BY <1>13, <1>16, HistHas
<1> QED BY <1>1, <1>12, <1>14, <1>17, <1>18, <1>19 DEF Durable!ResolveStream, Held

(* And then its recording is used.                                         *)
LEMMA ResolveFinishDurable ==
  ASSUME DurableInv, RecoverableInv', resolveStreamedReset_finish
  PROVE  DiskInv' /\ UNCHANGED Durable!vars
<1> DEFINE r == fh.recording
           s == fh.streamRecording
           rs == Recorded(files, s)
<1>1. /\ server = "up" /\ call.at = "journalled" /\ UNCHANGED <<journal, server>>
      /\ files' = Without(files, r.name) /\ fh' = Resolved(fh) /\ call' = NoCall
  BY DEF resolveStreamedReset_finish
<1>2. /\ AllRecordings(files) /\ FilesOpen(files, fh) /\ s # NoFile /\ Tidied(files, fh)
      /\ Index(files, fh, 0) /\ CopiedFork(files, fh) /\ Last(journal) = s.name
  BY <1>1 DEF DurableInv, RecoverableInv, Named, DiskInv, IndexInv, InReset
<1>3. Open(files, s) /\ s.name # r.name /\ OpenTidy(files, s)
  BY <1>2 DEF FilesOpen, Tidied
<1>4. PICK sm \in Seq(Cell) : Fork(fh, sm)
  BY <1>2 DEF CopiedFork
<1>5. /\ fh'.recording = s /\ fh'.streamRecording = NoFile /\ fh'.resetStreamState = "None"
      /\ fh'.sizeInBytes = s.pos - 1
  BY <1>1, <1>2, <1>4, ResolvedIndex
<1>6. files'[s.name] = files[s.name]
  BY <1>1, <1>3 DEF Without, Open
<1>7. OpenTidy(files', s) /\ Recorded(files', s) = rs
  BY <1>3, <1>6, SameFileTidy, SameFileRecorded
<1>8. s.pos \in Nat /\ s.pos - 1 \in Int
  <2>1. s.pos \in Nat
    BY <1>3 DEF Open
  <2> QED BY <2>1
<1> HIDE DEF rs
<1>9. Tidied(files', fh')
  BY <1>5, <1>7, <1>8 DEF Tidied
<1>10. Held = HistOf(rs, files, fh')
  <2>1. Held = HistOf(Recorded(files, Resolved(fh).recording), files, Resolved(fh))
    BY <1>1, <1>2, HeldResolved
  <2>2. Resolved(fh) = fh'
    BY <1>1
  <2> QED BY <1>5, <2>1, <2>2 DEF rs
<1>11. Held' = HistOf(rs, files', fh')
  <2>1. server' = "up" /\ call'.at = "none"
    BY <1>1 DEF NoCall
  <2> QED BY <1>5, <1>7, <2>1, HeldNext
<1>12. Held' = Held
  BY <1>5, <1>10, <1>11, NoStream
<1>13. Recovered' = Recovered
  <2>1. server # "gone" /\ server' # "gone" /\ Last(journal') = s.name
    BY <1>1, <1>2
  <2>2. Recovered = ScannedMessages(files[s.name])
    BY <1>2, <2>1, RecoveredIs DEF DurableInv
  <2>3. Recovered' = ScannedMessages(files'[s.name])
    BY <2>1, RecoveredNext
  <2> QED BY <1>6, <2>2, <2>3
<1>14. Steady
  BY <1>1, <1>13 DEF Steady, NoCall
<1>15. DiskInv'
  <2>1. Tidy(files'[s.name]) /\ Last(journal') = s.name
    BY <1>1, <1>2, <1>7 DEF OpenTidy
  <2>2. call'.at = "none" /\ call'.messages = << >> /\ << >> \in Seq(Messages)
    BY <1>1, EmptySeq DEF NoCall
  <2> QED BY <1>9, <2>1, <2>2 DEF DiskInv
<1> QED BY <1>12, <1>14, <1>15, StutterIs

----------------------------------------------------------------------------
(* A full reset.                                                           *)

(* The old recording is closed, and a stream given up.                     *)
LEMMA OldClosed ==
  ASSUME NEW fs, NEW h, NEW c, AllRecordings(fs), FilesOpen(fs, h), Tidied(fs, h)
  PROVE  LET gs == filesAfterAbort(Flushed(fs, h.recording), h, c)
             g  == AbortedBy(h, c)
         IN /\ AllRecordings(gs) /\ FilesOpen(gs, g)
            /\ h.recording.name \in DOMAIN gs /\ Tidy(gs[h.recording.name])
            /\ ScannedMessages(gs[h.recording.name]) = Recorded(fs, h.recording)
            /\ g.streamRecording # NoFile => OpenTidy(gs, g.streamRecording)
<1> DEFINE f0 == Flushed(fs, h.recording)
           gs == filesAfterAbort(f0, h, c)
           g  == AbortedBy(h, c)
           r  == h.recording
           s  == h.streamRecording
<1>1. Open(fs, r) /\ OpenTidy(fs, r)
  BY DEF FilesOpen, Tidied
<1>2. AllRecordings(f0) /\ FilesOpen(f0, h)
  BY FlushedFilesOpen
<1>3. OpenTidy(f0, [r EXCEPT !.unsaved = << >>]) /\ ScannedMessages(f0[r.name]) = Recorded(fs, r)
  BY <1>1, FlushedTidy
<1>4. Tidy(f0[r.name])
  <2>1. [r EXCEPT !.unsaved = << >>].name = r.name
    BY <1>1 DEF Open
  <2> QED BY <1>3, <2>1 DEF OpenTidy
<1>5. s # NoFile => OpenTidy(f0, s)
  <2> SUFFICES ASSUME s # NoFile PROVE OpenTidy(f0, s)
    OBVIOUS
  <2>1. Open(fs, s) /\ s.name # r.name /\ OpenTidy(fs, s)
    BY DEF FilesOpen, Tidied
  <2>2. f0[s.name] = fs[s.name]
    BY <1>1, <2>1, FlushedOther
  <2> QED BY <2>1, <2>2, SameFileTidy
<1> HIDE DEF f0
<1>6. AllRecordings(gs) /\ FilesOpen(gs, g) /\ g.recording = r
  BY <1>2, AbortOpen
<1>7. CASE ~StreamedResetBy(h, c)
  <2>1. gs = f0 /\ g = h
    BY <1>7 DEF filesAfterAbort, AbortedBy
  <2>2. r.name \in DOMAIN f0
    BY <1>2 DEF FilesOpen, Open
  <2> QED BY <1>3, <1>4, <1>5, <1>6, <2>1, <2>2 DEF f0
<1>8. CASE StreamedResetBy(h, c)
  <2>1. gs = Without(f0, s.name) /\ s # NoFile /\ g.streamRecording = NoFile
    BY <1>2, <1>8, AbortIs DEF filesAfterAbort, discardFile, StreamedResetBy, FilesOpen
  <2>2. r.name \in DOMAIN f0 \ {s.name}
    BY <1>2, <2>1 DEF FilesOpen, Open
  <2>3. r.name \in DOMAIN gs /\ gs[r.name] = f0[r.name]
    BY <2>1, <2>2 DEF Without
  <2> QED BY <1>3, <1>4, <1>6, <2>1, <2>3 DEF f0
<1> QED BY <1>7, <1>8

(* A full reset, in memory.                                                *)
LEMMA ResetHas ==
  ASSUME NEW h, IsHist(h), h.resetStreamState \in {"None", "Streaming"}, NEW new,
         Durable!resetOk(new)
  PROVE  Durable!Live(Durable!reset(h, new)) =
           Hist(new, h.lastIndex + 1, h.lastIndex + Len(new), Len(new), Len(new), "None",
                IF h.resetStreamState = "Streaming" THEN 0 ELSE h.ctxId, << >>, -1, 0, 0, 0)
<1> DEFINE a == Durable!abortStreamedReset(h, -1)
           n == Len(new)
           k == [a EXCEPT !.sizeInBytes = n, !.firstIndex = h.lastIndex + 1,
                          !.lastIndex = @ + n, !.autoResetBaseSize = n, !.messages = new]
           x == IF h.resetStreamState = "Streaming" THEN 0 ELSE h.ctxId
<1>1. Durable!reset(h, new) = k
  BY DEF Durable!reset, Durable!Size
<1>2. IsHist(a) /\ a.resetStreamState = "None" /\ a.ctxId = x /\ a.lastIndex = h.lastIndex
  <2>1. CASE h.resetStreamState = "Streaming"
    <3>1. a = Durable!abortStreamedReset(h, h.ctxId)
      BY <2>1 DEF Durable!abortStreamedReset, Durable!StreamedResetBy
    <3> QED BY <2>1, <3>1, AbortedHas
  <2>2. CASE h.resetStreamState = "None"
    <3>1. a = h
      BY <2>2 DEF Durable!abortStreamedReset, Durable!StreamedResetBy
    <3> QED BY <2>2, <3>1
  <2> QED BY <2>1, <2>2
<1> HIDE DEF a, x, n
<1>3. /\ IsHist(k) /\ k.resetStreamState = "None" /\ k.ctxId = x
      /\ k.messages = new /\ k.firstIndex = h.lastIndex + 1 /\ k.lastIndex = h.lastIndex + n
      /\ k.sizeInBytes = n /\ k.autoResetBaseSize = n
  BY <1>2 DEF IsHist, HistFields
<1> HIDE DEF k
<1>4. k = Hist(k.messages, k.firstIndex, k.lastIndex, k.sizeInBytes, k.autoResetBaseSize,
               k.resetStreamState, k.ctxId, k.resetStream, k.resetStreamIndex,
               k.resetStreamSize, k.resetStreamStartIndex, k.resetStreamMessageCount)
  BY <1>3, HistIs
<1>5. Durable!Live(k) = Hist(k.messages, k.firstIndex, k.lastIndex, k.sizeInBytes,
                             k.autoResetBaseSize, k.resetStreamState, k.ctxId, << >>, -1, 0, 0, 0)
  BY <1>3, <1>4, LiveIs
<1> QED BY <1>1, <1>3, <1>5 DEF n, x

(* The new recording is empty, and the journal does not name it yet.       *)
LEMMA FullResetDurable ==
  ASSUME DurableInv, RecoverableInv', FullReset, "ResetPending" \notin Features
  PROVE  /\ DiskInv' /\ Durable!Reset
         /\ Held'.messages = serverSideStateMessages \o <<ImageMsg(0)>>
         /\ Held'.resetStreamState = "None"
<1> DEFINE new == serverSideStateMessages \o <<ImageMsg(0)>>
           fs  == filesAfterAbort(Flushed(files, fh.recording), fh, -1)
           h   == AbortedBy(fh, -1)
           n   == Len(new)
           r   == fh.recording
           ms  == Recorded(files, r)
           x   == IF fh.resetStreamState = "Streaming" THEN 0 ELSE fh.ctxId
<1>1. /\ Ready /\ UNCHANGED <<journal, server>> /\ ~isResetStreamPending(fh) /\ resetOk(new)
      /\ call' = [at |-> "opened", old |-> r.name, messages |-> new]
  BY DEF FullReset, reset_start
<1>2. /\ AllRecordings(files) /\ FilesOpen(files, fh) /\ Tidied(files, fh)
      /\ server = "up" /\ Last(journal) = r.name
      /\ ms \in Seq(Messages) /\ Held = HistOf(ms, files, fh)
  BY <1>1, ReadyDisk
<1>3. fh.resetStreamState \in {"None", "Streaming"}
  BY <1>1, <1>2 DEF isResetStreamPending, FilesOpen
<1>4. /\ AllRecordings(fs) /\ FilesOpen(fs, h) /\ r.name \in DOMAIN fs /\ Tidy(fs[r.name])
      /\ ScannedMessages(fs[r.name]) = ms
      /\ h.streamRecording # NoFile => OpenTidy(fs, h.streamRecording)
  BY <1>2, OldClosed
<1>5. h.resetStreamState = "None" /\ h.lastIndex = fh.lastIndex /\ h.ctxId = x
  <2>1. h.lastIndex = fh.lastIndex
    BY <1>2, AbortIs DEF Fields
  <2>2. CASE fh.resetStreamState = "Streaming"
    <3>1. StreamedResetBy(fh, -1)
      BY <2>2 DEF StreamedResetBy
    <3> QED BY <1>2, <2>1, <2>2, <3>1, AbortIs
  <2>3. CASE fh.resetStreamState = "None"
    BY <2>1, <2>3 DEF AbortedBy, StreamedResetBy
  <2> QED BY <1>3, <2>2, <2>3
<1>6. PICK k \in 0 .. Cardinality(DOMAIN fs) :
        LET name == <<h.fileCount + 1, k>>
        IN /\ uniqueRecordingFilename(fs, h.fileCount + 1, name)
           /\ files' = WithNew(fs, name)
           /\ fh' = [h EXCEPT !.sizeInBytes = n, !.firstIndex = h.lastIndex + 1,
                              !.lastIndex = @ + n, !.autoResetBaseSize = n,
                              !.fileCount = @ + 1, !.recording = openRecording(name),
                              !.blocks = <<Block(1, h.lastIndex + 1)>>]
  BY DEF FullReset, reset_start
<1>7. new \in Seq(Messages) /\ n \in Nat
  <2>1. serverSideStateMessages \in Seq(Messages)
    BY ServerSideMessages DEF DurableInv
  <2>2. <<ImageMsg(0)>> \in Seq(Messages)
    BY MessagesAre
  <2>3. new \in Seq(Messages)
    BY <2>1, <2>2, ConcatProperties
  <2> QED BY <2>3, LenProperties
<1> HIDE DEF new, fs, h, n, ms, x
<1> DEFINE name == <<h.fileCount + 1, k>>
<1>8. name \in FileName /\ name \notin DOMAIN fs
  BY <1>4, <1>6 DEF FileName, FilesOpen, uniqueRecordingFilename
<1>9. /\ files' = WithNew(fs, name) /\ fh'.recording = openRecording(name)
      /\ fh'.firstIndex = h.lastIndex + 1 /\ fh'.lastIndex = h.lastIndex + n
      /\ fh'.sizeInBytes = n /\ fh'.autoResetBaseSize = n
      /\ fh'.resetStreamState = h.resetStreamState /\ fh'.ctxId = h.ctxId
      /\ fh'.streamRecording = h.streamRecording
  BY <1>4, <1>6 DEF FilesOpen, Fields
<1> HIDE DEF name
<1>10. files'[name] = <<HeaderCell>> /\ \A m \in DOMAIN fs : files'[m] = fs[m]
  BY <1>8, <1>9 DEF WithNew
<1>11. OpenTidy(files', fh'.recording) /\ fh'.recording.pos = 1
  <2>1. OpenTidy(files', openRecording(name))
    BY <1>10, NewTidy
  <2> QED BY <1>9, <2>1 DEF openRecording
<1>12. fh'.streamRecording # NoFile => OpenTidy(files', fh'.streamRecording)
  <2> SUFFICES ASSUME h.streamRecording # NoFile PROVE OpenTidy(files', h.streamRecording)
    BY <1>9
  <2> DEFINE s == h.streamRecording
  <2>1. OpenTidy(fs, s) /\ s.name \in DOMAIN fs
    BY <1>4 DEF FilesOpen, Open
  <2> HIDE DEF s
  <2>2. files'[s.name] = fs[s.name]
    BY <1>10, <2>1
  <2>3. OpenTidy(files', s)
    BY <2>1, <2>2, SameFileTidy
  <2> QED BY <2>3 DEF s
<1>13. Tidied(files', fh')
  BY <1>7, <1>9, <1>11, <1>12 DEF Tidied
<1>14. Tidy(files'[r.name]) /\ ScannedMessages(files'[r.name]) = ms
  BY <1>4, <1>10
<1>15. server' = "up" /\ call'.at = "opened" /\ call'.messages = new /\ Last(journal') = r.name
  BY <1>1, <1>2
<1>16. DiskInv'
  BY <1>7, <1>11, <1>13, <1>14, <1>15 DEF DiskInv
<1>17. Held' = HistOf(new, files', fh')
  BY <1>15, HeldNext
<1>18. Held' = Hist(new, fh.lastIndex + 1, fh.lastIndex + n, n, n, "None", x, << >>, -1, 0, 0, 0)
  <2>1. fh'.resetStreamState = "None"
    BY <1>5, <1>9
  <2>2. HistOf(new, files', fh') =
          Hist(new, fh'.firstIndex, fh'.lastIndex, fh'.sizeInBytes, fh'.autoResetBaseSize,
               "None", fh'.ctxId, << >>, -1, 0, 0, 0)
    BY <2>1, NoStream
  <2> QED BY <1>5, <1>9, <1>17, <2>2
<1>19. /\ IsHist(Held) /\ Held.messages = ms /\ Held.lastIndex = fh.lastIndex
       /\ Held.resetStreamState = fh.resetStreamState /\ Held.ctxId = fh.ctxId
  BY <1>2, HistOfHas
<1>20. Held' = Durable!Live(Durable!reset(Held, new))
  <2>1. Durable!resetOk(new)
    BY <1>1 DEF resetOk, Durable!resetOk, Durable!Size, Size, new
  <2>2. Durable!Live(Durable!reset(Held, new)) =
          Hist(new, Held.lastIndex + 1, Held.lastIndex + Len(new), Len(new), Len(new), "None",
               IF Held.resetStreamState = "Streaming" THEN 0 ELSE Held.ctxId, << >>, -1, 0, 0, 0)
    BY <1>3, <1>19, <2>1, ResetHas
  <2> QED BY <1>18, <1>19, <2>2 DEF n, x
<1>21. Held'.messages = new /\ Held'.resetStreamState = "None"
  BY <1>18, HistHas
<1>22. Recovered' = ms
  <2>1. server' # "gone"
    BY <1>15
  <2> QED BY <1>14, <1>15, <2>1, RecoveredNext
<1>23. (call'.at = "opened") = TRUE /\ server' = server
  BY <1>1, <1>15
<1>24. Durable!Reset
  BY <1>7, <1>19, <1>20, <1>21, <1>22, <1>23 DEF Durable!Reset, Held
<1> QED BY <1>16, <1>21, <1>24 DEF new

(* An empty recording is on the disk as it is in the process.              *)
LEMMA EmptyRecorded ==
  ASSUME NEW fs, NEW f, AllRecordings(fs), Open(fs, f), OpenTidy(fs, f), f.pos = 1
  PROVE  Recorded(fs, f) = << >> /\ ScannedMessages(fs[f.name]) = << >>
<1> DEFINE ds == ScannedMessages(fs[f.name])
           a  == Len(ds)
           b  == Len(f.unsaved)
           rs == Recorded(fs, f)
<1>1. /\ ds \in Seq(Messages) /\ rs \in Seq(Messages) /\ Len(rs) = a + b
      /\ a \in Nat /\ b \in Nat /\ f.pos = 1 + a + b
  BY TidyRecorded
<1>2. a = 0 /\ Len(rs) = 0
  <2> DEFINE l == Len(rs)
  <2>1. l = a + b /\ a \in Nat /\ b \in Nat /\ 1 = 1 + a + b
    BY <1>1
  <2> HIDE DEF a, b, l
  <2>2. a = 0 /\ l = 0
    BY <2>1
  <2> QED BY <2>2 DEF l
<1> HIDE DEF ds, rs
<1>3. rs = << >> /\ ds = << >>
  BY <1>1, <1>2, EmptySeq DEF a
<1> QED BY <1>3 DEF rs, ds

(* The journal names it: what the server would load is empty.              *)
LEMMA ResetJournalDurable ==
  ASSUME DurableInv, RecoverableInv', reset_journal
  PROVE  DiskInv' /\ Durable!ResetSaved
<1> DEFINE r == fh.recording
<1>1. /\ server = "up" /\ call.at = "opened" /\ UNCHANGED <<files, fh, server>>
      /\ call'.at = "named" /\ call'.messages = call.messages
  BY DEF reset_journal, RecoverableInv, DurableInv
<1>2. /\ AllRecordings(files) /\ FilesOpen(files, fh) /\ Tidied(files, fh) /\ r.pos = 1
      /\ call.messages \in Seq(Messages)
  BY <1>1 DEF DurableInv, RecoverableInv, DiskInv
<1>3. Open(files, r) /\ OpenTidy(files, r)
  BY <1>2 DEF FilesOpen, Tidied
<1>4. ScannedMessages(files[r.name]) = << >> /\ Tidy(files[r.name])
  <2> HIDE DEF r
  <2> QED BY <1>2, <1>3, EmptyRecorded DEF OpenTidy
<1>5. Last(journal') = r.name
  <2>1. server' = "up" /\ call'.at = "named" /\ fh' = fh
    BY <1>1
  <2> QED BY <2>1 DEF RecoverableInv, Named
<1>6. Recovered' = << >>
  <2>1. server' # "gone" /\ files' = files
    BY <1>1
  <2> QED BY <1>4, <1>5, <2>1, RecoveredNext
<1>7. Held = HistOf(call.messages, files, fh)
  BY <1>1, HeldQuiet
<1>8. Held' = HistOf(call.messages, files, fh)
  <2>1. server' = "up" /\ call'.at = "named"
    BY <1>1
  <2>2. Held' = HistOf(call'.messages, files', fh')
    BY <2>1, HeldNext
  <2> QED BY <1>1, <2>2
<1>9. DiskInv'
  BY <1>1, <1>2, <1>4, <1>5 DEF DiskInv
<1> QED BY <1>1, <1>6, <1>7, <1>8, <1>9 DEF Durable!ResetSaved, Held

(* The messages are written, and one more.                                 *)
LEMMA ResetFinishDurable ==
  ASSUME DurableInv, RecoverableInv', reset_finish(CaughtUpMsg)
  PROVE  /\ DiskInv' /\ Durable!Add
         /\ \E more \in Perhaps(CaughtUpMsg) : Held'.messages = Held.messages \o more
<1> DEFINE q == call.messages
           h == historyAdd(fh, q)
           r == fh.recording
           w == Written(r, q)
<1>1. /\ server = "up" /\ call.at = "named" /\ UNCHANGED <<journal, server>>
      /\ files' = Without(files, call.old) /\ fh' = addMessage(h, CaughtUpMsg) /\ call' = NoCall
  BY DEF reset_finish
<1>2. /\ AllRecordings(files) /\ FilesOpen(files, fh) /\ Tidied(files, fh) /\ r.pos = 1
      /\ q \in Seq(Messages) /\ q \in Seq(Cell) /\ Last(journal) = r.name /\ call.old # r.name
      /\ fh.streamRecording # NoFile => call.old # fh.streamRecording.name
      /\ Index(files, fh, Len(q)) /\ fh.resetStreamState = "None"
  BY <1>1 DEF DurableInv, RecoverableInv, Named, DiskInv, IndexInv, InReset
<1>3. Open(files, r) /\ OpenTidy(files, r)
  BY <1>2 DEF FilesOpen, Tidied
<1>4. Counts(fh)
  <2>1. Len(q) \in Int
    BY <1>2
  <2> HIDE DEF q
  <2> QED BY <1>2, <2>1, IndexCounts
<1>5. FilesOpen(files, h) /\ h.recording.name = r.name
  BY <1>2, HistoryAddOpen
<1>6. /\ h.recording = w /\ \A f \in Fields \ {"recording", "blocks"} : h[f] = fh[f]
  BY <1>2 DEF historyAdd, FilesOpen, Fields
<1>7. OpenTidy(files, w) /\ Recorded(files, w) = q
  <2>1. OpenTidy(files, w)
    BY <1>2, <1>3, WrittenTidy
  <2>2. Recorded(files, r) = << >>
    BY <1>2, <1>3, EmptyRecorded
  <2>3. Recorded(files, w) = Recorded(files, r) \o q
    BY <1>2, <1>3, WrittenRecorded
  <2> HIDE DEF q, w
  <2> QED BY <1>2, <2>1, <2>2, <2>3, ConcatEmptySeq
<1> HIDE DEF h, w, q
<1>8. Tidied(files, h) /\ Counts(h) /\ h.resetStreamState = "None"
  <2>1. /\ h.streamRecording = fh.streamRecording /\ h.sizeInBytes = fh.sizeInBytes
        /\ h.lastIndex = fh.lastIndex /\ h.resetStreamState = fh.resetStreamState
    BY <1>6 DEF Fields
  <2> QED BY <1>2, <1>4, <1>6, <1>7, <2>1 DEF Tidied, Counts
<1>9. PICK more \in Perhaps(CaughtUpMsg) : more \in Seq(Messages) /\ Grows(h, fh', more)
  <2>1. CaughtUpMsg \in Messages
    BY MessagesAre
  <2>2. \E more \in Perhaps(CaughtUpMsg) : Grows(h, fh', more)
    BY <1>1, <1>5, <1>8, <2>1, AddedPerhaps
  <2>3. Perhaps(CaughtUpMsg) \subseteq Seq(Messages)
    <3>1. <<CaughtUpMsg>> \in Seq(Messages) /\ << >> \in Seq(Messages)
      BY <2>1
    <3> QED BY <3>1 DEF Perhaps
  <2> QED BY <2>2, <2>3
<1>10. FilesOpen(files, fh') /\ Tidied(files, fh') /\ fh'.streamRecording = fh.streamRecording
       /\ fh'.recording.name = r.name
  <2>1. FilesOpen(files, fh') /\ Tidied(files, fh')
    BY <1>2, <1>5, <1>8, <1>9, GrowsTidied
  <2>2. fh'.streamRecording = h.streamRecording /\ h.streamRecording = fh.streamRecording
    BY <1>6, <1>9 DEF Grows, LeftAlone, Fields
  <2>3. fh'.recording.name = h.recording.name
    BY <1>9 DEF Grows, Longer
  <2> QED BY <1>5, <2>1, <2>2, <2>3
<1>11. Recorded(files, fh'.recording) = q \o more
  <2>1. Open(files, h.recording) /\ OpenTidy(files, h.recording)
        /\ Longer(h.recording, fh'.recording, more)
    BY <1>5, <1>8, <1>9 DEF FilesOpen, Tidied, Grows
  <2>2. Recorded(files, fh'.recording) = Recorded(files, h.recording) \o more
    BY <1>2, <1>9, <2>1, LongerIs
  <2> QED BY <1>6, <1>7, <2>2
<1>12. /\ files'[r.name] = files[r.name]
       /\ fh.streamRecording # NoFile =>
            files'[fh.streamRecording.name] = files[fh.streamRecording.name]
  BY <1>1, <1>2 DEF Without, FilesOpen, Open
<1>13. Tidied(files', fh') /\ Recorded(files', fh'.recording) = q \o more
  <2>1. OpenTidy(files', fh'.recording) /\ Recorded(files', fh'.recording) = q \o more
    <3>1. OpenTidy(files, fh'.recording) /\ files'[fh'.recording.name] = files[fh'.recording.name]
      BY <1>10, <1>12 DEF Tidied
    <3> QED BY <1>11, <3>1, SameFileTidy, SameFileRecorded
  <2>2. fh'.streamRecording # NoFile => OpenTidy(files', fh'.streamRecording)
    <3> SUFFICES ASSUME fh'.streamRecording # NoFile PROVE OpenTidy(files', fh'.streamRecording)
      OBVIOUS
    <3>1. OpenTidy(files, fh'.streamRecording)
          /\ files'[fh'.streamRecording.name] = files[fh'.streamRecording.name]
      BY <1>10, <1>12 DEF Tidied
    <3> QED BY <3>1, SameFileTidy
  <2> QED BY <1>10, <2>1, <2>2 DEF Tidied
<1>14. Held = HistOf(q, files, h)
  <2>1. Held = HistOf(q, files, fh)
    BY <1>1, HeldQuiet DEF q
  <2>2. HistOf(q, files, h) = HistOf(q, files, fh)
    <3>1. \A f \in {"firstIndex", "lastIndex", "sizeInBytes", "autoResetBaseSize",
                    "resetStreamState", "ctxId", "forkPos", "streamBlocks", "resetStreamSize",
                    "resetStreamStartIndex", "resetStreamMessageCount"} : h[f] = fh[f]
      BY <1>6 DEF Fields
    <3> QED BY <1>2, <3>1, SameHist
  <2> QED BY <2>1, <2>2
<1>15. Held' = HistOf(q \o more, files', fh')
  <2>1. server' = "up" /\ call'.at = "none"
    BY <1>1 DEF NoCall
  <2> QED BY <1>13, <2>1, HeldNext
<1>16. Held' = Durable!Live(Durable!addMessageInternal(Held, more))
  <2>1. HistOf(q \o more, files', fh') =
          Durable!Live(Durable!addMessageInternal(HistOf(q, files, h), more))
    BY <1>8, <1>9, GrownHist
  <2> QED BY <1>14, <1>15, <2>1
<1>17. Recovered' = Recovered
  <2>1. server # "gone" /\ server' # "gone" /\ Last(journal') = r.name
    BY <1>1, <1>2
  <2>2. Recovered = ScannedMessages(files[r.name])
    BY <1>2, <2>1, RecoveredIs DEF DurableInv
  <2>3. Recovered' = ScannedMessages(files'[r.name])
    BY <2>1, RecoveredNext
  <2> QED BY <1>12, <2>2, <2>3
<1>18. Steady
  BY <1>1, <1>17 DEF Steady, NoCall
<1>19. DiskInv'
  <2>1. Tidy(files'[r.name]) /\ Last(journal') = r.name
    BY <1>1, <1>2, <1>10, <1>13 DEF OpenTidy, Tidied
  <2>2. call'.at = "none" /\ call'.messages = << >> /\ << >> \in Seq(Messages)
    BY <1>1, EmptySeq DEF NoCall
  <2> QED BY <1>13, <2>1, <2>2 DEF DiskInv
<1>20. IsHist(Held) /\ Held.messages = q
  BY <1>14, HistOfHas
<1>21. Durable!Extended(Held)
  BY <1>2, <1>9, <1>16, <1>18, <1>20, ExtendedIs
<1>22. Durable!Add
  BY <1>21 DEF Durable!Add, Held
<1>23. Held'.messages = Held.messages \o more
  <2> DEFINE ms == q \o more
  <2>1. Held' = HistOf(ms, files', fh')
    BY <1>15
  <2> HIDE DEF ms
  <2>2. Held'.messages = ms
    BY <2>1, HistOfHas
  <2>3. Held'.messages = q \o more
    BY <2>2 DEF ms
  <2> QED BY <1>20, <2>3
<1> QED BY <1>9, <1>19, <1>22, <1>23

(* The next part of a call.                                                *)
LEMMA ProceedDurable ==
  ASSUME DurableInv, RecoverableInv', Proceed
  PROVE  /\ DiskInv'
         /\ \/ Durable!ResolveStream \/ Durable!ResetSaved \/ Durable!Add
            \/ UNCHANGED Durable!vars
BY ResolveJournalDurable, ResolveFinishDurable, ResetJournalDurable, ResetFinishDurable DEF Proceed

----------------------------------------------------------------------------
(* The end of the process.                                                 *)

(* The shortest and the longest beginning.                                 *)
LEMMA PrefixSelf ==
  ASSUME NEW S, NEW ds \in Seq(S)
  PROVE  Durable!IsPrefixOf(ds, ds) /\ Durable!IsPrefixOf(<< >>, ds)
<1>1. Len(ds) \in Nat /\ SubSeq(ds, 1, Len(ds)) = ds
  BY SubSeqFull
<1>2. SubSeq(ds, 1, 0) = << >> /\ Len(<< >>) = 0
  <2>1. SubSeq(ds, 1, 0) \in Seq(S) /\ Len(SubSeq(ds, 1, 0)) = 0
    OBVIOUS
  <2> QED BY <2>1, EmptySeq
<1>3. Durable!IsPrefixOf(ds, ds)
  BY <1>1 DEF Durable!IsPrefixOf
<1>4. Durable!IsPrefixOf(<< >>, ds)
  BY <1>1, <1>2 DEF Durable!IsPrefixOf
<1> QED BY <1>3, <1>4

(* Nothing is held by a server that is not there.                          *)
LEMMA NothingHeld ==
  ASSUME server' # "up", call' = NoCall, fh' = NoHistory
  PROVE  Held' = Durable!Nothing
<1> DEFINE h == NoHistory
<1>1. Held' = HistOf(<< >>, files', h)
  BY HeldNext
<1>2. /\ h.firstIndex = 0 /\ h.lastIndex = -1 /\ h.sizeInBytes = 0 /\ h.autoResetBaseSize = 0
      /\ h.resetStreamState = "None" /\ h.ctxId = 0
  BY DEF NoHistory, NewFiledHistory
<1> HIDE DEF h
<1>3. HistOf(<< >>, files', h) = Hist(<< >>, 0, -1, 0, 0, "None", 0, << >>, -1, 0, 0, 0)
  BY <1>2, NoStream
<1>4. Durable!Nothing = Hist(<< >>, 0, -1, 0, 0, "None", 0, << >>, -1, 0, 0, 0)
  <2>1. Len(<< >>) = 0 /\ 0 - 1 = -1
    BY EmptySeq
  <2> QED BY <2>1 DEF Durable!Nothing, Durable!NewHistory, Durable!Size, Hist
<1> QED BY <1>1, <1>3, <1>4

(* What the journal names is whole, and is left of what there was.         *)
LEMMA EndedStep ==
  ASSUME DurableInv, RecoverableInv', server' = "down", call' = NoCall, fh' = NoHistory,
         journal' = journal, Tidy(files'[Last(journal)]), server = "up",
         IF call.at = "opened" THEN Recovered' = Recovered
         ELSE Durable!IsPrefixOf(Recovered, Recovered')
              /\ Durable!IsPrefixOf(Recovered', Held.messages)
  PROVE  DiskInv' /\ Durable!Stop
<1>1. Held' = Durable!Nothing
  BY NothingHeld
<1>2. call'.at = "none" /\ call'.messages \in Seq(Messages)
  BY EmptySeq DEF NoCall
<1>3. DiskInv'
  BY <1>2 DEF DiskInv
<1> QED BY <1>1, <1>2, <1>3 DEF Durable!Stop, Durable!MoreSaved, Held

(* A crash while the journal names the recording that is written to.       *)
LEMMA CrashedDurable ==
  ASSUME DurableInv, RecoverableInv', NEW k \in 0 .. Len(fh.recording.unsaved),
         NEW torn \in BOOLEAN, Crash(k, torn), call.at \in {"none", "copied", "named"}
  PROVE  DiskInv' /\ Durable!Stop
<1> DEFINE f  == fh.recording
           ms == Recorded(files, f)
           ds == ScannedMessages(files[f.name])
           u  == f.unsaved
           x  == SubSeq(ms, 1, Len(ds) + k)
<1>1. /\ server = "up" /\ server' = "down" /\ fh' = NoHistory /\ call' = NoCall
      /\ journal' = journal /\ files' = [files EXCEPT ![f.name] = Crashed(files, f, k, torn)]
  BY DEF Crash, Crashed
<1>2. /\ AllRecordings(files) /\ FilesOpen(files, fh) /\ Tidied(files, fh)
      /\ Last(journal) = f.name /\ call.messages \in Seq(Messages)
      /\ call.at = "named" => f.pos = 1
  BY <1>1 DEF DurableInv, RecoverableInv, Named, DiskInv
<1>3. Open(files, f) /\ OpenTidy(files, f)
  BY <1>2 DEF FilesOpen, Tidied
<1>4. files'[f.name] = Crashed(files, f, k, torn)
  BY <1>1, <1>3 DEF Open
<1>5. Tidy(files'[f.name]) /\ ScannedMessages(files'[f.name]) = x
  BY <1>2, <1>3, <1>4, CrashedHolds
<1>6. ds \in Seq(Messages) /\ u \in Seq(Messages) /\ ms = ds \o u /\ ms \in Seq(Messages)
  BY <1>2, <1>3, TidyRecorded
<1>7. Recovered = ds /\ Recovered' = x
  <2>1. server # "gone" /\ server' # "gone" /\ Last(journal') = f.name
    BY <1>1, <1>2
  <2> HIDE DEF x
  <2>2. Recovered' = ScannedMessages(files'[f.name])
    BY <2>1, RecoveredNext
  <2>3. Recovered = ScannedMessages(files[f.name])
    BY <1>2, <2>1, RecoveredIs DEF DurableInv
  <2> QED BY <1>5, <2>2, <2>3
<1>8. Durable!IsPrefixOf(ds, x) /\ Durable!IsPrefixOf(x, ms)
  <2>1. k \in 0 .. Len(u)
    OBVIOUS
  <2> HIDE DEF u, ds, ms
  <2> QED BY <1>6, <2>1, MorePrefix
<1> HIDE DEF x, ds, ms, u
<1>9. Durable!IsPrefixOf(x, Held.messages)
  <2>1. CASE call.at \in {"none", "copied"}
    <3>1. Held = HistOf(ms, files, fh)
      BY <1>1, <2>1, HeldQuiet DEF ms
    <3>2. Held.messages = ms
      BY <3>1, HistOfHas
    <3> QED BY <1>8, <3>2
  <2>2. CASE call.at = "named"
    <3>1. Held = HistOf(call.messages, files, fh)
      BY <1>1, <2>2, HeldQuiet
    <3>2. Held.messages = call.messages
      BY <3>1, HistOfHas
    <3>3. ms = << >>
      BY <1>2, <1>3, <2>2, EmptyRecorded DEF ms
    <3>4. x = << >>
      <4>1. Len(x) <= Len(ms) /\ x = SubSeq(ms, 1, Len(x))
        BY <1>8 DEF Durable!IsPrefixOf
      <4>2. x \in Seq(Messages) /\ Len(x) \in Nat
        <5>1. Tidy(files'[f.name]) /\ ScannedMessages(files'[f.name]) = x
          BY <1>5
        <5> QED BY <5>1, LenProperties DEF Tidy, Holds
      <4>3. Len(ms) = 0
        BY <3>3, EmptySeq
      <4>4. Len(x) = 0
        BY <4>1, <4>2, <4>3
      <4> QED BY <4>2, <4>4, EmptySeq
    <3> QED BY <1>2, <3>2, <3>4, PrefixSelf
  <2> QED BY <2>1, <2>2
<1>10. call.at # "opened"
  OBVIOUS
<1> QED BY <1>1, <1>2, <1>5, <1>7, <1>8, <1>9, <1>10, EndedStep

(* A crash while it names another one.                                     *)
LEMMA CrashedElsewhereDurable ==
  ASSUME DurableInv, RecoverableInv', NEW k \in 0 .. Len(fh.recording.unsaved),
         NEW torn \in BOOLEAN, Crash(k, torn), call.at \in {"journalled", "opened"}
  PROVE  DiskInv' /\ Durable!Stop
<1> DEFINE f    == fh.recording
           s    == fh.streamRecording
           name == Last(journal)
<1>1. /\ server = "up" /\ server' = "down" /\ fh' = NoHistory /\ call' = NoCall
      /\ journal' = journal /\ files' = [files EXCEPT ![f.name] = Crashed(files, f, k, torn)]
  BY DEF Crash, Crashed
<1>2. /\ AllRecordings(files) /\ FilesOpen(files, fh) /\ Tidied(files, fh)
      /\ name \in DOMAIN files /\ Tidy(files[name])
      /\ call.at = "journalled" => s # NoFile /\ name = s.name /\ s.unsaved = << >>
      /\ call.at = "opened" => name # f.name
  BY <1>1 DEF DurableInv, RecoverableInv, Named, DiskInv
<1>3. name # f.name
  BY <1>2 DEF FilesOpen
<1>4. files'[name] = files[name]
  BY <1>1, <1>2, <1>3
<1>5. Recovered = ScannedMessages(files[name]) /\ Recovered' = Recovered
  <2>1. server # "gone" /\ server' # "gone" /\ Last(journal') = name
    BY <1>1
  <2>2. Recovered = ScannedMessages(files[name])
    BY <2>1, RecoveredIs DEF DurableInv
  <2>3. Recovered' = ScannedMessages(files'[name])
    BY <2>1, RecoveredNext
  <2> QED BY <1>4, <2>2, <2>3
<1>6. CASE call.at = "opened"
  BY <1>1, <1>2, <1>4, <1>5, <1>6, EndedStep
<1>7. CASE call.at = "journalled"
  <2>1. Open(files, s) /\ OpenTidy(files, s) /\ name = s.name /\ s.unsaved = << >>
    BY <1>2, <1>7 DEF FilesOpen, Tidied
  <2>2. Recorded(files, s) = ScannedMessages(files[s.name]) \o s.unsaved
        /\ ScannedMessages(files[s.name]) \in Seq(Messages)
    BY <1>2, <2>1, TidyRecorded
  <2>3. Recorded(files, s) = Recovered /\ Recovered \in Seq(Messages)
    BY <1>5, <2>1, <2>2, ConcatEmptySeq
  <2>4. Resolved(fh).recording = s
    BY <1>2 DEF Resolved, FilesOpen, Fields
  <2>5. Held = HistOf(Recorded(files, s), files, Resolved(fh))
    BY <1>1, <1>2, <1>7, <2>4, HeldResolved
  <2>6. Held.messages = Recovered
    <3> HIDE DEF s
    <3> QED BY <2>3, <2>5, HistOfHas
  <2>7. Durable!IsPrefixOf(Recovered, Recovered') /\ Durable!IsPrefixOf(Recovered', Held.messages)
    BY <1>5, <2>3, <2>6, PrefixSelf
  <2> QED BY <1>1, <1>2, <1>4, <1>7, <2>7, EndedStep
<1> QED BY <1>6, <1>7

(* A crash at any place, with any of the buffered messages written.        *)
LEMMA FailDurable ==
  ASSUME DurableInv, RecoverableInv', Fail
  PROVE  DiskInv' /\ Durable!Stop
<1>1. PICK k \in 0 .. Len(fh.recording.unsaved), torn \in BOOLEAN : Crash(k, torn)
  BY DEF Fail
<1>2. call.at \in {"none", "copied", "named", "journalled", "opened"}
  BY <1>1 DEF Crash, DurableInv, RecoverableInv, Named
<1> QED BY <1>1, <1>2, CrashedDurable, CrashedElsewhereDurable

(* In good order all that there is is saved.                               *)
LEMMA StopDurable ==
  ASSUME DurableInv, RecoverableInv', Stop
  PROVE  DiskInv' /\ Durable!Stop
<1> DEFINE r  == fh.recording
           s  == fh.streamRecording
           ms == Recorded(files, r)
           fs == Flushed(files, r)
<1>1. /\ Ready /\ server' = "down" /\ fh' = NoHistory /\ call' = NoCall /\ journal' = journal
      /\ files' = IF s = NoFile THEN fs ELSE Flushed(fs, s)
  BY DEF Stop, Shutdown
<1>2. /\ AllRecordings(files) /\ FilesOpen(files, fh) /\ Tidied(files, fh)
      /\ call.at = "none" /\ server = "up" /\ Last(journal) = r.name
      /\ Held = HistOf(ms, files, fh)
  BY <1>1, ReadyDisk
<1>3. Open(files, r) /\ OpenTidy(files, r)
  BY <1>2 DEF FilesOpen, Tidied
<1>4. Tidy(fs[r.name]) /\ ScannedMessages(fs[r.name]) = ms
  <2>1. OpenTidy(fs, [r EXCEPT !.unsaved = << >>]) /\ ScannedMessages(fs[r.name]) = ms
    BY <1>2, <1>3, FlushedTidy
  <2>2. [r EXCEPT !.unsaved = << >>].name = r.name
    BY <1>3 DEF Open
  <2> QED BY <2>1, <2>2 DEF OpenTidy
<1>5. files'[r.name] = fs[r.name]
  <2>1. CASE s = NoFile
    BY <1>1, <2>1
  <2>2. CASE s # NoFile
    <3>1. Open(files, s) /\ s.name # r.name
      BY <1>2, <2>2 DEF FilesOpen
    <3> DEFINE r2 == [r EXCEPT !.unsaved = << >>]
    <3>2. AllRecordings(fs) /\ Open(fs, r2) /\ Open(fs, s) /\ r2.name = r.name
      <4>1. r2.name = r.name
        BY <1>3 DEF Open
      <4> QED BY <1>2, <1>3, <3>1, <4>1, FlushedIsRecording, FlushedSelfOpen, FlushedOpen
    <3> HIDE DEF fs, s, r2
    <3>3. Flushed(fs, s)[r2.name] = fs[r2.name]
      BY <3>1, <3>2, FlushedOther
    <3> QED BY <1>1, <2>2, <3>2, <3>3
  <2> QED BY <2>1, <2>2
<1> HIDE DEF ms, fs
<1>6. Recovered' = ms
  <2>1. server' # "gone" /\ Last(journal') = r.name
    BY <1>1, <1>2
  <2> QED BY <1>4, <1>5, <2>1, RecoveredNext
<1>7. Durable!IsPrefixOf(Recovered, Recovered') /\ Durable!IsPrefixOf(Recovered', Held.messages)
  <2>1. Durable!IsPrefixOf(Recovered, ms) /\ Durable!IsPrefixOf(ms, ms)
    BY <1>1, SavedPrefix DEF ms
  <2>2. Held.messages = ms
    BY <1>2, HistOfHas
  <2> QED BY <1>6, <2>1, <2>2
<1>8. Tidy(files'[Last(journal)]) /\ call.at # "opened"
  BY <1>2, <1>4, <1>5
<1> QED BY <1>1, <1>2, <1>7, <1>8, EndedStep

(* The session is over.                                                    *)
LEMMA EndDurable ==
  ASSUME DurableInv, RecoverableInv', End
  PROVE  DiskInv' /\ Durable!End
<1>1. server' = "gone" /\ journal' = << >> /\ call' = NoCall /\ fh' = NoHistory
  BY DEF End, terminate
<1>2. Held' = Durable!Nothing
  BY <1>1, NothingHeld
<1>3. Recovered' = << >>
  BY <1>1 DEF Recovered
<1>4. call'.at = "none" /\ call'.messages \in Seq(Messages)
  BY <1>1, EmptySeq DEF NoCall
<1>5. DiskInv'
  BY <1>1, <1>4 DEF DiskInv
<1> QED BY <1>1, <1>2, <1>3, <1>4, <1>5 DEF Durable!End, Held

----------------------------------------------------------------------------
(* The start of the process.                                               *)

(* The farewells of a restart are messages, none after no history.         *)
LEMMA ByeMessages ==
  ASSUME NEW ms, NEW bye \in Farewells(UsersLeftIn(ms))
  PROVE  /\ bye \in Seq(Messages)
         /\ ms = << >> => bye = << >>
<1> DEFINE S == UsersLeftIn(ms)
           n == Cardinality(S)
<1>1. S \subseteq 1 .. MaxId /\ S \subseteq Clients
  BY StoredSessionAssumption DEF UsersLeftIn
<1>2. n \in Nat
  <2>1. IsFiniteSet(1 .. MaxId)
    BY FS_Interval, IdQueueAssumption
  <2> QED BY <1>1, <2>1, FS_Subset, FS_CardinalityType
<1>3. {LeaveMsg(c) : c \in S} \subseteq Messages
  BY <1>1, MessagesAre
<1>4. bye \in [1 .. n -> {LeaveMsg(c) : c \in S}]
  BY DEF Farewells
<1>5. ms = << >> => n = 0
  <2>1. ms = << >> => S = {}
    BY DEF UsersLeftIn
  <2> QED BY <2>1, FS_EmptySet
<1> HIDE DEF S, n
<1>6. DOMAIN bye = 1 .. n /\ \A i \in 1 .. n : bye[i] \in Messages
  BY <1>3, <1>4
<1>7. bye = [i \in 1 .. n |-> bye[i]]
  BY <1>4
<1>8. bye \in Seq(Messages)
  BY <1>2, <1>6, <1>7, IsASeq
<1>9. Len(bye) = n
  BY <1>2, <1>6, <1>8, LenProperties
<1> QED BY <1>5, <1>8, <1>9, EmptySeq

(* The abstract specification says farewell in the same way.               *)
LEMMA SameFarewells ==
  ASSUME NEW ms
  PROVE  Durable!Farewells(Durable!StillIn(ms)) = Farewells(UsersLeftIn(ms))
<1>1. Durable!StillIn(ms) = UsersLeftIn(ms)
  BY DEF Durable!StillIn, UsersLeftIn, Durable!JoinMsg, JoinMsg, Durable!LeaveMsg, LeaveMsg
<1>2. \A S : Durable!Farewells(S) = Farewells(S)
  BY DEF Durable!Farewells, Farewells, Durable!LeaveMsg, LeaveMsg, Durable!Cardinality, Cardinality
<1> QED BY <1>1, <1>2

(* The server comes back, or there is nothing to load.                     *)
LEMMA RestartDurable ==
  ASSUME DurableInv, RecoverableInv', Restart
  PROVE  DiskInv' /\ (Durable!Restart \/ Durable!NothingToRestart)
<1> DEFINE name == Last(journal)
           ms   == ScannedMessages(files[name])
<1>1. /\ server = "down" /\ call = NoCall /\ fh = NoHistory /\ AllRecordings(files)
      /\ name \in DOMAIN files /\ Tidy(files[name])
  BY DEF Restart, DurableInv, RecoverableInv, DiskInv
<1>2. Recovered = ms /\ ms \in Seq(Messages)
  <2>1. server # "gone"
    BY <1>1
  <2>2. Recovered = ms
    BY <2>1, RecoveredIs DEF DurableInv
  <2> QED BY <1>1, <2>2 DEF Tidy, Holds
<1>3. CASE loadFails
  <2>1. /\ server' = "gone" /\ UNCHANGED <<files, journal, fh, call>> /\ ms = << >>
    BY <1>1, <1>3 DEF loadFails
  <2>2. Recovered' = Recovered
    BY <2>1 DEF Recovered
  <2>3. Held' = Held
    <3>1. server # "up" /\ server' # "up" /\ call' = NoCall
      BY <1>1, <2>1
    <3>2. Held = HistOf(<< >>, files, fh)
      BY <1>1, <3>1, HeldQuiet
    <3>3. Held' = HistOf(<< >>, files', fh')
      BY <3>1, HeldNext
    <3> QED BY <2>1, <3>2, <3>3
  <2>4. DiskInv'
    BY <2>1 DEF DiskInv, DurableInv
  <2> QED BY <1>2, <2>1, <2>2, <2>3, <2>4 DEF Durable!NothingToRestart, Held
<1>4. CASE \E bye \in Farewells(UsersLeftIn(ms)) : load(bye)
  <2>1. PICK bye \in Farewells(UsersLeftIn(ms)) : load(bye)
    BY <1>4
  <2> DEFINE all == ms \o bye
             n   == Len(all)
             r   == [name |-> name, pos |-> 1 + n, unsaved |-> bye]
             h   == NewFiledHistory(name, Len(journal))
  <2>2. /\ all # << >>
        /\ fh' = [h EXCEPT !.recording = r,
                           !.blocks = Indexed(1, 0, all), !.lastIndex = n - 1,
                           !.sizeInBytes = n, !.autoResetBaseSize = n]
        /\ server' = "up" /\ UNCHANGED <<files, journal, call>>
    BY <2>1 DEF load
  <2>3. /\ fh'.recording = r /\ fh'.firstIndex = 0 /\ fh'.lastIndex = n - 1
        /\ fh'.sizeInBytes = n /\ fh'.autoResetBaseSize = n
        /\ fh'.resetStreamState = "None" /\ fh'.ctxId = 0 /\ fh'.streamRecording = NoFile
    BY <2>2 DEF NewFiledHistory
  <2>4. bye \in Seq(Messages) /\ (ms = << >> => bye = << >>)
    BY ByeMessages
  <2>5. r.name = name /\ r.pos = 1 + n /\ r.unsaved = bye
    OBVIOUS
  <2>6. n = Len(ms) + Len(bye) /\ n \in Nat /\ Len(ms) \in Nat /\ Len(bye) \in Nat
    BY <1>2, <2>4, ConcatProperties, LenProperties
  <2> HIDE DEF ms, r, n
  <2>7. ms # << >>
    <3>1. << >> \in Seq(Messages) /\ << >> \o << >> = << >>
      BY EmptySeq, ConcatEmptySeq
    <3> QED BY <2>2, <2>4, <3>1
  <2> HIDE DEF all
  <2>8. OpenTidy(files, r)
    <3>1. Len(ms) = r.pos - Len(r.unsaved) - 1
      <4> DEFINE a == r.pos
                 b == Len(bye)
                 c == Len(ms)
      <4>1. a = 1 + n /\ n = c + b /\ b \in Nat /\ c \in Nat
        BY <2>5, <2>6
      <4> HIDE DEF a, b, c
      <4>2. c = a - b - 1
        BY <4>1
      <4> QED BY <2>5, <4>2 DEF a, b, c
    <3> QED BY <1>1, <2>4, <2>5, <3>1 DEF OpenTidy, ms
  <2>9. Recorded(files, r) = all
    <3>1. Open(files, r)
      BY <2>2, <2>3 DEF RecoverableInv, FilesOpen
    <3>2. Recorded(files, r) = ScannedMessages(files[r.name]) \o r.unsaved
      BY <1>1, <2>8, <3>1, TidyRecorded
    <3> QED BY <2>5, <3>2 DEF ms, all
  <2>10. Tidied(files', fh')
    BY <2>2, <2>3, <2>6, <2>8 DEF Tidied
  <2>11. call'.at = "none" /\ call'.messages \in Seq(Messages)
    BY <1>1, <2>2, EmptySeq DEF NoCall
  <2>12. DiskInv'
    BY <1>1, <2>2, <2>10, <2>11 DEF DiskInv
  <2>13. Held' = HistOf(all, files', fh')
    BY <2>2, <2>3, <2>9, <2>11, HeldNext
  <2>14. Held' = Hist(all, 0, n - 1, n, n, "None", 0, << >>, -1, 0, 0, 0)
    <3>1. HistOf(all, files', fh') =
            Hist(all, fh'.firstIndex, fh'.lastIndex, fh'.sizeInBytes, fh'.autoResetBaseSize,
                 "None", fh'.ctxId, << >>, -1, 0, 0, 0)
      BY <2>3, NoStream
    <3> QED BY <2>3, <2>13, <3>1
  <2>15. Durable!NewHistory(Recovered \o bye) =
           Hist(all, 0, n - 1, n, n, "None", 0, << >>, -1, 0, 0, 0)
    BY <1>2 DEF Durable!NewHistory, Durable!Size, Hist, all, n
  <2>16. Recovered' = Recovered
    <3>1. server' # "gone" /\ Last(journal') = name /\ files' = files
      BY <2>2
    <3> QED BY <1>2, <3>1, RecoveredNext DEF ms
  <2>17. bye \in Durable!Farewells(Durable!StillIn(Recovered))
    BY <1>2, SameFarewells
  <2>18. server' = "up" /\ (call'.at = "opened") = (call.at = "opened")
    BY <2>2
  <2> QED BY <1>2, <2>7, <2>12, <2>14, <2>15, <2>16, <2>17, <2>18 DEF Durable!Restart, Held
<1> QED BY <1>3, <1>4 DEF Restart

----------------------------------------------------------------------------
(* The specification.                                                      *)

(* A new session has a new, empty recording.                               *)
LEMMA InitDurable == StoredInit => DiskInv /\ Durable!Init
<1> SUFFICES ASSUME StoredInit PROVE DiskInv /\ Durable!Init
  OBVIOUS
<1> DEFINE name == <<1, 0>>
           f    == openRecording(name)
<1>1. /\ fh.recording = f /\ fh.firstIndex = 0 /\ fh.lastIndex = -1 /\ fh.sizeInBytes = 0
      /\ fh.autoResetBaseSize = 0 /\ fh.resetStreamState = "None" /\ fh.ctxId = 0
      /\ fh.streamRecording = NoFile
      /\ server = "up" /\ call = NoCall /\ journal = <<name>>
  BY DEF StoredInit, FiledInit, NewFiledHistory
<1>2. files[name] = <<HeaderCell>>
  BY DEF StoredInit, FiledInit, WithNew
<1>3. RecoverableInv
  BY InitRecoverable
<1>4. Last(journal) = name
  BY <1>1 DEF Last
<1>5. OpenTidy(files, f) /\ ScannedMessages(files[name]) = << >> /\ f.name = name /\ f.pos = 1
  <2> HIDE DEF name
  <2> QED BY <1>2, NewTidy DEF openRecording
<1> HIDE DEF name, f
<1>6. Recorded(files, f) = << >>
  <2>1. AllRecordings(files) /\ Open(files, f)
    BY <1>1, <1>3 DEF RecoverableInv, FilesOpen
  <2> QED BY <1>5, <2>1, EmptyRecorded
<1>7. call.at = "none" /\ call.messages = << >> /\ << >> \in Seq(Messages)
  BY <1>1, EmptySeq DEF NoCall
<1>8. DiskInv
  BY <1>1, <1>4, <1>5, <1>7 DEF DiskInv, Tidied, OpenTidy
<1>9. Held = HistOf(<< >>, files, fh)
  BY <1>1, <1>6, <1>7, HeldQuiet
<1>10. Held = Hist(<< >>, 0, -1, 0, 0, "None", 0, << >>, -1, 0, 0, 0)
  BY <1>1, <1>9, NoStream
<1>11. Durable!Nothing = Hist(<< >>, 0, -1, 0, 0, "None", 0, << >>, -1, 0, 0, 0)
  <2>1. Len(<< >>) = 0 /\ 0 - 1 = -1
    BY EmptySeq
  <2> QED BY <2>1 DEF Durable!Nothing, Durable!NewHistory, Durable!Size, Hist
<1>12. Recovered = << >>
  <2>1. server # "gone"
    BY <1>1
  <2> QED BY <1>3, <1>4, <1>5, <2>1, RecoveredIs
<1> QED BY <1>1, <1>7, <1>8, <1>10, <1>11, <1>12 DEF Durable!Init, Held

(* Every step is one of the abstract specification, or changes nothing     *)
(* that this speaks of.                                                    *)
LEMMA NextDurable ==
  ASSUME "ResetPending" \notin Features, DurableInv, RecoverableInv', [Next]_vars
  PROVE  DiskInv' /\ [Durable!Next]_(Durable!vars)
<1>1. CASE SessionNext
  <2> SUFFICES DiskInv' /\ (\/ Durable!Reset \/ Durable!ResolveStream \/ Durable!StartStream
                            \/ Durable!AddToStream \/ Durable!PrepareStream
                            \/ Durable!AbortAndAdd \/ Durable!Add \/ Durable!Save)
    <3>1. server = "up"
      BY <1>1 DEF SessionNext, Join, Rejoin, removeUser, Draw, StreamStart, StreamData,
                  StreamAbort, StreamFinish, FullReset, StreamResolve, Ready
    <3> QED BY <3>1 DEF Durable!Next
  <2>1. CASE \E name \in Names, id \in Clients : Join(name, id)
    BY <2>1, JoinDurable
  <2>2. CASE \E i \in DOMAIN clients : Rejoin(i) \/ removeUser(i)
    BY <2>2, RejoinDurable, RemoveUserDurable
  <2>3. CASE \E id \in Present : \/ Draw(id) \/ StreamStart(id) \/ StreamData(id)
                                 \/ StreamAbort(id) \/ StreamFinish(id)
    <3>1. Present \subseteq Clients
      BY PresentType DEF DurableInv
    <3> QED BY <2>3, <3>1, DrawDurable, StreamStartDurable, StreamDataDurable,
               StreamAbortDurable, StreamFinishDurable
  <2>4. CASE FullReset
    BY <2>4, FullResetDurable
  <2>5. CASE StreamResolve
    BY <2>5, StreamResolveDurable
  <2> QED BY <1>1, <2>1, <2>2, <2>3, <2>4, <2>5 DEF SessionNext
<1>2. CASE Proceed
  <2>1. server = "up"
    BY <1>2 DEF Proceed, resolveStreamedReset_journal, resolveStreamedReset_finish,
                reset_journal, reset_finish
  <2> QED BY <1>2, <2>1, ProceedDurable DEF Durable!Next
<1>3. CASE Flush \/ Fetch \/ CleanUp
  <2>1. server = "up"
    BY <1>3 DEF Flush, Fetch, CleanUp, Ready
  <2> QED BY <1>3, <2>1, FlushDurable, FetchDurable, CleanUpDurable DEF Durable!Next
<1>4. CASE Fail \/ Stop \/ End
  <2>1. server = "up"
    BY <1>4 DEF Fail, Crash, Stop, End, Ready
  <2>2. CASE Fail
    BY <2>1, <2>2, FailDurable, Zenon DEF Durable!Next
  <2>3. CASE Stop
    BY <2>1, <2>3, StopDurable, Zenon DEF Durable!Next
  <2>4. CASE End
    BY <2>1, <2>4, EndDurable, Zenon DEF Durable!Next
  <2> QED BY <1>4, <2>2, <2>3, <2>4
<1>5. CASE Restart
  <2>1. server = "down"
    BY <1>5 DEF Restart
  <2> QED BY <1>5, <2>1, RestartDurable DEF Durable!Next
<1>6. CASE Enter \/ UNCHANGED vars
  <2>1. UNCHANGED <<files, journal, fh, call, server>>
    BY <1>6 DEF Enter, vars
  <2>2. DiskInv'
    BY <2>1 DEF DiskInv, DurableInv, Tidied, OpenTidy
  <2>3. UNCHANGED Durable!vars
    BY <2>1 DEF Durable!vars, InMemory, SettledMessages, Settled, InReset, Streamed,
                StreamMessages, Recovered
  <2> QED BY <2>2, <2>3
<1> QED BY <1>1, <1>2, <1>3, <1>4, <1>5, <1>6 DEF Next

(* filedhistory.cpp keeps the promise of DurableHistory, at every step of  *)
(* every operation and between any two writes to the disk: when the server *)
(* stops it comes back with the first messages of the history it had, with *)
(* the whole of a streamed reset or none of it, and after a full reset     *)
(* with what was written of the new history, which may be nothing.  A full *)
(* reset while a stream is prepared is the exception, which ResetPending   *)
(* lets happen.                                                            *)
THEOREM FilesImplementDurable ==
  ASSUME "ResetPending" \notin Features
  PROVE  StoredSpec => ImplementsDurable
<1>1. StoredInit => DurableInv /\ Durable!Init
  BY InitRecoverable, InitIndex, InitDurable DEF DurableInv
<1>2. DurableInv /\ [Next]_vars => DurableInv' /\ [Durable!Next]_(Durable!vars)
  <2> SUFFICES ASSUME DurableInv, [Next]_vars
               PROVE  DurableInv' /\ [Durable!Next]_(Durable!vars)
    OBVIOUS
  <2>1. RecoverableInv' /\ IndexInv'
    BY NextRecoverable, NextIndexed DEF DurableInv
  <2>2. DiskInv' /\ [Durable!Next]_(Durable!vars)
    BY <2>1, NextDurable
  <2> QED BY <2>1, <2>2 DEF DurableInv
<1>3. StoredSpec => Durable!Spec
  BY <1>1, <1>2, PTL DEF StoredSpec, Durable!Spec
<1> QED BY <1>3 DEF ImplementsDurable

----------------------------------------------------------------------------
(* Who is in the session, by its messages.                                 *)

(* Nobody joins twice without leaving.                                     *)
Orderly(ms) ==
  \A i, j \in DOMAIN ms :
    i < j /\ ms[i].type = "Join" /\ ms[j] = ms[i] =>
      \E k \in i..j : ms[k] = LeaveMsg(ms[i].user)

(* The messages leave the users P in the session.                          *)
Attending(s, P) == s \in Seq(Messages) /\ Orderly(s) /\ UsersLeftIn(s) = P

(* After messages that leave P, more leave Q.                              *)
Brings(P, more, Q) == \A s \in Seq(Messages) : Attending(s, P) => Attending(s \o more, Q)

(* Messages that are nothing to the list of users.                         *)
Neutral == {m \in Messages : m.type \notin {"Join", "Leave"}}

(* The kinds of messages are told apart by their type.                     *)
LEMMA TypesAre ==
  /\ \A c : JoinMsg(c).type = "Join" /\ JoinMsg(c).user = c
            /\ LeaveMsg(c).type = "Leave" /\ LeaveMsg(c).user = c
  /\ \A m \in Messages : m.type = "Join" => m.user \in Clients /\ m = JoinMsg(m.user)
  /\ {ImageMsg(0), OwnerMsg(0), SoftResetMsg, CaughtUpMsg} \subseteq Neutral
  /\ \A c \in Clients : StreamStartMsg(c, 0) \in Neutral
  /\ \A c \in Clients, n \in Drawings : DrawMsg(c, n) \in Neutral
<1>1. \A c : JoinMsg(c).type = "Join" /\ JoinMsg(c).user = c
             /\ LeaveMsg(c).type = "Leave" /\ LeaveMsg(c).user = c
  BY DEF JoinMsg, LeaveMsg
<1>2. ASSUME NEW m \in Messages, m.type = "Join"
      PROVE  m.user \in Clients /\ m = JoinMsg(m.user)
  <2>1. PICK c \in Clients : m = JoinMsg(c)
    BY <1>2 DEF Messages, DrawMsg, LeaveMsg, StreamStartMsg, ImageMsg, OwnerMsg, SoftResetMsg,
                CaughtUpMsg
  <2> QED BY <1>1, <2>1
<1>3. {ImageMsg(0), OwnerMsg(0), SoftResetMsg, CaughtUpMsg} \subseteq Neutral
  BY MessagesAre DEF Neutral, ImageMsg, OwnerMsg, SoftResetMsg, CaughtUpMsg
<1>4. \A c \in Clients : StreamStartMsg(c, 0) \in Neutral
  BY MessagesAre DEF Neutral, StreamStartMsg
<1>5. \A c \in Clients, n \in Drawings : DrawMsg(c, n) \in Neutral
  BY MessagesAre DEF Neutral, DrawMsg
<1> QED BY <1>1, <1>2, <1>3, <1>4, <1>5

(* One message more.                                                       *)
LEMMA OneMoreIs ==
  ASSUME NEW s \in Seq(Messages), NEW m \in Messages
  PROVE  LET n == Len(s)
             t == s \o <<m>>
         IN /\ n \in Nat /\ t \in Seq(Messages) /\ Len(t) = n + 1 /\ t[n + 1] = m
            /\ DOMAIN s = 1 .. n /\ DOMAIN t = 1 .. (n + 1)
            /\ \A i \in 1 .. n : t[i] = s[i] /\ i \in 1 .. (n + 1)
<1> DEFINE o == <<m>>
<1>1. o \in Seq(Messages) /\ Len(o) = 1 /\ o[1] = m /\ 1 \in 1 .. Len(o)
  OBVIOUS
<1> HIDE DEF o
<1>2. /\ s \o o \in Seq(Messages) /\ Len(s \o o) = Len(s) + Len(o)
      /\ DOMAIN s = 1 .. Len(s) /\ DOMAIN (s \o o) = 1 .. Len(s) + Len(o) /\ Len(s) \in Nat
      /\ \A i \in 1 .. Len(s) : (s \o o)[i] = s[i]
      /\ \A i \in 1 .. Len(o) : (s \o o)[i + Len(s)] = o[i]
  <2>1. s \in Seq(Messages) /\ o \in Seq(Messages)
    BY <1>1
  <2>2. s \o o \in Seq(Messages) /\ Len(s \o o) = Len(s) + Len(o)
    BY <2>1, ConcatIs
  <2>3. DOMAIN s = 1 .. Len(s) /\ Len(s) \in Nat
    BY LenProperties
  <2>4. DOMAIN (s \o o) = 1 .. Len(s) + Len(o)
    BY <2>1, ConcatIs
  <2>5. \A i \in 1 .. Len(s) : (s \o o)[i] = s[i]
    BY <2>1, ConcatIs
  <2>6. \A i \in 1 .. Len(o) : (s \o o)[i + Len(s)] = o[i]
    BY <2>1, ConcatIs
  <2> QED BY <2>2, <2>3, <2>4, <2>5, <2>6
<1>3. (s \o o)[1 + Len(s)] = m
  BY <1>1, <1>2
<1>4. 1 + Len(s) = Len(s) + 1 /\ \A i \in 1 .. Len(s) : i \in 1 .. (Len(s) + 1)
  BY <1>2
<1> QED BY <1>1, <1>2, <1>3, <1>4 DEF o

(* Who has joined and not left, after one message more.                    *)
LEMMA LeftAfter ==
  ASSUME NEW s \in Seq(Messages), NEW m \in Messages, NEW c \in Clients
  PROVE  c \in UsersLeftIn(s \o <<m>>) <=>
           m = JoinMsg(c) \/ (c \in UsersLeftIn(s) /\ m # LeaveMsg(c))
<1> DEFINE n == Len(s)
           t == s \o <<m>>
           In(q, i) == q[i] = JoinMsg(c) /\ \A j \in (i + 1) .. Len(q) : q[j] # LeaveMsg(c)
<1>1. /\ n \in Nat /\ t \in Seq(Messages) /\ Len(t) = n + 1 /\ t[n + 1] = m
      /\ DOMAIN s = 1 .. n /\ DOMAIN t = 1 .. (n + 1)
      /\ \A i \in 1 .. n : t[i] = s[i] /\ i \in 1 .. (n + 1)
  BY OneMoreIs
<1>2. /\ c \in UsersLeftIn(s) <=> \E i \in 1 .. n : In(s, i)
      /\ c \in UsersLeftIn(t) <=> \E i \in 1 .. (n + 1) : In(t, i)
  BY <1>1 DEF UsersLeftIn
<1> HIDE DEF t
<1>3. In(t, n + 1) <=> m = JoinMsg(c)
  <2>1. (n + 1 + 1) .. (n + 1) = {}
    BY <1>1
  <2> QED BY <1>1, <2>1
<1>4. ASSUME NEW i \in 1 .. n PROVE In(t, i) <=> In(s, i) /\ m # LeaveMsg(c)
  <2>1. \A j : j \in (i + 1) .. (n + 1) <=> j \in (i + 1) .. n \/ j = n + 1
    BY <1>1
  <2>2. \A j \in (i + 1) .. n : t[j] = s[j]
    BY <1>1
  <2> QED BY <1>1, <2>1, <2>2
<1> HIDE DEF In
<1>5. \A i : i \in 1 .. (n + 1) <=> i \in 1 .. n \/ i = n + 1
  BY <1>1
<1> QED BY <1>2, <1>3, <1>4, <1>5 DEF t

(* A join of somebody who is not there, or another message.                *)
LEMMA OrderlyAfter ==
  ASSUME NEW s \in Seq(Messages), NEW m \in Messages, Orderly(s),
         m.type = "Join" => m.user \notin UsersLeftIn(s)
  PROVE  Orderly(s \o <<m>>)
<1> DEFINE n == Len(s)
           t == s \o <<m>>
<1>1. /\ n \in Nat /\ t \in Seq(Messages) /\ Len(t) = n + 1 /\ t[n + 1] = m
      /\ DOMAIN s = 1 .. n /\ DOMAIN t = 1 .. (n + 1)
      /\ \A i \in 1 .. n : t[i] = s[i] /\ i \in 1 .. (n + 1)
  BY OneMoreIs
<1> HIDE DEF t
<1> SUFFICES ASSUME NEW i \in 1 .. (n + 1), NEW j \in 1 .. (n + 1),
                    i < j, t[i].type = "Join", t[j] = t[i]
             PROVE  \E k \in i .. j : t[k] = LeaveMsg(t[i].user)
  BY <1>1 DEF Orderly, t
<1>2. i \in 1 .. n /\ t[i] = s[i]
  BY <1>1
<1>3. CASE j \in 1 .. n
  <2>1. t[j] = s[j]
    BY <1>1, <1>3
  <2>2. PICK k \in i .. j : s[k] = LeaveMsg(s[i].user)
    BY <1>1, <1>2, <1>3, <2>1 DEF Orderly
  <2>3. k \in 1 .. n
    BY <1>1, <1>3
  <2> QED BY <1>1, <1>2, <2>2, <2>3
<1>4. CASE j = n + 1
  <2>1. m = s[i] /\ m.type = "Join"
    BY <1>1, <1>2, <1>4
  <2>2. m.user \in Clients /\ s[i] = JoinMsg(m.user)
    BY <2>1, TypesAre
  <2>3. PICK k \in (i + 1) .. n : s[k] = LeaveMsg(m.user)
    BY <1>1, <1>2, <2>1, <2>2 DEF UsersLeftIn
  <2>4. k \in i .. j /\ k \in 1 .. n
    BY <1>1, <1>4
  <2> QED BY <1>1, <1>2, <2>1, <2>3, <2>4
<1> QED BY <1>1, <1>3, <1>4

(* What one message does to the users.                                     *)
LEMMA NeutralMoves ==
  ASSUME NEW m \in Neutral, NEW P
  PROVE  Brings(P, <<m>>, P)
<1> SUFFICES ASSUME NEW s \in Seq(Messages), Attending(s, P) PROVE Attending(s \o <<m>>, P)
  BY DEF Brings
<1>1. m \in Messages /\ \A c : m # JoinMsg(c) /\ m # LeaveMsg(c)
  BY TypesAre DEF Neutral
<1>2. Orderly(s \o <<m>>) /\ s \o <<m>> \in Seq(Messages)
  BY <1>1, OrderlyAfter, OneMoreIs DEF Attending, Neutral
<1>3. UsersLeftIn(s \o <<m>>) = UsersLeftIn(s)
  <2>1. UsersLeftIn(s \o <<m>>) \subseteq Clients /\ UsersLeftIn(s) \subseteq Clients
    BY DEF UsersLeftIn
  <2>2. \A c \in Clients : c \in UsersLeftIn(s \o <<m>>) <=> c \in UsersLeftIn(s)
    BY <1>1, LeftAfter
  <2> QED BY <2>1, <2>2
<1> QED BY <1>2, <1>3 DEF Attending

(* A join, ...                                                             *)
LEMMA JoinMoves ==
  ASSUME NEW c \in Clients, NEW P, c \notin P
  PROVE  Brings(P, <<JoinMsg(c)>>, P \cup {c})
<1> DEFINE m == JoinMsg(c)
<1> SUFFICES ASSUME NEW s \in Seq(Messages), Attending(s, P)
             PROVE  Attending(s \o <<m>>, P \cup {c})
  BY DEF Brings
<1>1. /\ m \in Messages /\ m.type = "Join" /\ m.user = c
      /\ \A d : (m = JoinMsg(d) <=> d = c) /\ m # LeaveMsg(d)
  BY TypesAre, MessagesAre
<1> HIDE DEF m
<1>2. Orderly(s \o <<m>>) /\ s \o <<m>> \in Seq(Messages)
  BY <1>1, OrderlyAfter, OneMoreIs DEF Attending
<1>3. UsersLeftIn(s \o <<m>>) = UsersLeftIn(s) \cup {c}
  <2>1. UsersLeftIn(s \o <<m>>) \subseteq Clients /\ UsersLeftIn(s) \subseteq Clients
    BY DEF UsersLeftIn
  <2>2. \A d \in Clients : d \in UsersLeftIn(s \o <<m>>) <=> d \in UsersLeftIn(s) \/ d = c
    BY <1>1, LeftAfter
  <2> QED BY <2>1, <2>2
<1> QED BY <1>2, <1>3 DEF Attending

(* ... and a leave.                                                        *)
LEMMA LeaveMoves ==
  ASSUME NEW c \in Clients, NEW P
  PROVE  Brings(P, <<LeaveMsg(c)>>, P \ {c})
<1> DEFINE m == LeaveMsg(c)
<1> SUFFICES ASSUME NEW s \in Seq(Messages), Attending(s, P)
             PROVE  Attending(s \o <<m>>, P \ {c})
  BY DEF Brings
<1>1. /\ m \in Messages /\ m.type = "Leave"
      /\ \A d : (m = LeaveMsg(d) <=> d = c) /\ m # JoinMsg(d)
  BY TypesAre, MessagesAre
<1> HIDE DEF m
<1>2. Orderly(s \o <<m>>) /\ s \o <<m>> \in Seq(Messages)
  BY <1>1, OrderlyAfter, OneMoreIs DEF Attending
<1>3. UsersLeftIn(s \o <<m>>) = UsersLeftIn(s) \ {c}
  <2>1. UsersLeftIn(s \o <<m>>) \subseteq Clients /\ UsersLeftIn(s) \subseteq Clients
    BY DEF UsersLeftIn
  <2>2. \A d \in Clients : d \in UsersLeftIn(s \o <<m>>) <=> d \in UsersLeftIn(s) /\ d # c
    BY <1>1, LeftAfter
  <2> QED BY <2>1, <2>2
<1> QED BY <1>2, <1>3 DEF Attending

(* No message, and some messages after others.                             *)
LEMMA NothingMoves ==
  ASSUME NEW P
  PROVE  Brings(P, << >>, P)
BY ConcatEmptySeq DEF Brings

(* Some messages, and then others.                                         *)
LEMMA MovesTwice ==
  ASSUME NEW P, NEW Q, NEW R, NEW a \in Seq(Messages), NEW b \in Seq(Messages),
         Brings(P, a, Q), Brings(Q, b, R)
  PROVE  Brings(P, a \o b, R)
<1> SUFFICES ASSUME NEW s \in Seq(Messages), Attending(s, P) PROVE Attending(s \o (a \o b), R)
  BY DEF Brings
<1>1. Attending(s \o a, Q)
  BY DEF Brings
<1>2. Attending((s \o a) \o b, R)
  BY <1>1 DEF Brings, Attending
<1>3. (s \o a) \o b = s \o (a \o b)
  BY ConcatAssociative
<1> QED BY <1>2, <1>3

(* What is left when the end is cut off.                                   *)
LEMMA OrderlyPrefix ==
  ASSUME NEW M, NEW t \in Seq(M), NEW s, Len(s) \in Nat, Durable!IsPrefixOf(s, t)
  PROVE  s \in Seq(M) /\ (Orderly(t) => Orderly(s))
<1> DEFINE k == Len(s)
<1>1. s = SubSeq(t, 1, k) /\ k <= Len(t) /\ Len(t) \in Nat /\ k \in Nat
  BY LenProperties DEF Durable!IsPrefixOf
<1>2. SubSeq(t, 1, k) \in Seq(M) /\ \A i \in 1 .. k : SubSeq(t, 1, k)[i] = t[i]
  <2> HIDE DEF k
  <2>1. /\ SubSeq(t, 1, k) \in Seq(M) /\ Len(SubSeq(t, 1, k)) = k - 1 + 1
        /\ \A i \in 1 .. (k - 1 + 1) : SubSeq(t, 1, k)[i] = t[1 + i - 1]
    BY <1>1, Slice
  <2>2. k - 1 + 1 = k /\ \A i \in 1 .. k : 1 + i - 1 = i
    BY <1>1
  <2> QED BY <2>1, <2>2
<1>3. /\ s \in Seq(M) /\ \A i \in 1 .. k : s[i] = t[i] /\ i \in 1 .. Len(t)
      /\ DOMAIN s = 1 .. k /\ DOMAIN t = 1 .. Len(t)
  <2>1. \A i \in 1 .. k : i \in 1 .. Len(t)
    BY <1>1
  <2>2. s \in Seq(M)
    BY <1>1, <1>2
  <2>3. DOMAIN s = 1 .. k
    BY <2>2, LenProperties
  <2>4. \A i \in 1 .. k : s[i] = t[i]
    <3> HIDE DEF k
    <3> QED BY <1>1, <1>2
  <2> QED BY <2>1, <2>2, <2>3, <2>4, LenProperties
<1>4. ASSUME Orderly(t) PROVE Orderly(s)
  <2> HIDE DEF k
  <2> SUFFICES ASSUME NEW i \in 1 .. k, NEW j \in 1 .. k, i < j, s[i].type = "Join", s[j] = s[i]
               PROVE  \E l \in i .. j : s[l] = LeaveMsg(s[i].user)
    BY <1>3 DEF Orderly
  <2>1. PICK l \in i .. j : t[l] = LeaveMsg(t[i].user)
    BY <1>3, <1>4 DEF Orderly
  <2>2. l \in 1 .. k
    BY <1>1
  <2> QED BY <1>3, <2>1, <2>2
<1> QED BY <1>3, <1>4

----------------------------------------------------------------------------
(* What joining and leaving add to the history.                            *)

Room(h, k) == hasEmergencySpaceFor(h, k)

(* A join or a leave is added when there is emergency space.               *)
LEMMA AddedSurely ==
  ASSUME NEW fs, NEW h, FilesOpen(fs, h), NEW m \in Messages, m.type \in {"Join", "Leave"},
         Room(h, 1)
  PROVE  Grows(h, addToHistory(h, m), <<m>>)
<1>1. addToHistory(h, m) = AddInternal(h, m)
  BY DEF addToHistory, Room
<1> QED BY <1>1, AddInternalGrows

(* Messages take as much of it as there are.                               *)
LEMMA RoomLeft ==
  ASSUME NEW h, NEW g, NEW more, Grows(h, g, more), Counts(h), NEW k \in Nat, NEW n \in Nat,
         Len(more) \in 0 .. n, Room(h, k + n)
  PROVE  Room(g, k)
<1> DEFINE a == h.sizeInBytes
           b == Len(more)
<1>1. g.sizeInBytes = a + b /\ a \in Int /\ b \in 0 .. n
  BY DEF Grows, Counts
<1>2. SizeLimit \in Nat /\ EmergencySpace \in Nat
  BY SessionHistoryAssumption
<1>3. SizeLimit = 0 \/ a + (k + n) <= SizeLimit + EmergencySpace
  BY DEF Room, hasEmergencySpaceFor, hasSpaceFor
<1> HIDE DEF a, b
<1>4. SizeLimit = 0 \/ (a + b) + k <= SizeLimit + EmergencySpace
  BY <1>1, <1>2, <1>3
<1> QED BY <1>1, <1>4 DEF Room, hasEmergencySpaceFor, hasSpaceFor

(* One message at most.                                                    *)
LEMMA PerhapsIs ==
  ASSUME NEW M, NEW m \in M, NEW more \in Perhaps(m)
  PROVE  more \in Seq(M) /\ Len(more) \in 0 .. 1
<1>1. <<m>> \in Seq(M) /\ Len(<<m>>) = 1
  OBVIOUS
<1>2. << >> \in Seq(M) /\ Len(<< >>) = 0
  BY EmptySeq
<1>3. more = << >> \/ more = <<m>>
  BY DEF Perhaps
<1>4. 0 \in 0 .. 1 /\ 1 \in 0 .. 1
  OBVIOUS
<1> QED BY <1>1, <1>2, <1>3, <1>4

(* Nothing, or a message that is about no user, moves nobody.              *)
LEMMA PerhapsNeutral ==
  ASSUME NEW m \in Neutral, NEW more \in Perhaps(m), NEW P
  PROVE  Brings(P, more, P)
BY NothingMoves, NeutralMoves DEF Perhaps

(* One message, and then another.                                          *)
LEMMA Together ==
  ASSUME NEW M, NEW a \in Seq(M), NEW b \in Seq(M), NEW n \in Nat, NEW k \in Nat,
         Len(a) \in 0 .. n, Len(b) \in 0 .. k
  PROVE  a \o b \in Seq(M) /\ Len(a \o b) \in 0 .. (n + k)
<1>1. a \o b \in Seq(M) /\ Len(a \o b) = Len(a) + Len(b)
  BY ConcatProperties
<1> QED BY <1>1

(* A sequence over a part is one over the whole.                           *)
LEMMA SeqIn ==
  ASSUME NEW M, NEW K, M \subseteq K, NEW a \in Seq(M)
  PROVE  a \in Seq(K)
<1>1. /\ Len(a) \in Nat /\ DOMAIN a = 1 .. Len(a)
      /\ \A i \in 1 .. Len(a) : a[i] \in M
  BY LenProperties, ElementOfSeq
<1>2. a = [i \in 1 .. Len(a) |-> a[i]]
  BY <1>1, InSequence DEF IsSequence
<1> QED BY <1>1, <1>2, IsASeq

(* A join.                                                                 *)
LEMMA JoinTells ==
  ASSUME NEW fs, NEW h, AllRecordings(fs), FilesOpen(fs, h), Tidied(fs, h), Counts(h),
         NEW c \in Clients
  PROVE  \E more \in Seq(Neutral \cup {JoinMsg(c)}) :
           /\ Grows(h, WithJoin(h, c), more) /\ Len(more) \in 0 .. 2
           /\ Room(h, 2) => \A P : c \notin P => Brings(P, more, P \cup {c})
<1> DEFINE M == Neutral \cup {JoinMsg(c)}
           m == JoinMsg(c)
           g == addMessage(h, CaughtUpMsg)
           k == addToHistory(g, m)
<1>1. /\ M \subseteq Messages /\ m \in Messages /\ m.type = "Join"
      /\ CaughtUpMsg \in Neutral /\ CaughtUpMsg \in Messages
  BY TypesAre, MessagesAre DEF Neutral
<1>2. PICK a \in Perhaps(CaughtUpMsg) : Grows(h, g, a)
  BY <1>1, AddedPerhaps
<1>3. a \in Seq(Messages) /\ a \in Seq(M) /\ Len(a) \in 0 .. 1
  BY <1>1, PerhapsIs
<1>4. FilesOpen(fs, g) /\ Counts(g) /\ Open(fs, h.recording)
  BY <1>2, <1>3, GrowsTidied DEF FilesOpen
<1> HIDE DEF g
<1>5. \E b \in Perhaps(m) : Grows(g, k, b) /\ (Room(g, 1) => b = <<m>>)
  <2>1. CASE Room(g, 1)
    <3>1. Grows(g, k, <<m>>)
      BY <1>1, <1>4, <2>1, AddedSurely
    <3> QED BY <3>1 DEF Perhaps
  <2>2. CASE ~Room(g, 1)
    BY <1>1, <1>4, <2>2, AddedPerhaps
  <2> QED BY <2>1, <2>2
<1>6. PICK b \in Perhaps(m) : Grows(g, k, b) /\ (Room(g, 1) => b = <<m>>)
  BY <1>5
<1> HIDE DEF k, m
<1>7. b \in Seq(Messages) /\ b \in Seq(M) /\ Len(b) \in 0 .. 1
  BY <1>1, PerhapsIs DEF m
<1>8. Grows(h, k, a \o b)
  BY <1>2, <1>3, <1>4, <1>6, <1>7, GrowsTwice
<1>9. a \o b \in Seq(M) /\ Len(a \o b) \in 0 .. 2
  <2>1. a \o b \in Seq(M) /\ Len(a \o b) \in 0 .. (1 + 1)
    <3> HIDE DEF M
    <3> QED BY <1>3, <1>7, Together
  <2> QED BY <2>1
<1>10. ASSUME Room(h, 2), NEW P, c \notin P PROVE Brings(P, a \o b, P \cup {c})
  <2>1. Room(g, 1)
    <3>1. 2 = 1 + 1
      OBVIOUS
    <3>2. Room(h, 1 + 1)
      BY <1>10, <3>1
    <3> QED BY <1>2, <1>3, <3>2, RoomLeft
  <2>2. Brings(P, a, P)
    BY <1>1, PerhapsNeutral
  <2>3. Brings(P, b, P \cup {c})
    BY <1>6, <1>10, <2>1, JoinMoves DEF m
  <2> QED BY <1>3, <1>7, <2>2, <2>3, MovesTwice
<1>11. WithJoin(h, c) = k
  BY DEF WithJoin, k, g, m
<1> QED BY <1>8, <1>9, <1>10, <1>11

(* A leave.                                                                *)
LEMMA LeaveTells ==
  ASSUME NEW fs, NEW h, NEW c \in Clients, NEW op, NEW others,
         LET a == AbortedBy(h, c)
         IN AllRecordings(fs) /\ FilesOpen(fs, a) /\ Tidied(fs, a) /\ Counts(a)
  PROVE  \E more \in Seq(Neutral \cup {LeaveMsg(c)}) :
           /\ Grows(AbortedBy(h, c), WithLeave(h, c, op, others), more) /\ Len(more) \in 0 .. 2
           /\ Room(AbortedBy(h, c), 1) => \A P : Brings(P, more, P \ {c})
<1> DEFINE M == Neutral \cup {LeaveMsg(c)}
           m == LeaveMsg(c)
           x == AbortedBy(h, c)
           g == addToHistory(x, m)
           k == WithLeave(h, c, op, others)
<1>1. /\ M \subseteq Messages /\ m \in Messages /\ m.type = "Leave"
      /\ OwnerMsg(0) \in Neutral /\ OwnerMsg(0) \in Messages
  BY TypesAre, MessagesAre DEF Neutral
<1>2. AllRecordings(fs) /\ FilesOpen(fs, x) /\ Tidied(fs, x) /\ Counts(x)
  OBVIOUS
<1>3. k \in {g, addMessage(g, OwnerMsg(0)), addToHistory(g, OwnerMsg(0))}
  BY DEF WithLeave
<1> HIDE DEF x, k
<1>4. \E a \in Perhaps(m) : Grows(x, g, a) /\ (Room(x, 1) => a = <<m>>)
  <2>1. CASE Room(x, 1)
    <3>1. Grows(x, g, <<m>>)
      BY <1>1, <1>2, <2>1, AddedSurely
    <3> QED BY <3>1 DEF Perhaps
  <2>2. CASE ~Room(x, 1)
    BY <1>1, <1>2, <2>2, AddedPerhaps
  <2> QED BY <2>1, <2>2
<1> HIDE DEF g
<1>5. PICK a \in Perhaps(m) : Grows(x, g, a) /\ (Room(x, 1) => a = <<m>>)
  BY <1>4
<1>6. a \in Seq(Messages) /\ a \in Seq(M) /\ Len(a) \in 0 .. 1
  BY <1>1, PerhapsIs
<1>7. FilesOpen(fs, g) /\ Counts(g) /\ Open(fs, x.recording)
  BY <1>2, <1>5, <1>6, GrowsTidied DEF FilesOpen
<1>8. PICK b \in Perhaps(OwnerMsg(0)) : Grows(g, k, b)
  BY <1>1, <1>3, <1>7, AddedPerhaps
<1>9. b \in Seq(Messages) /\ b \in Seq(M) /\ Len(b) \in 0 .. 1
  BY <1>1, PerhapsIs
<1>10. Grows(x, k, a \o b)
  BY <1>2, <1>5, <1>6, <1>7, <1>8, <1>9, GrowsTwice
<1>11. a \o b \in Seq(M) /\ Len(a \o b) \in 0 .. 2
  <2>1. a \o b \in Seq(M) /\ Len(a \o b) \in 0 .. (1 + 1)
    <3> HIDE DEF M
    <3> QED BY <1>6, <1>9, Together
  <2> QED BY <2>1
<1>12. ASSUME Room(x, 1), NEW P PROVE Brings(P, a \o b, P \ {c})
  <2>1. Brings(P, a, P \ {c})
    BY <1>5, <1>12, LeaveMoves
  <2>2. Brings(P \ {c}, b, P \ {c})
    BY <1>1, PerhapsNeutral
  <2> QED BY <1>6, <1>9, <2>1, <2>2, MovesTwice
<1> QED BY <1>10, <1>11, <1>12 DEF x, k

(* To abort a stream takes no space.                                       *)
LEMMA AbortRoom ==
  ASSUME NEW fs, NEW h, NEW c, FilesOpen(fs, h), NEW k
  PROVE  Room(AbortedBy(h, c), k) <=> Room(h, k)
<1>1. AbortedBy(h, c).sizeInBytes = h.sizeInBytes
  BY AbortIs DEF Fields
<1> QED BY <1>1 DEF Room, hasEmergencySpaceFor, hasSpaceFor

----------------------------------------------------------------------------
(* What a step tells.                                                      *)

(* Nothing, or one message that is nothing to the list of users.           *)
Little == {<< >>} \cup {<<m>> : m \in Neutral}

(* A stream that goes on, with a message more or not.                      *)
GoesOn(h, g) ==
  g.resetStreamState # "None" =>
    /\ h.resetStreamState # "None" /\ g.resetStreamIndex = h.resetStreamIndex
    /\ \/ g.resetStream = h.resetStream
       \/ \E m \in Neutral : g.resetStream = Append(h.resetStream, m)

(* The history g is h and more.                                            *)
Told(h, g, more) ==
  more \in Seq(Messages) /\ g.messages = h.messages \o more /\ GoesOn(h, g)

(* The stream has taken the place of h.                                    *)
Replaced(h, g) ==
  /\ h.resetStreamState # "None" /\ g.resetStreamState = "None"
  /\ g.messages = Durable!ResolvedMessages(h)

(* A little moves nobody.                                                  *)
LEMMA LittleIs ==
  ASSUME NEW more \in Little
  PROVE  /\ more \in Seq(Messages) /\ more \in Seq(Neutral) /\ \A P : Brings(P, more, P)
<1>1. CASE more = << >>
  BY <1>1, EmptySeq, NothingMoves
<1>2. CASE \E m \in Neutral : more = <<m>>
  <2>1. PICK m \in Neutral : more = <<m>>
    BY <1>2
  <2>2. m \in Messages
    BY DEF Neutral
  <2>3. <<m>> \in Seq(Messages) /\ <<m>> \in Seq(Neutral)
    BY <2>2
  <2> QED BY <2>1, <2>3, NeutralMoves
<1> QED BY <1>1, <1>2 DEF Little

(* Nothing, or a message that is about no user, is little.                 *)
LEMMA PerhapsLittle ==
  ASSUME NEW m \in Neutral, NEW more \in Perhaps(m)
  PROVE  more \in Little
BY DEF Perhaps, Little

(* The history in memory is one.                                           *)
LEMMA HeldHist ==
  /\ IsHist(Held) /\ Held.messages = SettledMessages
  /\ Held.resetStreamState = Settled.resetStreamState
<1> DEFINE h == Settled
           s == Streamed(h)
<1>1. Held = Hist(SettledMessages, h.firstIndex, h.lastIndex, h.sizeInBytes, h.autoResetBaseSize,
                  h.resetStreamState, h.ctxId, s.messages, s.index, s.size, s.start, s.count)
  BY HeldIs
<1> HIDE DEF h, s
<1> QED BY <1>1, HistHas DEF h

(* A stream is as it was when messages are added, if it is not given up.   *)
LEMMA AddedGoesOn ==
  ASSUME Durable!Add \/ Durable!AbortAndAdd
  PROVE  GoesOn(Held, Held')
<1> SUFFICES ASSUME Held'.resetStreamState # "None" PROVE GoesOn(Held, Held')
  BY DEF GoesOn
<1>1. IsHist(Held)
  BY HeldHist
<1>2. ASSUME NEW h, IsHist(h), NEW more,
             Held' = Durable!Live(Durable!addMessageInternal(h, more))
      PROVE  /\ h.resetStreamState # "None" /\ Held'.resetStream = h.resetStream
             /\ Held'.resetStreamIndex = h.resetStreamIndex
  <2> DEFINE ms   == h.messages \o more
             last == h.lastIndex + Len(more)
             size == h.sizeInBytes + Len(more)
  <2>1. h.resetStreamState = "None" =>
          Held' = Hist(ms, h.firstIndex, last, size, h.autoResetBaseSize, "None", h.ctxId,
                       << >>, -1, 0, 0, 0)
    BY <1>2, LiveAdded
  <2>2. h.resetStreamState # "None" =>
          Held' = Hist(ms, h.firstIndex, last, size, h.autoResetBaseSize, h.resetStreamState,
                       h.ctxId, h.resetStream, h.resetStreamIndex, h.resetStreamSize,
                       h.resetStreamStartIndex, h.resetStreamMessageCount)
    BY <1>2, LiveAdded
  <2> HIDE DEF ms, last, size
  <2>3. h.resetStreamState # "None"
    BY <2>1, HistHas
  <2> QED BY <2>2, <2>3, HistHas
<1>3. CASE Durable!Add
  <2>1. \E more : Held' = Durable!Live(Durable!addMessageInternal(Held, more))
    BY <1>3 DEF Durable!Add, Durable!Extended, Durable!Becomes, Held
  <2>2. /\ Held.resetStreamState # "None" /\ Held'.resetStream = Held.resetStream
        /\ Held'.resetStreamIndex = Held.resetStreamIndex
    BY <1>1, <1>2, <2>1
  <2> QED BY <2>2 DEF GoesOn
<1>4. CASE Durable!AbortAndAdd
  <2> DEFINE a == Durable!abortStreamedReset(Held, Held.ctxId)
  <2>1. Held.resetStreamState = "Streaming"
        /\ \E more : Held' = Durable!Live(Durable!addMessageInternal(a, more))
    BY <1>4 DEF Durable!AbortAndAdd, Durable!Extended, Durable!Becomes, Held
  <2>2. IsHist(a) /\ a.resetStreamState = "None"
    BY <1>1, <2>1, AbortedHas
  <2> HIDE DEF a
  <2> QED BY <1>2, <2>1, <2>2
<1> QED BY <1>3, <1>4

(* Messages in memory and on the disk are such.                            *)
LEMMA HeldMessages ==
  ASSUME DurableInv
  PROVE  Held.messages \in Seq(Messages)
<1>1. CASE server # "up"
  <2>1. call = NoCall
    BY <1>1 DEF DurableInv, RecoverableInv
  <2>3. ~InReset
    BY <2>1 DEF InReset, NoCall
  <2>4. SettledMessages = << >>
    BY <1>1, <2>3 DEF SettledMessages
  <2>2. << >> \in Seq(Messages)
    BY EmptySeq
  <2> QED BY <2>2, <2>4, HeldHist
<1>2. CASE server = "up" /\ InReset
  BY <1>2, HeldHist DEF SettledMessages, DurableInv, DiskInv
<1>3. CASE server = "up" /\ ~InReset
  <2>1. /\ AllRecordings(files) /\ FilesOpen(files, fh) /\ Tidied(files, fh)
        /\ call.at = "journalled" => fh.streamRecording # NoFile
    BY <1>3 DEF DurableInv, RecoverableInv, DiskInv, Named
  <2>2. Held.messages = Recorded(files, Settled.recording)
    BY <1>3, HeldHist DEF SettledMessages
  <2>3. CASE call.at = "journalled"
    <3>1. Settled.recording = fh.streamRecording
      <4>1. Settled = Resolved(fh)
        BY <2>3 DEF Settled
      <4>2. Resolved(fh).recording = fh.streamRecording
        BY <2>1 DEF Resolved, FilesOpen, Fields
      <4> QED BY <4>1, <4>2
    <3>2. Open(files, fh.streamRecording) /\ OpenTidy(files, fh.streamRecording)
      BY <2>1, <2>3 DEF FilesOpen, Tidied
    <3>3. Recorded(files, fh.streamRecording) \in Seq(Messages)
      BY <2>1, <3>2, TidyRecorded
    <3> QED BY <2>2, <3>1, <3>3
  <2>4. CASE call.at # "journalled"
    <3>1. Settled = fh
      BY <2>4 DEF Settled
    <3>2. Open(files, fh.recording) /\ OpenTidy(files, fh.recording)
      BY <2>1 DEF FilesOpen, Tidied
    <3>3. Recorded(files, fh.recording) \in Seq(Messages)
      BY <2>1, <3>2, TidyRecorded
    <3> QED BY <2>2, <3>1, <3>3
  <2> QED BY <2>3, <2>4
<1> QED BY <1>1, <1>2, <1>3

(* What is on the disk are messages, ...                                   *)
LEMMA SavedMessages ==
  ASSUME RecoverableInv, DiskInv, server # "gone"
  PROVE  Recovered \in Seq(Messages)
BY RecoveredIs DEF DiskInv, Tidy, Holds

(* ... also after a step.                                                  *)
LEMMA SavedMessagesNext ==
  ASSUME RecoverableInv', DiskInv', server' # "gone"
  PROVE  Recovered' \in Seq(Messages)
BY RecoveredNext DEF DiskInv, Tidy, Holds

(* A step that says nothing.                                               *)
LEMMA NothingTold ==
  ASSUME DurableInv, Held'.messages = Held.messages, GoesOn(Held, Held')
  PROVE  \E more \in Little : Told(Held, Held', more)
<1>1. Held.messages = Held.messages \o << >> /\ << >> \in Seq(Messages)
  BY HeldMessages, ConcatEmptySeq, EmptySeq
<1>2. << >> \in Little
  BY DEF Little
<1> QED BY <1>1, <1>2 DEF Told

(* A step that leaves the history as it is tells nothing.                  *)
LEMMA SameTold ==
  ASSUME DurableInv, Held' = Held
  PROVE  \E more \in Little : Told(Held, Held', more)
BY NothingTold DEF GoesOn

(* To prepare a stream says nothing to the session.                        *)
LEMMA PreparedTold ==
  ASSUME DurableInv, Durable!PrepareStream
  PROVE  \E more \in Little : Told(Held, Held', more)
<1>1. IsHist(Held) /\ Held.resetStreamState = "Streaming"
  BY HeldHist DEF Durable!PrepareStream, Held
<1>2. PICK expected \in {0, Held.resetStreamMessageCount} :
        Held' = Durable!Live(Durable!prepareStreamedReset(Held, Held.ctxId, expected))
  BY DEF Durable!PrepareStream, Durable!Becomes, Held
<1>3. CaughtUpMsg \in Neutral
  BY TypesAre
<1>4. CASE expected # 0
  <2> DEFINE longer == Append(Held.resetStream, CaughtUpMsg)
  <2>1. Held' = Hist(Held.messages, Held.firstIndex, Held.lastIndex, Held.sizeInBytes,
                     Held.autoResetBaseSize, "Prepared", 0, longer,
                     Held.resetStreamIndex, Held.resetStreamSize, Held.resetStreamStartIndex,
                     Held.resetStreamMessageCount)
    BY <1>1, <1>2, <1>4, PreparedHas
  <2>2. longer = Append(Held.resetStream, CaughtUpMsg)
    OBVIOUS
  <2> HIDE DEF longer
  <2>3. /\ Held'.messages = Held.messages /\ Held'.resetStream = longer
        /\ Held'.resetStreamIndex = Held.resetStreamIndex
    BY <2>1, HistHas
  <2>4. Held.resetStreamState # "None"
    BY <1>1
  <2>5. GoesOn(Held, Held')
    BY <1>3, <2>2, <2>3, <2>4 DEF GoesOn
  <2> QED BY <2>3, <2>5, NothingTold
<1>5. CASE expected = 0
  <2>1. Held' = Hist(Held.messages, Held.firstIndex, Held.lastIndex, Held.sizeInBytes,
                     Held.autoResetBaseSize, "None", 0, << >>, -1, 0, 0, 0)
    BY <1>1, <1>2, <1>5, RefusedHas
  <2>2. Held'.messages = Held.messages /\ Held'.resetStreamState = "None"
    BY <2>1, HistHas
  <2> QED BY <2>2, NothingTold DEF GoesOn
<1> QED BY <1>4, <1>5

(* A prepared stream takes the place of the history or is given up.        *)
LEMMA ResolvedTold ==
  ASSUME DurableInv, Durable!ResolveStream
  PROVE  Replaced(Held, Held') \/ \E more \in Little : Told(Held, Held', more)
<1>1. IsHist(Held) /\ Held.resetStreamState = "Prepared"
      /\ Held' = Durable!Live(Durable!resolveStreamedReset(Held))
  BY HeldHist DEF Durable!ResolveStream, Durable!isResetStreamPending, Held
<1>2. CASE Durable!resolveOk(Held)
  <2> DEFINE ms   == Durable!ResolvedMessages(Held)
             n    == Len(ms)
             from == Held.lastIndex + 1
             to   == Held.lastIndex + n
  <2>1. Held' = Hist(ms, from, to, n, Held.resetStreamSize, "None", 0, << >>, -1, 0, 0, 0)
    BY <1>1, <1>2, TakenPlaceHas
  <2>2. ms = Durable!ResolvedMessages(Held)
    OBVIOUS
  <2> HIDE DEF ms, n, from, to
  <2>3. Held'.messages = ms /\ Held'.resetStreamState = "None"
    BY <2>1, HistHas
  <2> QED BY <1>1, <2>2, <2>3 DEF Replaced
<1>3. CASE ~Durable!resolveOk(Held)
  <2>1. Held' = Hist(Held.messages, Held.firstIndex, Held.lastIndex, Held.sizeInBytes,
                     Held.autoResetBaseSize, "None", 0, << >>, -1, 0, 0, 0)
    BY <1>1, <1>3, GivenUpHas
  <2>2. Held'.messages = Held.messages /\ Held'.resetStreamState = "None"
    BY <2>1, HistHas
  <2> QED BY <2>2, NothingTold DEF GoesOn
<1> QED BY <1>2, <1>3

(* A step that adds messages when nothing else is going on.                *)
LEMMA GrownTold ==
  ASSUME DurableInv, Ready, RecoverableInv', UNCHANGED <<journal, call, server>>,
         NEW h, AllRecordings(files'), FilesOpen(files', h), Tidied(files', h), Counts(h),
         Recorded(files', h.recording) = Recorded(files, fh.recording),
         NEW more \in Seq(Messages), Grows(h, fh', more), Durable!Add \/ Durable!AbortAndAdd
  PROVE  Told(Held, Held', more)
<1> DEFINE fs == files'
           f  == h.recording
           g  == fh'.recording
           ms == Recorded(files, fh.recording)
<1>1. Tidied(files', fh')
  BY GrowsTidied
<1>2. Recorded(fs, g) = ms \o more
  <2>1. AllRecordings(fs) /\ Open(fs, f) /\ OpenTidy(fs, f) /\ Longer(f, g, more)
    BY DEF FilesOpen, Tidied, Grows
  <2>2. Recorded(fs, f) = ms
    OBVIOUS
  <2> HIDE DEF fs, f, g, ms
  <2>3. Recorded(fs, g) = Recorded(fs, f) \o more
    BY <2>1, LongerIs
  <2> QED BY <2>2, <2>3
<1>3. Held = HistOf(ms, files, fh)
  BY ReadyDisk
<1>4. Held' = HistOf(Recorded(fs, g), fs, fh')
  BY <1>1, QuietDisk
<1> HIDE DEF fs, g, ms
<1>5. Held.messages = ms
  BY <1>3, HistOfHas
<1> DEFINE all == Recorded(fs, g)
           k   == fh'
<1>6. Held' = HistOf(all, fs, k)
  BY <1>4
<1>7. all = ms \o more
  BY <1>2
<1> HIDE DEF all, k
<1>8. Held'.messages = all
  BY <1>6, HistOfHas
<1> QED BY <1>5, <1>7, <1>8, AddedGoesOn DEF Told

(* A user joins.                                                           *)
LEMMA JoinTold ==
  ASSUME DurableInv, RecoverableInv', NEW name \in Names, NEW id \in Clients, Join(name, id)
  PROVE  \E more \in Seq(Neutral \cup {JoinMsg(id)}) :
           /\ Told(Held, Held', more)
           /\ Room(fh, 2) => \A P : id \notin P => Brings(P, more, P \cup {id})
<1> DEFINE h == WithJoin(fh, id)
           M == Neutral \cup {JoinMsg(id)}
<1>1. /\ Ready /\ UNCHANGED <<journal, call, server>> /\ files' = files
      /\ fh' \in {h, addToHistory(h, OwnerMsg(0))}
  BY DEF Join
<1>2. AllRecordings(files) /\ FilesOpen(files, fh) /\ Tidied(files, fh) /\ Counts(fh)
  BY <1>1, ReadyDisk
<1>3. PICK a \in Seq(M) :
        /\ Grows(fh, h, a)
        /\ Room(fh, 2) => \A P : id \notin P => Brings(P, a, P \cup {id})
  BY <1>2, JoinTells
<1> HIDE DEF h
<1>4. M \subseteq Messages /\ OwnerMsg(0) \in Neutral /\ OwnerMsg(0) \in Messages
  BY TypesAre, MessagesAre DEF Neutral
<1>5. a \in Seq(Messages)
  <2> HIDE DEF M
  <2> QED BY <1>3, <1>4, SeqIn
<1>6. FilesOpen(files, h) /\ Tidied(files, h) /\ Counts(h) /\ Open(files, fh.recording)
  BY <1>2, <1>3, <1>5, GrowsTidied DEF FilesOpen
<1>7. PICK b \in Perhaps(OwnerMsg(0)) : Grows(h, fh', b)
  <2>1. fh' \in {h, addMessage(h, OwnerMsg(0)), addToHistory(h, OwnerMsg(0))}
    BY <1>1
  <2> QED BY <1>4, <1>6, <2>1, AddedPerhaps
<1>8. b \in Seq(Messages) /\ b \in Seq(M) /\ \A P : Brings(P, b, P)
  BY <1>4, PerhapsIs, PerhapsNeutral
<1>9. Grows(fh, fh', a \o b) /\ a \o b \in Seq(Messages) /\ a \o b \in Seq(M)
  <2>1. a \o b \in Seq(Messages)
    BY <1>5, <1>8, ConcatProperties
  <2>2. a \o b \in Seq(M)
    <3> HIDE DEF M
    <3> QED BY <1>3, <1>8, ConcatProperties
  <2>3. Grows(fh, fh', a \o b)
    BY <1>2, <1>3, <1>5, <1>6, <1>7, <1>8, GrowsTwice
  <2> QED BY <2>1, <2>2, <2>3
<1>10. Told(Held, Held', a \o b)
  <2>1. Durable!Add
    BY JoinDurable
  <2>2. AllRecordings(files') /\ FilesOpen(files', fh) /\ Tidied(files', fh)
        /\ Recorded(files', fh.recording) = Recorded(files, fh.recording)
    BY <1>1, <1>2
  <2> QED BY <1>1, <1>2, <1>9, <2>1, <2>2, GrownTold
<1>11. ASSUME Room(fh, 2), NEW P, id \notin P PROVE Brings(P, a \o b, P \cup {id})
  <2>1. Brings(P, a, P \cup {id})
    BY <1>3, <1>11
  <2> QED BY <1>5, <1>8, <2>1, MovesTwice
<1> QED BY <1>9, <1>10, <1>11

(* A user leaves.                                                          *)
LEMMA RemoveUserTold ==
  ASSUME DurableInv, RecoverableInv', NEW i \in DOMAIN clients, removeUser(i)
  PROVE  LET id == clients[i].id
         IN \E more \in Seq(Neutral \cup {LeaveMsg(id)}) :
              /\ Told(Held, Held', more)
              /\ Room(fh, 1) => \A P : Brings(P, more, P \ {id})
<1> DEFINE id == clients[i].id
           M == Neutral \cup {LeaveMsg(id)}
           a == AbortedBy(fh, id)
           others == Others(i)
<1>1. /\ Ready /\ UNCHANGED <<journal, call, server>>
      /\ files' = filesAfterAbort(files, fh, id) /\ fh' = WithLeave(fh, id, i = 1, others)
  BY DEF removeUser
<1>2. id \in Clients
  BY OthersType DEF DurableInv, RecoverableInv, ClientsType
<1>3. /\ AllRecordings(files') /\ FilesOpen(files', a) /\ Tidied(files', a) /\ Counts(a)
      /\ Recorded(files', a.recording) = Recorded(files, fh.recording)
  BY <1>1, ReadyDisk, AbortTidied
<1>4. Durable!Add \/ Durable!AbortAndAdd
  BY RemoveUserDurable
<1>5. Room(a, 1) <=> Room(fh, 1)
  BY <1>1, ReadyDisk, AbortRoom
<1> DEFINE op == i = 1
<1> HIDE DEF id, others, op
<1>6. PICK more \in Seq(M) :
        /\ Grows(a, fh', more)
        /\ Room(a, 1) => \A P : Brings(P, more, P \ {id})
  <2>1. fh' = WithLeave(fh, id, op, others)
    BY <1>1 DEF op
  <2> QED BY <1>2, <1>3, <2>1, LeaveTells
<1> HIDE DEF a
<1>7. M \subseteq Messages
  BY <1>2, MessagesAre DEF Neutral
<1>8. more \in Seq(Messages)
  <2> HIDE DEF M
  <2> QED BY <1>6, <1>7, SeqIn
<1>9. Told(Held, Held', more)
  BY <1>1, <1>3, <1>4, <1>6, <1>8, GrownTold
<1> QED BY <1>5, <1>6, <1>9 DEF id

(* A user comes back by another connection.                                *)
LEMMA RejoinTold ==
  ASSUME DurableInv, RecoverableInv', NEW i \in DOMAIN clients, Rejoin(i)
  PROVE  LET id == clients[i].id
         IN \E more \in Seq(Neutral \cup {LeaveMsg(id), JoinMsg(id)}) :
              /\ Told(Held, Held', more)
              /\ Room(fh, 4) => \A P : Brings(P, more, P \cup {id})
<1> DEFINE id == clients[i].id
           M == Neutral \cup {LeaveMsg(id), JoinMsg(id)}
           a == AbortedBy(fh, id)
           rejoined == Append(Others(i), clients[i])
           h == WithLeave(fh, id, i = 1, rejoined)
<1>1. /\ Ready /\ UNCHANGED <<journal, call, server>>
      /\ files' = filesAfterAbort(files, fh, id) /\ fh' = WithJoin(h, id)
  BY DEF Rejoin
<1>2. id \in Clients
  BY OthersType DEF DurableInv, RecoverableInv, ClientsType
<1>3. /\ AllRecordings(files') /\ FilesOpen(files', a) /\ Tidied(files', a) /\ Counts(a)
      /\ Recorded(files', a.recording) = Recorded(files, fh.recording)
  BY <1>1, ReadyDisk, AbortTidied
<1>4. Durable!Add \/ Durable!AbortAndAdd
  BY RejoinDurable
<1>5. Room(a, 4) <=> Room(fh, 4)
  BY <1>1, ReadyDisk, AbortRoom
<1> DEFINE op == i = 1
<1> HIDE DEF id, rejoined, op
<1>6. PICK b \in Seq(Neutral \cup {LeaveMsg(id)}) :
        /\ Grows(a, h, b) /\ Len(b) \in 0 .. 2
        /\ Room(a, 1) => \A P : Brings(P, b, P \ {id})
  <2>1. h = WithLeave(fh, id, op, rejoined)
    BY DEF op
  <2> HIDE DEF h
  <2> QED BY <1>2, <1>3, <2>1, LeaveTells
<1> HIDE DEF a, h
<1>7. M \subseteq Messages /\ Neutral \cup {LeaveMsg(id)} \subseteq M
      /\ Neutral \cup {JoinMsg(id)} \subseteq M
  BY <1>2, MessagesAre DEF Neutral
<1>8. b \in Seq(M) /\ b \in Seq(Messages)
  <2>1. b \in Seq(M)
    BY <1>6, <1>7, SeqIn
  <2> HIDE DEF M
  <2> QED BY <1>7, <2>1, SeqIn
<1>9. FilesOpen(files', h) /\ Tidied(files', h) /\ Counts(h) /\ Open(files', a.recording)
  BY <1>3, <1>6, <1>8, GrowsTidied DEF FilesOpen
<1>10. PICK c \in Seq(Neutral \cup {JoinMsg(id)}) :
        /\ Grows(h, fh', c) /\ Len(c) \in 0 .. 2
        /\ Room(h, 2) => \A P : id \notin P => Brings(P, c, P \cup {id})
  BY <1>1, <1>2, <1>3, <1>9, JoinTells
<1>11. c \in Seq(M) /\ c \in Seq(Messages)
  <2>1. c \in Seq(M)
    BY <1>7, SeqIn
  <2> HIDE DEF M
  <2> QED BY <1>7, <2>1, SeqIn
<1>12. b \o c \in Seq(M) /\ b \o c \in Seq(Messages) /\ Grows(a, fh', b \o c)
  <2>1. b \o c \in Seq(Messages)
    BY <1>8, <1>11, ConcatProperties
  <2>2. b \o c \in Seq(M)
    <3> HIDE DEF M
    <3> QED BY <1>8, <1>11, ConcatProperties
  <2>3. Grows(a, fh', b \o c)
    BY <1>3, <1>6, <1>8, <1>9, <1>10, <1>11, GrowsTwice
  <2> QED BY <2>1, <2>2, <2>3
<1>13. Told(Held, Held', b \o c)
  BY <1>1, <1>3, <1>4, <1>12, GrownTold
<1>14. ASSUME Room(fh, 4), NEW P PROVE Brings(P, b \o c, P \cup {id})
  <2>1. Room(a, 2 + 2)
    <3>1. 2 + 2 = 4
      OBVIOUS
    <3> QED BY <1>5, <1>14, <3>1
  <2>2. Room(h, 2)
    BY <1>3, <1>6, <2>1, RoomLeft
  <2>3. Room(a, 1)
    BY <1>3, <2>1, SessionHistoryAssumption DEF Room, hasEmergencySpaceFor, hasSpaceFor, Counts
  <2>4. Brings(P, b, P \ {id})
    BY <1>6, <2>3
  <2>5. Brings(P \ {id}, c, (P \ {id}) \cup {id})
    BY <1>10, <2>2
  <2>6. (P \ {id}) \cup {id} = P \cup {id}
    OBVIOUS
  <2>7. Brings(P \ {id}, c, P \cup {id})
    BY <2>5, <2>6
  <2> QED BY <1>8, <1>11, <2>4, <2>7, MovesTwice
<1> QED BY <1>12, <1>13, <1>14 DEF id

(* A step that leaves the users alone says little, or replaces the         *)
(* history by the stream.                                                  *)
LEMMA QuietTold ==
  ASSUME DurableInv, RecoverableInv',
         \/ \E id \in Clients : Draw(id) \/ StreamData(id) \/ StreamAbort(id) \/ StreamFinish(id)
         \/ StreamResolve \/ Proceed \/ Flush \/ Fetch \/ CleanUp \/ Enter \/ UNCHANGED vars
  PROVE  Replaced(Held, Held') \/ \E more \in Little : Told(Held, Held', more)
<1>1. ASSUME NEW id \in Clients, Draw(id)
      PROVE  \E more \in Little : Told(Held, Held', more)
  <2>1. /\ Ready /\ UNCHANGED <<journal, call, server>> /\ files' = files
        /\ \E n \in Drawings : fh' = addToHistory(fh, DrawMsg(id, n))
    BY <1>1 DEF Draw
  <2>2. PICK n \in Drawings : fh' = addToHistory(fh, DrawMsg(id, n))
    BY <2>1
  <2>3. /\ AllRecordings(files) /\ FilesOpen(files, fh) /\ Tidied(files, fh) /\ Counts(fh)
        /\ DrawMsg(id, n) \in Neutral /\ DrawMsg(id, n) \in Messages
    BY <2>1, ReadyDisk, TypesAre DEF Neutral
  <2>4. PICK more \in Perhaps(DrawMsg(id, n)) : Grows(fh, fh', more)
    BY <2>2, <2>3, AddedPerhaps
  <2>5. more \in Little /\ more \in Seq(Messages)
    BY <2>3, PerhapsLittle, LittleIs
  <2>6. AllRecordings(files') /\ FilesOpen(files', fh) /\ Tidied(files', fh)
        /\ Recorded(files', fh.recording) = Recorded(files, fh.recording)
    BY <2>1, <2>3
  <2>7. Durable!Add
    BY <1>1, DrawDurable
  <2>8. Told(Held, Held', more)
    BY <2>1, <2>3, <2>4, <2>5, <2>6, <2>7, GrownTold
  <2> QED BY <2>5, <2>8
<1>2. ASSUME NEW id \in Clients, StreamAbort(id)
      PROVE  \E more \in Little : Told(Held, Held', more)
  <2> DEFINE a == AbortedBy(fh, id)
  <2>1. /\ Ready /\ UNCHANGED <<journal, call, server>>
        /\ files' = filesAfterAbort(files, fh, id) /\ fh' = a
    BY <1>2 DEF StreamAbort
  <2>2. /\ AllRecordings(files') /\ FilesOpen(files', a) /\ Tidied(files', a) /\ Counts(a)
        /\ Recorded(files', a.recording) = Recorded(files, fh.recording)
    BY <2>1, ReadyDisk, AbortTidied
  <2> HIDE DEF a
  <2>3. Grows(a, fh', << >>)
    BY <2>1, <2>2, GrowsNot
  <2>4. << >> \in Seq(Messages) /\ << >> \in Little
    BY EmptySeq DEF Little
  <2>5. Durable!Add \/ Durable!AbortAndAdd
    BY <1>2, StreamAbortDurable
  <2>6. Told(Held, Held', << >>)
    BY <2>1, <2>2, <2>3, <2>4, <2>5, GrownTold
  <2> QED BY <2>4, <2>6
<1>3. ASSUME NEW id \in Clients, StreamData(id)
      PROVE  \E more \in Little : Told(Held, Held', more)
  <2>1. ImageMsg(0) \in Neutral
    BY TypesAre
  <2>2. /\ Held.resetStreamState # "None" /\ Held'.messages = Held.messages
        /\ Held'.resetStream = Append(Held.resetStream, ImageMsg(0))
        /\ Held'.resetStreamIndex = Held.resetStreamIndex
    BY <1>3, StreamDataDurable
  <2>3. GoesOn(Held, Held')
    BY <2>1, <2>2 DEF GoesOn
  <2> QED BY <2>2, <2>3, NothingTold
<1>4. ASSUME NEW id \in Clients, StreamFinish(id)
      PROVE  \E more \in Little : Told(Held, Held', more)
  BY <1>4, StreamFinishDurable, PreparedTold
<1>5. ASSUME Durable!Save \/ UNCHANGED Durable!vars \/ Durable!ResetSaved
      PROVE  \E more \in Little : Told(Held, Held', more)
  <2>1. Held' = Held
    BY <1>5, Zenon DEF Durable!Save, Durable!vars, Durable!ResetSaved, Held
  <2> QED BY <2>1, SameTold
<1>6. CASE StreamResolve
  BY <1>5, <1>6, StreamResolveDurable, ResolvedTold
<1>7. CASE Proceed
  <2>1. CASE resolveStreamedReset_journal
    BY <2>1, ResolveJournalDurable, ResolvedTold
  <2>2. CASE resolveStreamedReset_finish
    BY <1>5, <2>2, ResolveFinishDurable
  <2>3. CASE reset_journal
    BY <1>5, <2>3, ResetJournalDurable
  <2>4. CASE reset_finish(CaughtUpMsg)
    <3>1. Durable!Add
      BY <2>4, ResetFinishDurable
    <3>2. PICK more \in Perhaps(CaughtUpMsg) : Held'.messages = Held.messages \o more
      BY <2>4, ResetFinishDurable
    <3>3. more \in Little
      BY TypesAre, PerhapsLittle
    <3> QED BY <3>1, <3>2, <3>3, LittleIs, AddedGoesOn DEF Told
  <2> QED BY <1>7, <2>1, <2>2, <2>3, <2>4 DEF Proceed
<1>8. CASE Flush \/ Fetch \/ CleanUp
  BY <1>5, <1>8, FlushDurable, FetchDurable, CleanUpDurable
<1>9. CASE Enter \/ UNCHANGED vars
  <2>1. UNCHANGED Durable!vars
    BY <1>9 DEF Enter, vars, Durable!vars, InMemory, SettledMessages, Settled, InReset, Streamed,
                StreamMessages, Recovered
  <2> QED BY <1>5, <2>1
<1> QED BY <1>1, <1>2, <1>3, <1>4, <1>6, <1>7, <1>8, <1>9

(* What comes back is what was saved, and everybody has left.              *)
LEMMA RestartTold ==
  ASSUME DurableInv, RecoverableInv', Restart, server' = "up"
  PROVE  /\ Held'.resetStreamState = "None"
         /\ \E bye \in Farewells(UsersLeftIn(Recovered)) : Held'.messages = Recovered \o bye
<1>1. Durable!Restart
  BY RestartDurable DEF Durable!NothingToRestart
<1>2. PICK bye \in Durable!Farewells(Durable!StillIn(Recovered)) :
        Held' = Durable!NewHistory(Recovered \o bye)
  BY <1>1 DEF Durable!Restart, Held
<1>3. bye \in Farewells(UsersLeftIn(Recovered))
  BY SameFarewells
<1> DEFINE all == Recovered \o bye
<1>4. Held'.messages = all /\ Held'.resetStreamState = "None"
  <2>1. Held' = Durable!NewHistory(all)
    BY <1>2
  <2> HIDE DEF all
  <2> QED BY <2>1 DEF Durable!NewHistory
<1> QED BY <1>3, <1>4

(* What has been saved before and after a step are messages of the same    *)
(* histories.                                                              *)
LEMMA SavedNext ==
  ASSUME RecoverableInv', DiskInv', [Durable!Next]_(Durable!vars),
         NEW M, Recovered \in Seq(M), Held.messages \in Seq(M), Held'.messages \in Seq(M)
  PROVE  /\ Recovered' \in Seq(M)
         /\ Orderly(Recovered) /\ Orderly(Held.messages) /\ Orderly(Held'.messages)
              => Orderly(Recovered')
<1> DEFINE r == Recovered'
           h == Held.messages
           g == Held'.messages
<1>1. \/ r = Recovered \/ r = << >> \/ r = g \/ r = h
      \/ server' # "gone" /\ Durable!IsPrefixOf(r, h)
  <2>1. CASE UNCHANGED Durable!vars
    BY <2>1 DEF Durable!vars
  <2>2. ASSUME Durable!MoreSaved, server' # "gone"
        PROVE  r = Recovered \/ Durable!IsPrefixOf(r, h)
    BY <2>2 DEF Durable!MoreSaved, Held
  <2>3. ASSUME server = "up" \/ server = "down", server' = server
        PROVE  server' # "gone"
    BY <2>3
  <2>4. ASSUME NEW k, Durable!Becomes(k) PROVE r = Recovered
    BY <2>4 DEF Durable!Becomes
  <2>5. CASE server = "up" /\ (Durable!Stop \/ Durable!Save)
    <3>1. Durable!MoreSaved /\ server' # "gone"
      BY <2>5 DEF Durable!Stop, Durable!Save
    <3> QED BY <2>2, <3>1
  <2>6. CASE server = "up" /\ Durable!ResolveStream
    <3>1. server' # "gone" /\ (r = g \/ Durable!MoreSaved)
      BY <2>6 DEF Durable!ResolveStream, Held
    <3> QED BY <2>2, <3>1
  <2>7. CASE Durable!End \/ Durable!ResetSaved
    BY <2>7 DEF Durable!End, Durable!ResetSaved
  <2>8. CASE Durable!Reset
    BY <2>8 DEF Durable!Reset, Held
  <2>9. CASE Durable!StartStream \/ Durable!AddToStream \/ Durable!PrepareStream
             \/ Durable!AbortAndAdd \/ Durable!Add
    BY <2>4, <2>9 DEF Durable!StartStream, Durable!AddToStream, Durable!PrepareStream,
                      Durable!AbortAndAdd, Durable!Add, Durable!Extended
  <2>10. CASE Durable!Restart \/ Durable!NothingToRestart
    BY <2>10 DEF Durable!Restart, Durable!NothingToRestart
  <2> QED BY <2>1, <2>5, <2>6, <2>7, <2>8, <2>9, <2>10, Zenon DEF Durable!Next
<1> HIDE DEF r, h, g
<1>2. CASE r = << >>
  BY <1>2, EmptySeq DEF r, Orderly
<1>3. CASE server' # "gone" /\ Durable!IsPrefixOf(r, h)
  <2>1. Len(r) \in Nat
    BY <1>3, SavedMessagesNext, LenProperties DEF r
  <2>2. r \in Seq(M) /\ (Orderly(h) => Orderly(r))
    BY <1>3, <2>1, OrderlyPrefix DEF h
  <2> QED BY <2>2 DEF r, h
<1>4. CASE r = Recovered \/ r = g \/ r = h
  BY <1>4 DEF r, g, h
<1> QED BY <1>1, <1>2, <1>3, <1>4

----------------------------------------------------------------------------
(* Who is in the session, by its clients.                                  *)

IdsOf(cs) == {cs[i].id : i \in DOMAIN cs}

(* Nobody is in the session twice.                                         *)
Once(cs) == \A i, j \in DOMAIN cs : cs[i].id = cs[j].id => i = j

(* A sequence without its i-th element.                                    *)
LEMMA RemovedIs ==
  ASSUME NEW S, NEW q \in Seq(S), NEW i \in 1 .. Len(q)
  PROVE  LET r == RemoveAt(q, i)
         IN /\ r \in Seq(S) /\ Len(r) = Len(q) - 1
            /\ \A j \in 1 .. (i - 1) : r[j] = q[j]
            /\ \A j \in i .. (Len(q) - 1) : r[j] = q[j + 1]
<1> DEFINE n == Len(q)
           a == SubSeq(q, 1, i - 1)
           b == SubSeq(q, i + 1, n)
           k == i - 1
<1>1. n \in Nat /\ i \in Nat /\ 1 <= i /\ i <= n /\ k \in Nat /\ k = i - 1
  BY LenProperties
<1>2. a \in Seq(S) /\ Len(a) = k /\ \A j \in 1 .. k : a[j] = q[j]
  <2>1. /\ a \in Seq(S) /\ Len(a) = k - 1 + 1
        /\ \A j \in 1 .. (k - 1 + 1) : a[j] = q[1 + j - 1]
    <3>1. a = SubSeq(q, 1, k) /\ 1 <= k + 1 /\ k <= Len(q)
      BY <1>1
    <3> HIDE DEF a, k
    <3> QED BY <1>1, <3>1, Slice
  <2>2. k - 1 + 1 = k /\ \A j \in 1 .. k : 1 + j - 1 = j
    BY <1>1
  <2> HIDE DEF a, k
  <2> QED BY <2>1, <2>2
<1>3. b \in Seq(S) /\ Len(b) = n - i /\ \A j \in 1 .. (n - i) : b[j] = q[i + j]
  <2>1. /\ b \in Seq(S) /\ Len(b) = n - (i + 1) + 1
        /\ \A j \in 1 .. (n - (i + 1) + 1) : b[j] = q[(i + 1) + j - 1]
    <3>1. i + 1 \in Nat /\ 1 <= i + 1 /\ i + 1 <= n + 1 /\ n <= Len(q)
      BY <1>1
    <3> QED BY <1>1, <3>1, Slice
  <2>2. n - (i + 1) + 1 = n - i /\ \A j \in 1 .. (n - i) : (i + 1) + j - 1 = i + j
    BY <1>1
  <2> HIDE DEF b, n
  <2> QED BY <2>1, <2>2
<1>4. RemoveAt(q, i) = a \o b
  BY DEF RemoveAt
<1> HIDE DEF a, b, k, n
<1>5. /\ a \o b \in Seq(S) /\ Len(a \o b) = Len(a) + Len(b)
      /\ \A j \in 1 .. Len(a) : (a \o b)[j] = a[j]
      /\ \A j \in 1 .. Len(b) : (a \o b)[j + Len(a)] = b[j]
  <2>1. a \o b \in Seq(S) /\ Len(a \o b) = Len(a) + Len(b)
    BY <1>2, <1>3, ConcatIs
  <2>2. \A j \in 1 .. Len(a) : (a \o b)[j] = a[j]
    BY <1>2, <1>3, ConcatIs
  <2>3. \A j \in 1 .. Len(b) : (a \o b)[j + Len(a)] = b[j]
    BY <1>2, <1>3, ConcatIs
  <2> QED BY <2>1, <2>2, <2>3
<1> DEFINE r == a \o b
<1>6. r \in Seq(S) /\ Len(r) = n - 1
  <2>1. k + (n - i) = n - 1
    BY <1>1
  <2> QED BY <1>2, <1>3, <1>5, <2>1
<1>7. \A j \in 1 .. k : r[j] = q[j]
  BY <1>2, <1>5
<1>8. ASSUME NEW j \in i .. (n - 1) PROVE r[j] = q[j + 1]
  <2> DEFINE l == j - k
  <2>1. l \in 1 .. (n - i) /\ l + k = j /\ i + l = j + 1
    BY <1>1
  <2> HIDE DEF l
  <2>2. r[l + k] = b[l]
    BY <1>2, <1>3, <1>5, <2>1
  <2>3. b[l] = q[i + l]
    BY <1>3, <2>1
  <2> QED BY <2>1, <2>2, <2>3
<1> QED BY <1>1, <1>4, <1>6, <1>7, <1>8 DEF n

(* Without a user nobody is in the session twice, and the others are still *)
(* there.                                                                  *)
LEMMA FewerUsers ==
  ASSUME NEW S, NEW q \in Seq(S), Once(q), NEW i \in DOMAIN q
  PROVE  Once(RemoveAt(q, i)) /\ IdsOf(RemoveAt(q, i)) = IdsOf(q) \ {q[i].id}
<1> DEFINE r == RemoveAt(q, i)
           n == Len(q)
<1>1. n \in Nat /\ DOMAIN q = 1 .. n /\ i \in 1 .. n
  BY LenProperties
<1>2. /\ r \in Seq(S) /\ Len(r) = n - 1
      /\ \A j \in 1 .. (i - 1) : r[j] = q[j]
      /\ \A j \in i .. (n - 1) : r[j] = q[j + 1]
  BY <1>1, RemovedIs
<1>3. DOMAIN r = 1 .. (n - 1)
  BY <1>2, LenProperties
<1> HIDE DEF r, n
<1>4. \A j \in 1 .. (n - 1) : \E k \in 1 .. n : r[j] = q[k] /\ k = IF j < i THEN j ELSE j + 1
  <2> SUFFICES ASSUME NEW j \in 1 .. (n - 1)
               PROVE  \E k \in 1 .. n : r[j] = q[k] /\ k = IF j < i THEN j ELSE j + 1
    OBVIOUS
  <2>1. CASE j < i
    BY <1>1, <1>2, <2>1
  <2>2. CASE ~(j < i)
    <3>1. j \in i .. (n - 1) /\ j + 1 \in 1 .. n
      BY <1>1, <2>2
    <3> QED BY <1>2, <2>2, <3>1
  <2> QED BY <2>1, <2>2
<1>5. Once(r)
  <2> SUFFICES ASSUME NEW j \in 1 .. (n - 1), NEW k \in 1 .. (n - 1), r[j].id = r[k].id
               PROVE  j = k
    BY <1>3 DEF Once
  <2>1. PICK a \in 1 .. n : r[j] = q[a] /\ a = IF j < i THEN j ELSE j + 1
    BY <1>4
  <2>2. PICK b \in 1 .. n : r[k] = q[b] /\ b = IF k < i THEN k ELSE k + 1
    BY <1>4
  <2>3. a = b
    BY <1>1, <2>1, <2>2 DEF Once
  <2> QED BY <1>1, <2>1, <2>2, <2>3
<1>6. ASSUME NEW x \in IdsOf(r) PROVE x \in IdsOf(q) \ {q[i].id}
  <2>1. PICK j \in 1 .. (n - 1) : x = r[j].id
    BY <1>3 DEF IdsOf
  <2>2. PICK k \in 1 .. n : r[j] = q[k] /\ k = IF j < i THEN j ELSE j + 1
    BY <1>4
  <2>3. k # i
    BY <1>1, <2>2
  <2> QED BY <1>1, <2>1, <2>2, <2>3 DEF Once, IdsOf
<1>7. ASSUME NEW x \in IdsOf(q) \ {q[i].id} PROVE x \in IdsOf(r)
  <2>1. PICK k \in 1 .. n : x = q[k].id /\ k # i
    BY <1>1 DEF IdsOf
  <2>2. CASE k < i
    <3>1. k \in 1 .. (n - 1) /\ k \in 1 .. (i - 1)
      BY <1>1, <2>2
    <3> QED BY <1>2, <1>3, <2>1, <3>1 DEF IdsOf
  <2>3. CASE ~(k < i)
    <3>1. k - 1 \in 1 .. (n - 1) /\ k - 1 \in i .. (n - 1) /\ (k - 1) + 1 = k
      BY <1>1, <2>1, <2>3
    <3>2. r[k - 1] = q[k]
      BY <1>2, <3>1
    <3> QED BY <1>3, <2>1, <3>1, <3>2 DEF IdsOf
  <2> QED BY <2>2, <2>3
<1> QED BY <1>5, <1>6, <1>7 DEF r

(* The same with a new user.                                               *)
LEMMA MoreUsers ==
  ASSUME NEW S, NEW q \in Seq(S), NEW x \in S
  PROVE  /\ IdsOf(Append(q, x)) = IdsOf(q) \cup {x.id}
         /\ Once(q) /\ x.id \notin IdsOf(q) => Once(Append(q, x))
<1> DEFINE n == Len(q)
           r == Append(q, x)
<1>1. n \in Nat /\ DOMAIN q = 1 .. n
  BY LenProperties
<1>2. DOMAIN r = 1 .. (n + 1) /\ r[n + 1] = x /\ \A j \in 1 .. n : r[j] = q[j]
  BY AppendProperties
<1> HIDE DEF n, r
<1>3. \A j : j \in 1 .. (n + 1) <=> j \in 1 .. n \/ j = n + 1
  BY <1>1
<1>4. IdsOf(r) = IdsOf(q) \cup {x.id}
  BY <1>1, <1>2, <1>3 DEF IdsOf
<1>5. Once(q) /\ x.id \notin IdsOf(q) => Once(r)
  BY <1>1, <1>2, <1>3 DEF Once, IdsOf
<1> QED BY <1>4, <1>5 DEF r

(* The joins of some users, who are all different.                         *)
LEMMA JoinsAttend ==
  ASSUME NEW n \in Nat, NEW ids \in [1 .. n -> Clients],
         \A i, j \in 1 .. n : ids[i] = ids[j] => i = j
  PROVE  LET s == [i \in 1 .. n |-> JoinMsg(ids[i])]
         IN Attending(s, {ids[i] : i \in 1 .. n})
<1> DEFINE s == [i \in 1 .. n |-> JoinMsg(ids[i])]
           P == {ids[i] : i \in 1 .. n}
<1>1. \A i \in 1 .. n : ids[i] \in Clients /\ s[i] = JoinMsg(ids[i]) /\ s[i] \in Messages
  BY MessagesAre
<1>2. s \in Seq(Messages) /\ Len(s) = n /\ DOMAIN s = 1 .. n
  BY <1>1, IsASeq
<1>3. \A c, d : (JoinMsg(c) = JoinMsg(d) <=> c = d) /\ JoinMsg(c) # LeaveMsg(d)
  BY TypesAre
<1> HIDE DEF s
<1>4. Orderly(s)
  <2> SUFFICES ASSUME NEW i \in 1 .. n, NEW j \in 1 .. n, i < j, s[j] = s[i]
               PROVE  FALSE
    BY <1>2 DEF Orderly
  <2>1. ids[i] = ids[j]
    BY <1>1, <1>3
  <2> QED BY <2>1
<1>5. UsersLeftIn(s) = P
  <2>1. ASSUME NEW c \in UsersLeftIn(s) PROVE c \in P
    BY <1>1, <1>2, <1>3 DEF UsersLeftIn
  <2>2. ASSUME NEW i \in 1 .. n PROVE ids[i] \in UsersLeftIn(s)
    <3>1. \A j \in (i + 1) .. Len(s) : s[j] # LeaveMsg(ids[i])
      <4> SUFFICES ASSUME NEW j \in (i + 1) .. Len(s) PROVE s[j] # LeaveMsg(ids[i])
        OBVIOUS
      <4>1. j \in 1 .. n
        BY <1>2
      <4> QED BY <1>1, <1>3, <4>1
    <3> QED BY <1>1, <1>2, <3>1 DEF UsersLeftIn
  <2> QED BY <2>1, <2>2
<1> QED BY <1>2, <1>4, <1>5 DEF Attending, s

(* A reset image begins with the joins of those who are present.           *)
LEMMA ServerSideAttends ==
  ASSUME RecoverableInv, Once(clients)
  PROVE  /\ Attending(serverSideStateMessages, Present)
         /\ Attending(serverSideStateMessages \o <<ImageMsg(0)>>, Present)
<1> DEFINE n == Len(clients)
           ids == [i \in 1 .. n |-> clients[i].id]
           joins == [i \in DOMAIN clients |-> JoinMsg(clients[i].id)]
<1>1. n \in Nat /\ DOMAIN clients = 1 .. n
  BY LenProperties DEF RecoverableInv
<1>2. ids \in [1 .. n -> Clients]
  <2>1. \A i \in DOMAIN clients : clients[i].id \in Clients
    BY OthersType DEF RecoverableInv, ClientsType
  <2> QED BY <1>1, <2>1
<1>3. \A i, j \in 1 .. n : ids[i] = ids[j] => i = j
  BY <1>1 DEF Once
<1>4. joins = [i \in 1 .. n |-> JoinMsg(ids[i])] /\ Present = {ids[i] : i \in 1 .. n}
  BY <1>1 DEF Present
<1> HIDE DEF n, ids, joins
<1>5. Attending(joins, Present)
  BY <1>1, <1>2, <1>3, <1>4, JoinsAttend
<1>6. Brings(Present, <<OwnerMsg(0)>>, Present) /\ Brings(Present, <<ImageMsg(0)>>, Present)
  BY TypesAre, NeutralMoves
<1>7. Attending(joins \o <<OwnerMsg(0)>>, Present)
  BY <1>5, <1>6 DEF Brings, Attending
<1> DEFINE s == joins \o <<OwnerMsg(0)>>
<1>8. Attending(s, Present)
  BY <1>7
<1>9. s = serverSideStateMessages
  BY DEF serverSideStateMessages, joins
<1> HIDE DEF s
<1>10. Attending(s \o <<ImageMsg(0)>>, Present)
  BY <1>6, <1>8 DEF Brings, Attending
<1> QED BY <1>8, <1>9, <1>10

(* Everybody who was there has left.                                       *)
LEMMA FarewellAttends ==
  ASSUME NEW ms \in Seq(Messages), Orderly(ms), NEW bye \in Farewells(UsersLeftIn(ms))
  PROVE  Attending(ms \o bye, {})
<1> DEFINE S == UsersLeftIn(ms)
           t == ms \o bye
           n == Len(ms)
           k == Len(bye)
<1>1. bye \in Seq(Messages)
  BY ByeMessages
<1>2. /\ n \in Nat /\ k \in Nat /\ DOMAIN ms = 1 .. n /\ DOMAIN bye = 1 .. k
      /\ t \in Seq(Messages) /\ Len(t) = n + k
  BY <1>1, ConcatIs
<1>3. DOMAIN t = 1 .. n + k
  BY <1>1, ConcatIs
<1>4. \A i \in 1 .. n : t[i] = ms[i]
  BY <1>1, ConcatIs
<1>5. \A i \in 1 .. k : t[i + n] = bye[i]
  BY <1>1, ConcatIs
<1>6. /\ \A i \in 1 .. k : \E c \in S : bye[i] = LeaveMsg(c)
      /\ \A c \in S : \E i \in 1 .. k : bye[i] = LeaveMsg(c)
  <2>1. bye \in [1 .. Cardinality(S) -> {LeaveMsg(c) : c \in S}]
    BY DEF Farewells
  <2>2. \A i \in DOMAIN bye : bye[i] \in {LeaveMsg(c) : c \in S}
    BY <2>1
  <2>3. \A c \in S : \E i \in DOMAIN bye : bye[i] = LeaveMsg(c)
    BY DEF Farewells
  <2> HIDE DEF S
  <2> QED BY <1>2, <2>2, <2>3
<1> HIDE DEF t, n, k
<1>7. \A i \in 1 .. (n + k) : (i \in 1 .. n \/ i - n \in 1 .. k) /\ (i - n) + n = i
  BY <1>2
<1>8. \A i \in 1 .. (n + k) : \A c : t[i] = JoinMsg(c) => i \in 1 .. n
  <2> SUFFICES ASSUME NEW i \in 1 .. (n + k), NEW c, t[i] = JoinMsg(c), i - n \in 1 .. k,
                      (i - n) + n = i
               PROVE  FALSE
    BY <1>7
  <2>1. t[i] = bye[i - n]
    BY <1>5
  <2>2. PICK d \in S : bye[i - n] = LeaveMsg(d)
    BY <1>6
  <2> QED BY <2>1, <2>2, TypesAre
<1>9. Orderly(t)
  <2> SUFFICES ASSUME NEW i \in 1 .. (n + k), NEW j \in 1 .. (n + k),
                      i < j, t[i].type = "Join", t[j] = t[i]
               PROVE  \E l \in i .. j : t[l] = LeaveMsg(t[i].user)
    BY <1>3 DEF Orderly
  <2>1. t[i] \in Messages
    BY <1>2, <1>3, ElementOfSeq
  <2>2. t[i] = JoinMsg(t[i].user)
    BY <2>1, TypesAre
  <2>3. i \in 1 .. n /\ j \in 1 .. n
    BY <1>8, <2>2
  <2>4. t[i] = ms[i] /\ t[j] = ms[j]
    BY <1>4, <2>3
  <2>5. PICK l \in i .. j : ms[l] = LeaveMsg(ms[i].user)
    BY <1>2, <2>3, <2>4 DEF Orderly
  <2>6. l \in 1 .. n
    BY <1>2, <2>3
  <2> QED BY <1>4, <2>4, <2>5, <2>6
<1>10. UsersLeftIn(t) = {}
  <2> SUFFICES ASSUME NEW c \in UsersLeftIn(t) PROVE FALSE
    OBVIOUS
  <2>1. PICK i \in 1 .. (n + k) : t[i] = JoinMsg(c) /\ \A j \in (i + 1) .. (n + k) : t[j] # LeaveMsg(c)
    BY <1>2, <1>3 DEF UsersLeftIn
  <2>2. c \in Clients
    BY DEF UsersLeftIn
  <2>3. i \in 1 .. n /\ ms[i] = JoinMsg(c)
    BY <1>4, <1>8, <2>1
  <2>4. \A j \in (i + 1) .. n : ms[j] # LeaveMsg(c)
    <3> SUFFICES ASSUME NEW j \in (i + 1) .. n PROVE ms[j] # LeaveMsg(c)
      OBVIOUS
    <3>1. j \in 1 .. n /\ j \in (i + 1) .. (n + k)
      BY <1>2, <2>3
    <3> QED BY <1>4, <2>1, <3>1
  <2>5. c \in S
    BY <1>2, <2>2, <2>3, <2>4 DEF UsersLeftIn, n
  <2> HIDE DEF S
  <2>6. PICK l \in 1 .. k : bye[l] = LeaveMsg(c)
    BY <1>6, <2>5
  <2>7. l + n \in (i + 1) .. (n + k) /\ t[l + n] = bye[l]
    BY <1>2, <1>5, <2>3
  <2> QED BY <2>1, <2>6, <2>7
<1> QED BY <1>2, <1>9, <1>10 DEF Attending, t

----------------------------------------------------------------------------
(* The history and the users.                                              *)

(* The history leaves the users P, and would if the stream took its place. *)
HistInv(h, P) ==
  /\ Attending(h.messages, P)
  /\ h.resetStreamState # "None" =>
       /\ h.resetStreamIndex \in 0 .. Len(h.messages)
       /\ \E S : /\ Attending(h.resetStream, S)
                 /\ Brings(S, SubSeq(h.messages, h.resetStreamIndex + 1, Len(h.messages)), P)

(* What a history has after its i-th message.                              *)
LEMMA RestOf ==
  ASSUME NEW M, NEW ms \in Seq(M), NEW i \in 0 .. Len(ms)
  PROVE  /\ SubSeq(ms, i + 1, Len(ms)) \in Seq(M)
         /\ i = Len(ms) => SubSeq(ms, i + 1, Len(ms)) = << >>
<1> DEFINE n == Len(ms)
           s == SubSeq(ms, i + 1, n)
<1>1. n \in Nat /\ i \in Nat /\ i <= n
  BY LenProperties
<1>2. s \in Seq(M) /\ Len(s) = n - (i + 1) + 1
  <2>1. i + 1 \in Nat /\ 1 <= i + 1 /\ i + 1 <= n + 1 /\ n <= Len(ms)
    BY <1>1
  <2> QED BY <1>1, <2>1, Slice
<1> HIDE DEF s, n
<1>3. i = n => Len(s) = 0
  BY <1>1, <1>2
<1>4. i = n => s = << >>
  BY <1>2, <1>3, EmptySeq
<1> QED BY <1>2, <1>4 DEF s, n

(* What is told after a stream has started comes after the stream, too.    *)
LEMMA ToldKeeps ==
  ASSUME NEW h, NEW g, NEW more, NEW P, NEW Q, HistInv(h, P), Told(h, g, more), Brings(P, more, Q)
  PROVE  HistInv(g, Q)
<1> DEFINE ms == h.messages
           all == ms \o more
           i  == h.resetStreamIndex
<1>1. ms \in Seq(Messages) /\ more \in Seq(Messages) /\ g.messages = all /\ Attending(all, Q)
  BY DEF HistInv, Told, Attending, Brings
<1>2. Len(ms) \in Nat /\ Len(more) \in Nat /\ Len(all) = Len(ms) + Len(more)
  BY <1>1, ConcatIs
<1>3. ASSUME g.resetStreamState # "None"
      PROVE  /\ g.resetStreamIndex \in 0 .. Len(all)
             /\ \E S : /\ Attending(g.resetStream, S)
                       /\ Brings(S, SubSeq(all, g.resetStreamIndex + 1, Len(all)), Q)
  <2>1. h.resetStreamState # "None" /\ g.resetStreamIndex = i /\ i \in 0 .. Len(ms)
    BY <1>3 DEF Told, GoesOn, HistInv
  <2>2. PICK S : Attending(h.resetStream, S) /\ Brings(S, SubSeq(ms, i + 1, Len(ms)), P)
    BY <2>1 DEF HistInv
  <2>3. Attending(g.resetStream, S)
    <3>1. CASE g.resetStream = h.resetStream
      BY <2>2, <3>1
    <3>2. CASE \E m \in Neutral : g.resetStream = Append(h.resetStream, m)
      <4>1. PICK m \in Neutral : g.resetStream = Append(h.resetStream, m)
        BY <3>2
      <4>2. h.resetStream \in Seq(Messages) /\ m \in Messages
        BY <2>2 DEF Attending, Neutral
      <4>3. Append(h.resetStream, m) = h.resetStream \o <<m>>
        BY <4>2, AppendIsConcat
      <4>4. Attending(h.resetStream \o <<m>>, S)
        BY <2>2, <4>2, NeutralMoves DEF Brings
      <4> QED BY <4>1, <4>3, <4>4
    <3> QED BY <1>3, <3>1, <3>2 DEF Told, GoesOn
  <2> DEFINE rest == SubSeq(ms, i + 1, Len(ms))
  <2>4. SubSeq(all, i + 1, Len(all)) = rest \o more /\ rest \in Seq(Messages)
    <3>1. i + 1 \in Nat /\ 1 <= i + 1 /\ i + 1 <= Len(ms) + 1
      BY <1>2, <2>1
    <3>2. SubSeq(ms \o more, i + 1, Len(ms) + Len(more)) = SubSeq(ms, i + 1, Len(ms)) \o more
      <4> HIDE DEF ms
      <4> QED BY <1>1, <3>1, SliceAcross
    <3>3. rest \in Seq(Messages)
      <4> HIDE DEF ms, i
      <4> QED BY <1>1, <2>1, RestOf
    <3> HIDE DEF rest
    <3> QED BY <1>2, <3>2, <3>3 DEF rest
  <2>5. Brings(S, rest \o more, Q)
    <3> HIDE DEF rest
    <3>1. Brings(S, rest, P)
      BY <2>2 DEF rest
    <3> QED BY <1>1, <2>4, <3>1, MovesTwice
  <2>6. g.resetStreamIndex \in 0 .. Len(all)
    BY <1>2, <2>1
  <2> HIDE DEF all, rest, i
  <2> QED BY <2>1, <2>3, <2>4, <2>5, <2>6
<1> QED BY <1>1, <1>3 DEF HistInv

(* The stream takes the place of the history.                              *)
LEMMA ReplacedKeeps ==
  ASSUME NEW h, NEW g, NEW P, HistInv(h, P), Replaced(h, g)
  PROVE  HistInv(g, P)
<1> DEFINE rest == SubSeq(h.messages, h.resetStreamIndex + 1, Len(h.messages))
<1>1. h.resetStreamState # "None" /\ g.resetStreamState = "None"
      /\ g.messages = h.resetStream \o rest
  BY DEF Replaced, Durable!ResolvedMessages
<1>2. PICK S : Attending(h.resetStream, S) /\ Brings(S, rest, P)
  BY <1>1 DEF HistInv
<1> HIDE DEF rest
<1>3. Attending(h.resetStream \o rest, P)
  BY <1>2 DEF Brings, Attending
<1> QED BY <1>1, <1>3 DEF HistInv

(* A stream that starts.                                                   *)
LEMMA StartedKeeps ==
  ASSUME NEW h, NEW g, NEW P, HistInv(h, P), NEW id \in Clients,
         g.messages = h.messages \o StartMarkers(id), Attending(g.resetStream, P),
         g.resetStreamIndex = Len(g.messages)
  PROVE  HistInv(g, P)
<1> DEFINE a == SoftResetMsg
           b == StreamStartMsg(id, 0)
<1>1. a \in Neutral /\ b \in Neutral /\ a \in Messages /\ b \in Messages
  BY TypesAre DEF Neutral
<1>2. StartMarkers(id) = <<a>> \o <<b>>
  BY <1>1, PairIs DEF StartMarkers
<1> HIDE DEF a, b
<1>3. Brings(P, <<a>> \o <<b>>, P)
  <2>1. <<a>> \in Seq(Messages) /\ <<b>> \in Seq(Messages)
    BY <1>1
  <2> QED BY <1>1, <2>1, NeutralMoves, MovesTwice
<1>4. Attending(g.messages, P)
  BY <1>2, <1>3 DEF HistInv, Attending, Brings
<1> DEFINE ms == g.messages
<1>5. ms \in Seq(Messages) /\ Len(ms) \in Nat
  BY <1>4, LenProperties DEF Attending
<1>6. g.resetStreamIndex = Len(ms) /\ g.resetStreamIndex \in 0 .. Len(ms)
  BY <1>5
<1>7. SubSeq(ms, g.resetStreamIndex + 1, Len(ms)) = << >>
  <2> HIDE DEF ms
  <2> QED BY <1>5, <1>6, RestOf
<1>8. Brings(P, SubSeq(ms, g.resetStreamIndex + 1, Len(ms)), P)
  BY <1>7, NothingMoves
<1> QED BY <1>4, <1>6, <1>8 DEF HistInv

(* The users of the session are those of its history, whatever becomes of  *)
(* the stream, and who is on the disk has joined in order.                 *)
PresentInv ==
  /\ Once(clients)
  /\ Recovered \in Seq(Messages) /\ Orderly(Recovered)
  /\ server = "up" => HistInv(Held, Present)
  /\ server # "up" => clients = << >>

(* There is emergency space for what one step tells of its users: two      *)
(* messages when one leaves and two when one joins.                        *)
EmergencyLeft == Ready => hasEmergencySpaceFor(fh, 4)

(* Where there is room for some messages there is room for fewer.          *)
LEMMA LessRoom ==
  ASSUME NEW h, h.sizeInBytes \in Int, NEW n \in Nat, NEW k \in Nat, n <= k, Room(h, k)
  PROVE  Room(h, n)
<1> DEFINE a == h.sizeInBytes
<1>1. a \in Int /\ SizeLimit \in Nat /\ EmergencySpace \in Nat
  BY SessionHistoryAssumption
<1>2. SizeLimit = 0 \/ a + k <= SizeLimit + EmergencySpace
  BY DEF Room, hasEmergencySpaceFor, hasSpaceFor
<1> HIDE DEF a
<1>3. SizeLimit = 0 \/ a + n <= SizeLimit + EmergencySpace
  BY <1>1, <1>2
<1> QED BY <1>3 DEF Room, hasEmergencySpaceFor, hasSpaceFor, a

(* The clients are users, and those who are present are their ids.         *)
LEMMA UsersAre ==
  ASSUME RecoverableInv
  PROVE  /\ clients \in Seq([id : Clients, name : Names]) /\ Present = IdsOf(clients)
         /\ \A i \in DOMAIN clients : clients[i] \in [id : Clients, name : Names]
BY OthersType DEF RecoverableInv, ClientsType, Present, IdsOf

(* A user who comes is present, ...                                        *)
LEMMA JoinPresent ==
  ASSUME DurableInv, QueueInv, PresentInv, EmergencyLeft, RecoverableInv',
         NEW name \in Names, NEW id \in Clients, Join(name, id)
  PROVE  Once(clients') /\ HistInv(Held', Present')
<1> DEFINE who == [id |-> id, name |-> name]
           Who == [id : Clients, name : Names]
<1>1. Ready /\ server = "up" /\ clients' = Append(clients, who) /\ Len(clients) < MaxUsers
  BY DEF Join, Ready
<1>2. id \notin Present
  <2>1. \E free \in Ids : free \notin Present
    BY <1>1, IdIsFree DEF DurableInv
  <2>2. assignId(idQueue, name, Present).id \in Ids \ Present
    BY <2>1, AssignIdOk DEF QueueInv
  <2> QED BY <2>2 DEF Join
<1>3. clients \in Seq(Who) /\ Present = IdsOf(clients) /\ who \in Who /\ who.id = id
  BY UsersAre DEF DurableInv
<1>4. Present' = IdsOf(clients')
  BY DEF Present, IdsOf
<1> HIDE DEF who, Who
<1>5. Once(clients') /\ Present' = Present \cup {id}
  BY <1>1, <1>2, <1>3, <1>4, MoreUsers DEF PresentInv
<1>6. Room(fh, 2)
  BY <1>1, ReadyDisk, LessRoom DEF EmergencyLeft, Room, Tidied
<1>7. PICK more : Told(Held, Held', more) /\ Brings(Present, more, Present \cup {id})
  BY <1>2, <1>6, JoinTold
<1>8. HistInv(Held', Present \cup {id})
  BY <1>1, <1>7, ToldKeeps DEF PresentInv
<1> QED BY <1>5, <1>8

(* ... one who goes is not, ...                                            *)
LEMMA RemoveUserPresent ==
  ASSUME DurableInv, PresentInv, EmergencyLeft, RecoverableInv',
         NEW i \in DOMAIN clients, removeUser(i)
  PROVE  Once(clients') /\ HistInv(Held', Present')
<1> DEFINE id == clients[i].id
           Who == [id : Clients, name : Names]
<1>1. Ready /\ server = "up" /\ clients' = RemoveAt(clients, i)
  BY DEF removeUser, Ready, Others
<1>2. clients \in Seq(Who) /\ Present = IdsOf(clients)
  BY UsersAre DEF DurableInv
<1>3. Present' = IdsOf(clients')
  BY DEF Present, IdsOf
<1> HIDE DEF Who
<1>4. Once(clients') /\ Present' = Present \ {id}
  BY <1>1, <1>2, <1>3, FewerUsers DEF PresentInv
<1>5. Room(fh, 1)
  BY <1>1, ReadyDisk, LessRoom DEF EmergencyLeft, Room, Tidied
<1>6. PICK more : Told(Held, Held', more) /\ Brings(Present, more, Present \ {id})
  BY <1>5, RemoveUserTold
<1>7. HistInv(Held', Present \ {id})
  BY <1>1, <1>6, ToldKeeps DEF PresentInv
<1> QED BY <1>4, <1>7

(* ... and one who comes by a new connection still is.                     *)
LEMMA RejoinPresent ==
  ASSUME DurableInv, PresentInv, EmergencyLeft, RecoverableInv',
         NEW i \in DOMAIN clients, Rejoin(i)
  PROVE  Once(clients') /\ HistInv(Held', Present')
<1> DEFINE id == clients[i].id
           c == clients[i]
           left == RemoveAt(clients, i)
           Who == [id : Clients, name : Names]
<1>1. Ready /\ server = "up" /\ clients' = Append(left, c)
  BY DEF Rejoin, Ready, Others
<1>2. clients \in Seq(Who) /\ Present = IdsOf(clients) /\ c \in Who
  BY UsersAre DEF DurableInv
<1>3. Present' = IdsOf(clients')
  BY DEF Present, IdsOf
<1>4. left \in Seq(Who)
  BY <1>2, OthersType DEF Others, ClientsType
<1> HIDE DEF Who
<1>5. Once(left) /\ IdsOf(left) = Present \ {id}
  BY <1>2, FewerUsers DEF PresentInv
<1>6. id \in Present /\ id = c.id
  BY <1>2 DEF IdsOf
<1> HIDE DEF left, c
<1>7. IdsOf(Append(left, c)) = IdsOf(left) \cup {c.id} /\ Once(Append(left, c))
  BY <1>2, <1>4, <1>5, <1>6, MoreUsers
<1>8. Once(clients') /\ Present' = Present \cup {id}
  BY <1>1, <1>3, <1>5, <1>6, <1>7
<1>9. Room(fh, 4)
  BY <1>1 DEF EmergencyLeft, Room
<1>10. PICK more : Told(Held, Held', more) /\ Brings(Present, more, Present \cup {id})
  BY <1>9, RejoinTold
<1>11. HistInv(Held', Present \cup {id})
  BY <1>1, <1>10, ToldKeeps DEF PresentInv
<1> QED BY <1>8, <1>11

(* A stream is started with the users that are there.                      *)
LEMMA StreamStartPresent ==
  ASSUME DurableInv, PresentInv, RecoverableInv', NEW id \in Clients, StreamStart(id)
  PROVE  Once(clients') /\ HistInv(Held', Present')
<1>1. server = "up" /\ clients' = clients
  BY DEF StreamStart, Ready
<1>2. Attending(serverSideStateMessages, Present)
  BY ServerSideAttends DEF PresentInv, DurableInv
<1>3. /\ Held'.messages = Held.messages \o StartMarkers(id)
      /\ Held'.resetStream = serverSideStateMessages
      /\ Held'.resetStreamIndex = Len(Held'.messages)
  BY StreamStartDurable
<1>4. HistInv(Held', Present)
  BY <1>1, <1>2, <1>3, StartedKeeps DEF PresentInv
<1> QED BY <1>1, <1>4 DEF PresentInv, Present

(* And so is a history that takes the place of the one before.             *)
LEMMA FullResetPresent ==
  ASSUME DurableInv, PresentInv, RecoverableInv', FullReset, "ResetPending" \notin Features
  PROVE  Once(clients') /\ HistInv(Held', Present')
<1>1. server = "up" /\ clients' = clients
  BY DEF FullReset, Ready
<1>2. Attending(serverSideStateMessages \o <<ImageMsg(0)>>, Present)
  BY ServerSideAttends DEF PresentInv, DurableInv
<1>3. HistInv(Held', Present)
  BY <1>2, FullResetDurable DEF HistInv
<1> QED BY <1>1, <1>3 DEF PresentInv, Present

(* The server goes on, or there is nobody.                                 *)
LEMMA QuietPresent ==
  ASSUME DurableInv, PresentInv, RecoverableInv',
         \/ \E id \in Clients : Draw(id) \/ StreamData(id) \/ StreamAbort(id) \/ StreamFinish(id)
         \/ StreamResolve \/ Proceed \/ Flush \/ Fetch \/ CleanUp \/ Enter \/ UNCHANGED vars
  PROVE  /\ Once(clients') /\ server' = server
         /\ server' = "up" => HistInv(Held', Present')
         /\ server' # "up" => clients' = << >>
<1>1. server' = server /\ clients' = clients
  BY DEF Draw, StreamData, addResetStreamMessage, StreamAbort, StreamFinish, prepareResetStream,
         StreamResolve, resolveStreamedReset_start, Proceed, resolveStreamedReset_journal,
         resolveStreamedReset_finish, reset_journal, reset_finish, Flush, flushRecording,
         Fetch, getBatch_load, CleanUp, cleanupBatches, Enter, vars
<1>2. Present' = Present
  BY <1>1 DEF Present
<1>3. server = "up" => HistInv(Held', Present)
  <2> SUFFICES ASSUME HistInv(Held, Present) PROVE HistInv(Held', Present)
    BY DEF PresentInv
  <2>1. CASE Replaced(Held, Held')
    BY <2>1, ReplacedKeeps
  <2>2. CASE \E more \in Little : Told(Held, Held', more)
    BY <2>2, LittleIs, ToldKeeps
  <2> QED BY <2>1, <2>2, QuietTold
<1> QED BY <1>1, <1>2, <1>3 DEF PresentInv

(* After a restart nobody is present: everybody has been made to leave.    *)
LEMMA RestartPresent ==
  ASSUME DurableInv, PresentInv, RecoverableInv', Restart
  PROVE  /\ clients' = << >>
         /\ server' = "up" => HistInv(Held', Present')
<1>1. clients' = << >>
  BY DEF Restart, PresentInv
<1>2. ASSUME server' = "up" PROVE HistInv(Held', Present')
  <2>1. Held'.resetStreamState = "None"
        /\ \E bye \in Farewells(UsersLeftIn(Recovered)) : Held'.messages = Recovered \o bye
    BY <1>2, RestartTold
  <2>2. Attending(Held'.messages, {})
    BY <2>1, FarewellAttends DEF PresentInv
  <2>3. Present' = {}
    BY <1>1 DEF Present
  <2> QED BY <2>1, <2>2, <2>3 DEF HistInv
<1> QED BY <1>1, <1>2

(* Every step keeps who is present and the joins and leaves of the history *)
(* together, ...                                                           *)
LEMMA NextUsers ==
  ASSUME "ResetPending" \notin Features, DurableInv, QueueInv, PresentInv, EmergencyLeft,
         RecoverableInv', [Next]_vars
  PROVE  /\ Once(clients')
         /\ server' = "up" => HistInv(Held', Present')
         /\ server' # "up" => clients' = << >>
<1>1. ASSUME Once(clients'), HistInv(Held', Present'), server' = "up" \/ server' = server,
             server = "up"
      PROVE  /\ Once(clients')
             /\ server' = "up" => HistInv(Held', Present')
             /\ server' # "up" => clients' = << >>
  BY <1>1
<1>2. Once(<< >>)
  BY DEF Once
<1>3. CASE \E name \in Names, id \in Clients : Join(name, id)
  <2>1. server = "up" /\ server' = server
    BY <1>3 DEF Join, Ready
  <2> QED BY <1>3, <2>1, JoinPresent
<1>4. CASE \E i \in DOMAIN clients : Rejoin(i) \/ removeUser(i)
  <2>1. server = "up" /\ server' = server
    BY <1>4 DEF Rejoin, removeUser, Ready
  <2> QED BY <1>4, <2>1, RejoinPresent, RemoveUserPresent
<1>5. CASE \E id \in Present : \/ Draw(id) \/ StreamStart(id) \/ StreamData(id)
                               \/ StreamAbort(id) \/ StreamFinish(id)
  <2>1. PICK id \in Clients : \/ Draw(id) \/ StreamStart(id) \/ StreamData(id)
                              \/ StreamAbort(id) \/ StreamFinish(id)
    BY <1>5, PresentType DEF DurableInv
  <2>2. CASE StreamStart(id)
    <3>1. server = "up" /\ server' = server
      BY <2>2 DEF StreamStart, openResetStream, Ready
    <3> QED BY <2>2, <3>1, StreamStartPresent
  <2>3. CASE Draw(id) \/ StreamData(id) \/ StreamAbort(id) \/ StreamFinish(id)
    BY <2>3, QuietPresent
  <2> QED BY <2>1, <2>2, <2>3
<1>6. CASE FullReset
  <2>1. server = "up" /\ server' = server
    BY <1>6 DEF FullReset, reset_start, Ready
  <2> QED BY <1>6, <2>1, FullResetPresent
<1>7. CASE StreamResolve \/ Proceed \/ Flush \/ Fetch \/ CleanUp \/ Enter \/ UNCHANGED vars
  BY <1>7, QuietPresent
<1>8. CASE Fail \/ Stop \/ End
  <2>1. clients' = << >> /\ server' # "up"
    BY <1>8 DEF Fail, Crash, Stop, Shutdown, End, terminate, NoOneLeft
  <2> QED BY <1>2, <2>1
<1>9. CASE Restart
  BY <1>2, <1>9, RestartPresent
<1> QED BY <1>3, <1>4, <1>5, <1>6, <1>7, <1>8, <1>9 DEF Next, SessionNext

(* ... and what is on the disk in order.                                   *)
LEMMA NextPresent ==
  ASSUME "ResetPending" \notin Features, DurableInv, QueueInv, PresentInv, EmergencyLeft,
         RecoverableInv', DiskInv', [Next]_vars, [Durable!Next]_(Durable!vars)
  PROVE  PresentInv'
<1>1. /\ Once(clients')
      /\ server' = "up" => HistInv(Held', Present')
      /\ server' # "up" => clients' = << >>
  BY NextUsers
<1>2. Held.messages \in Seq(Messages) /\ Orderly(Held.messages)
  <2>1. CASE server = "up"
    BY <2>1 DEF PresentInv, HistInv, Attending
  <2>2. CASE server # "up"
    <3>1. Held = HistOf(<< >>, files, fh)
      BY <2>2, HeldQuiet DEF DurableInv, RecoverableInv
    <3>2. Held.messages = << >>
      BY <3>1, HistOfHas
    <3> QED BY <3>2, EmptySeq DEF Orderly
  <2> QED BY <2>1, <2>2
<1>3. Held'.messages \in Seq(Messages) /\ Orderly(Held'.messages)
  <2>1. CASE server' = "up"
    BY <1>1, <2>1 DEF HistInv, Attending
  <2>2. CASE server' # "up"
    <3>1. Held' = HistOf(<< >>, files', fh')
      BY <2>2, HeldNext DEF RecoverableInv
    <3>2. Held'.messages = << >>
      BY <3>1, HistOfHas
    <3> QED BY <3>2, EmptySeq DEF Orderly
  <2> QED BY <2>1, <2>2
<1>4. Recovered' \in Seq(Messages) /\ Orderly(Recovered')
  BY <1>2, <1>3, SavedNext DEF PresentInv
<1> QED BY <1>1, <1>4 DEF PresentInv, Once, Orderly, HistInv, Attending

(* At first nobody has come.                                               *)
LEMMA InitPresent == StoredInit => PresentInv
<1> SUFFICES ASSUME StoredInit PROVE PresentInv
  OBVIOUS
<1>1. server = "up" /\ clients = << >> /\ Present = {}
  BY DEF StoredInit, FiledInit, Present
<1>2. Recovered = << >> /\ Held = Durable!Nothing
  BY InitDurable DEF Durable!Init, Held
<1>3. Held.messages = << >> /\ Held.resetStreamState = "None"
  BY <1>2 DEF Durable!Nothing, Durable!NewHistory
<1>4. << >> \in Seq(Messages) /\ Orderly(<< >>) /\ UsersLeftIn(<< >>) = {}
  BY EmptySeq DEF Orderly, UsersLeftIn
<1>5. HistInv(Held, Present)
  BY <1>1, <1>3, <1>4 DEF HistInv, Attending
<1> QED BY <1>1, <1>2, <1>4, <1>5 DEF PresentInv, Once

(* The invariant says what the property says of the settled history.       *)
LEMMA InvImpliesPresentAgree == PresentInv => PresentAgree
<1> SUFFICES ASSUME PresentInv, Ready PROVE PresentAgree
  BY DEF PresentAgree
<1>1. Attending(SettledMessages, Present)
  BY HeldHist DEF PresentInv, HistInv, Ready
<1> QED BY <1>1 DEF PresentAgree, Attending, Orderly

(* Who has joined and not left in the history is in the session and nobody *)
(* else, and nobody joins twice without leaving in between, whatever full  *)
(* or streamed reset, restart or crash the session goes through            *)
(* (Session::joinUser and removeUser, loadBlocks), as long as there is     *)
(* emergency space for what a step tells of its users: without it a Join   *)
(* or a Leave is not recorded (SessionHistory::addEmergencyMessage).       *)
THEOREM UsersAgreeWithFiles ==
  ASSUME "ResetPending" \notin Features
  PROVE  StoredSpec /\ []EmergencyLeft => []PresentAgree
<1> DEFINE Inv == DurableInv /\ QueueInv /\ PresentInv
<1>1. StoredInit => Inv
  <2>1. StoredInit => QueueInv
    BY NewIdQueueOk DEF QueueInv, JoiningType, StoredInit
  <2> QED BY <2>1, InitRecoverable, InitIndex, InitDurable, InitPresent DEF DurableInv
<1>2. Inv /\ EmergencyLeft /\ [Next]_vars => Inv'
  <2> SUFFICES ASSUME DurableInv, QueueInv, PresentInv, EmergencyLeft, [Next]_vars
               PROVE  DurableInv' /\ QueueInv' /\ PresentInv'
    OBVIOUS
  <2>1. RecoverableInv' /\ IndexInv' /\ QueueInv'
    BY NextRecoverable, NextIndexed, NextTyped DEF DurableInv, StoredTypeInv
  <2>2. DiskInv' /\ [Durable!Next]_(Durable!vars)
    BY <2>1, NextDurable
  <2>3. PresentInv'
    BY <2>1, <2>2, NextPresent
  <2> QED BY <2>1, <2>2, <2>3 DEF DurableInv
<1>3. Inv => PresentAgree
  BY InvImpliesPresentAgree
<1> QED BY <1>1, <1>2, <1>3, PTL DEF StoredSpec

(* A session without a size limit needs no emergency space.                *)
THEOREM UsersAgreeUnlimited ==
  ASSUME "ResetPending" \notin Features, SizeLimit = 0
  PROVE  StoredSpec => []PresentAgree
<1>1. EmergencyLeft
  BY DEF EmergencyLeft, hasEmergencySpaceFor, hasSpaceFor
<1>2. StoredSpec /\ []EmergencyLeft => []PresentAgree
  BY UsersAgreeWithFiles
<1> QED BY <1>1, <1>2, PTL

----------------------------------------------------------------------------
(* Which ids are given out first.                                          *)

(* The ids that are not in H come first.                                   *)
UnhadFirst(ids, H) == \A i, j \in 1 .. Len(ids) : i < j /\ ids[j] \notin H => ids[i] \notin H

(* The ids that names have.                                                *)
Had(q) == {q.nameIds[name] : name \in Names} \ {NoId}

(* An id that goes to the end of the queue comes after all others.         *)
LEMMA MovedBack ==
  ASSUME NEW q, AllIdsOnce(q), NEW id \in Ids, NEW H, UnhadFirst(q.ids, H)
  PROVE  UnhadFirst(reserveId(q, id).ids, H \cup {id}) /\ reserveId(q, id).nameIds = q.nameIds
<1> DEFINE s == q.ids
           rest == RemoveFirst(s, id)
           all == Append(rest, id)
           I == {i \in 1 .. Len(s) : s[i] = id}
<1>1. /\ s \in Seq(Ids) /\ ToSet(s) = Ids /\ Len(s) = MaxId /\ DOMAIN s = 1 .. MaxId
      /\ \A i, j \in 1 .. MaxId : s[i] = s[j] => i = j
      /\ MaxId \in Nat
  BY IdQueueAssumption, LenProperties DEF AllIdsOnce, Distinct
<1>2. reserveId(q, id) = [q EXCEPT !.ids = all]
  BY <1>1 DEF reserveId
<1>3. reserveId(q, id).ids = all /\ reserveId(q, id).nameIds = q.nameIds
  <2>1. q = [ids |-> q.ids, nameIds |-> q.nameIds]
    BY DEF AllIdsOnce
  <2> HIDE DEF all
  <2> QED BY <1>2, <2>1
<1>4. I \subseteq Nat /\ I # {}
  BY <1>1 DEF ToSet
<1>5. PICK n \in I : \A j \in I : n <= j
  BY <1>4, LeastNumber
<1>6. Min(I) = n
  BY <1>4, <1>5 DEF Min
<1>7. rest = RemoveAt(s, n)
  BY <1>4, <1>6 DEF RemoveFirst, SelectInSeq
<1>8. n \in 1 .. MaxId /\ s[n] = id
  BY <1>1, <1>5
<1> HIDE DEF I
<1>9. /\ rest \in Seq(Ids) /\ Len(rest) = MaxId - 1
      /\ \A j \in 1 .. (n - 1) : rest[j] = s[j]
      /\ \A j \in n .. (MaxId - 1) : rest[j] = s[j + 1]
  <2>1. s \in Seq(Ids) /\ n \in 1 .. Len(s) /\ Len(s) = MaxId
    BY <1>1, <1>8
  <2> HIDE DEF s, rest
  <2> QED BY <1>7, <2>1, RemovedIs
<1> HIDE DEF rest
<1>10. /\ Len(all) = MaxId /\ all[MaxId] = id
       /\ \A j \in 1 .. (MaxId - 1) : all[j] = rest[j]
  <2>1. Len(rest) = MaxId - 1 /\ MaxId - 1 + 1 = MaxId
    BY <1>1, <1>9
  <2> QED BY <1>9, <2>1, AppendProperties
<1> HIDE DEF all
<1>11. ASSUME NEW j \in 1 .. (MaxId - 1)
       PROVE  \E k \in 1 .. MaxId : all[j] = s[k] /\ k = (IF j < n THEN j ELSE j + 1) /\ k # n
  <2>1. CASE j < n
    <3>1. j \in 1 .. (n - 1) /\ j \in 1 .. MaxId
      BY <1>1, <1>8, <2>1
    <3> QED BY <1>9, <1>10, <2>1, <3>1
  <2>2. CASE ~(j < n)
    <3>1. j \in n .. (MaxId - 1) /\ j + 1 \in 1 .. MaxId
      BY <1>1, <1>8, <2>2
    <3> QED BY <1>9, <1>10, <2>2, <3>1
  <2> QED BY <2>1, <2>2
<1>12. ASSUME NEW i \in 1 .. MaxId, NEW j \in 1 .. MaxId, i < j, all[j] \notin H \cup {id}
       PROVE  all[i] \notin H \cup {id}
  <2>1. i \in 1 .. (MaxId - 1) /\ j \in 1 .. (MaxId - 1)
    <3>1. j # MaxId
      BY <1>10, <1>12
    <3> QED BY <1>1, <1>12, <3>1
  <2>2. PICK k \in 1 .. MaxId : all[i] = s[k] /\ k = (IF i < n THEN i ELSE i + 1) /\ k # n
    BY <1>11, <2>1
  <2>3. PICK l \in 1 .. MaxId : all[j] = s[l] /\ l = (IF j < n THEN j ELSE j + 1)
    BY <1>11, <2>1
  <2>4. k < l
    BY <1>8, <1>12, <2>1, <2>2, <2>3
  <2>5. s[k] \notin H
    BY <1>1, <1>12, <2>3, <2>4 DEF UnhadFirst
  <2> QED BY <1>1, <1>8, <2>2, <2>5
<1> QED BY <1>3, <1>10, <1>12 DEF UnhadFirst

(* The ids before a free one go to the end of the queue.                   *)
LEMMA RotatedFront ==
  ASSUME NEW q, AllIdsOnce(q), NEW k \in 1 .. MaxId, NEW H, UnhadFirst(q.ids, H),
         \A j \in 1 .. (k - 1) : q.ids[j] \in H
  PROVE  UnhadFirst(Rotated(q, k).ids, H \cup {q.ids[k]})
<1> DEFINE s == q.ids
           t == Rotated(q, k).ids
           K == H \cup {s[k]}
<1>1. /\ Len(t) = MaxId
      /\ \A i \in 1 .. MaxId : \E j \in 1 .. MaxId :
           t[i] = s[j] /\ j = IF i <= MaxId - k THEN k + i ELSE i - (MaxId - k)
  BY RotatedIs
<1>2. /\ MaxId \in Nat /\ Len(s) = MaxId /\ k \in 1 .. MaxId
      /\ \A i, j \in 1 .. MaxId : s[i] = s[j] => i = j
  BY IdQueueAssumption DEF AllIdsOnce, Distinct
<1> HIDE DEF t, s
<1>3. ASSUME NEW i \in 1 .. MaxId, NEW j \in 1 .. MaxId, i < j, t[j] \notin K
      PROVE  t[i] \notin K
  <2>1. PICK l \in 1 .. MaxId : t[j] = s[l] /\ l = IF j <= MaxId - k THEN k + j ELSE j - (MaxId - k)
    BY <1>1
  <2>2. PICK m \in 1 .. MaxId : t[i] = s[m] /\ m = IF i <= MaxId - k THEN k + i ELSE i - (MaxId - k)
    BY <1>1
  <2>3. l \notin 1 .. (k - 1) /\ l # k
    <3>1. \A x \in 1 .. (k - 1) : s[x] \in H
      BY DEF s
    <3> QED BY <1>3, <2>1, <3>1
  <2>4. m < l /\ m # k
    <3>1. j <= MaxId - k
      BY <1>2, <2>1, <2>3
    <3> QED BY <1>2, <1>3, <2>1, <2>2, <3>1
  <2>5. s[l] \notin H
    BY <1>3, <2>1
  <2>6. s[m] \notin H
    BY <1>2, <2>4, <2>5 DEF UnhadFirst, s
  <2> QED BY <1>2, <2>2, <2>4, <2>6
<1> QED BY <1>1, <1>3 DEF UnhadFirst, t, s

(* A user gets the id the name had, or the first that is not taken.        *)
LEMMA AssignedFront ==
  ASSUME NEW q, AllIdsOnce(q), NEW name \in Names, NEW taken, NEW H,
         taken \cup Had(q) \subseteq H, \E id \in Ids : id \notin taken, UnhadFirst(q.ids, H)
  PROVE  LET a == assignId(q, name, taken)
         IN UnhadFirst(a.queue.ids, H \cup {a.id}) /\ a.queue.nameIds = q.nameIds
<1> DEFINE a == assignId(q, name, taken)
           id == getIdForName(q, name)
<1>1. \/ id # NoId /\ a.id = id /\ a.queue = q
      \/ \E k \in 1 .. MaxId :
           /\ a.id = q.ids[k] /\ a.queue = Rotated(q, k)
           /\ \A j \in 1 .. (k - 1) : q.ids[j] \in taken
  BY AssignIdIs
<1>2. id # NoId => id \in H
  BY DEF getIdForName, Had
<1> HIDE DEF a, id
<1>3. CASE a.id = id /\ a.queue = q /\ id # NoId
  <2>1. H \cup {a.id} = H
    BY <1>2, <1>3
  <2> QED BY <1>3, <2>1 DEF a
<1>4. ASSUME NEW k \in 1 .. MaxId, a.id = q.ids[k], a.queue = Rotated(q, k),
             \A j \in 1 .. (k - 1) : q.ids[j] \in taken
      PROVE  UnhadFirst(a.queue.ids, H \cup {a.id}) /\ a.queue.nameIds = q.nameIds
  <2>1. UnhadFirst(Rotated(q, k).ids, H \cup {q.ids[k]})
    <3>1. \A j \in 1 .. (k - 1) : q.ids[j] \in H
      BY <1>4
    <3> QED BY <3>1, RotatedFront
  <2>2. Rotated(q, k).nameIds = q.nameIds
    <3> DEFINE r == Rotated(q, k)
    <3>1. r = [ids |-> r.ids, nameIds |-> q.nameIds]
      BY RotatedIs
    <3> HIDE DEF r
    <3>2. r.nameIds = q.nameIds
      BY <3>1
    <3> QED BY <3>2 DEF r
  <2> QED BY <1>4, <2>1, <2>2
<1>5. UnhadFirst(a.queue.ids, H \cup {a.id}) /\ a.queue.nameIds = q.nameIds
  <2>1. CASE id # NoId /\ a.id = id /\ a.queue = q
    BY <1>3, <2>1 DEF a
  <2>2. CASE \E k \in 1 .. MaxId :
               /\ a.id = q.ids[k] /\ a.queue = Rotated(q, k)
               /\ \A j \in 1 .. (k - 1) : q.ids[j] \in taken
    <3>1. PICK k \in 1 .. MaxId :
            /\ a.id = q.ids[k] /\ a.queue = Rotated(q, k)
            /\ \A j \in 1 .. (k - 1) : q.ids[j] \in taken
      BY <2>2
    <3> QED BY <1>4, <3>1, Zenon
  <2> QED BY <1>1, <2>1, <2>2
<1> QED BY <1>5 DEF a

(* The name gets the id, which is taken last from then on.                 *)
LEMMA NamedFront ==
  ASSUME NEW q, AllIdsOnce(q), NEW id \in Ids, NEW name \in Names, NEW H, UnhadFirst(q.ids, H)
  PROVE  LET r == setIdForName(q, id, name)
         IN UnhadFirst(r.ids, H \cup {id}) /\ r.nameIds = [q.nameIds EXCEPT ![name] = id]
<1> DEFINE p == [q EXCEPT !.nameIds[name] = id]
           ids == [q.nameIds EXCEPT ![name] = id]
<1>1. p = [ids |-> q.ids, nameIds |-> ids] /\ ids \in [Names -> Ids \cup {NoId}]
  BY DEF AllIdsOnce
<1> HIDE DEF p, ids
<1>2. p.ids = q.ids /\ p.nameIds = ids
  BY <1>1
<1>3. AllIdsOnce(p)
  BY <1>1 DEF AllIdsOnce
<1>4. UnhadFirst(reserveId(p, id).ids, H \cup {id}) /\ reserveId(p, id).nameIds = p.nameIds
  BY <1>2, <1>3, MovedBack
<1>5. setIdForName(q, id, name) = reserveId(p, id)
  BY DEF setIdForName, p
<1> QED BY <1>2, <1>4, <1>5 DEF ids

(* The ids that names have when one gets another.                          *)
LEMMA HadOne ==
  ASSUME NEW q, AllIdsOnce(q), NEW id \in Ids, NEW name \in Names, NEW r,
         r.nameIds = [q.nameIds EXCEPT ![name] = id]
  PROVE  Had(r) \subseteq Had(q) \cup {id}
<1>1. /\ q.nameIds \in [Names -> Ids \cup {NoId}]
      /\ r.nameIds[name] = id /\ \A n \in Names \ {name} : r.nameIds[n] = q.nameIds[n]
  BY DEF AllIdsOnce
<1> QED BY <1>1 DEF Had

(* The ids at the end of the queue have been given out, those of names and *)
(* those in S are among them.                                              *)
GivenLast(q, S, G) ==
  \E K \in SUBSET G : S \cup Had(q) \subseteq K /\ UnhadFirst(q.ids, K)

(* More may have been given, and fewer be asked for.                       *)
LEMMA GivenMore ==
  ASSUME NEW q, NEW S, NEW R, NEW F, NEW G, R \subseteq S, F \subseteq G, GivenLast(q, S, F)
  PROVE  GivenLast(q, R, G)
BY DEF GivenLast

(* An id that has been given goes to the end.                              *)
LEMMA GivenBack ==
  ASSUME NEW q, AllIdsOnce(q), NEW S, NEW G, GivenLast(q, S, G), NEW id \in Ids, id \in G
  PROVE  LET r == reserveId(q, id)
         IN GivenLast(r, S \cup {id}, G) /\ r.nameIds = q.nameIds /\ AllIdsOnce(r)
<1> DEFINE r == reserveId(q, id)
<1>1. PICK K \in SUBSET G : S \cup Had(q) \subseteq K /\ UnhadFirst(q.ids, K)
  BY DEF GivenLast
<1>2. UnhadFirst(r.ids, K \cup {id}) /\ r.nameIds = q.nameIds /\ AllIdsOnce(r)
  BY <1>1, MovedBack, ReserveIdOk
<1> HIDE DEF r
<1>3. Had(r) = Had(q)
  BY <1>2 DEF Had
<1>4. GivenLast(r, S \cup {id}, G)
  <2>1. K \cup {id} \in SUBSET G /\ (S \cup {id}) \cup Had(r) \subseteq K \cup {id}
    BY <1>1, <1>3
  <2> QED BY <1>2, <2>1 DEF GivenLast
<1> QED BY <1>2, <1>4 DEF r

(* So does an id that gets a name, ...                                     *)
LEMMA GivenName ==
  ASSUME NEW q, AllIdsOnce(q), NEW S, NEW G, GivenLast(q, S, G), NEW id \in Ids, id \in G,
         NEW name \in Names
  PROVE  LET r == setIdForName(q, id, name) IN GivenLast(r, S, G) /\ AllIdsOnce(r)
<1> DEFINE r == setIdForName(q, id, name)
<1>1. PICK K \in SUBSET G : S \cup Had(q) \subseteq K /\ UnhadFirst(q.ids, K)
  BY DEF GivenLast
<1>2. /\ UnhadFirst(r.ids, K \cup {id}) /\ r.nameIds = [q.nameIds EXCEPT ![name] = id]
      /\ AllIdsOnce(r)
  BY <1>1, NamedFront, SetIdForNameOk
<1> HIDE DEF r
<1>3. Had(r) \subseteq Had(q) \cup {id}
  BY <1>2, HadOne
<1>4. GivenLast(r, S, G)
  <2>1. K \cup {id} \in SUBSET G /\ S \cup Had(r) \subseteq K \cup {id}
    BY <1>1, <1>3
  <2> QED BY <1>2, <2>1 DEF GivenLast
<1> QED BY <1>2, <1>4 DEF r

(* ... and the id of a newcomer.                                           *)
LEMMA GivenOut ==
  ASSUME NEW q, AllIdsOnce(q), NEW name \in Names, NEW taken, NEW G, GivenLast(q, taken, G),
         \E id \in Ids : id \notin taken
  PROVE  LET a == assignId(q, name, taken)
         IN GivenLast(a.queue, taken \cup {a.id}, G \cup {a.id})
<1> DEFINE a == assignId(q, name, taken)
           r == a.queue
           id == a.id
<1>1. PICK K \in SUBSET G : taken \cup Had(q) \subseteq K /\ UnhadFirst(q.ids, K)
  BY DEF GivenLast
<1>2. UnhadFirst(r.ids, K \cup {id}) /\ r.nameIds = q.nameIds
  BY <1>1, AssignedFront
<1> HIDE DEF r, id
<1>3. Had(r) = Had(q)
  BY <1>2 DEF Had
<1>4. /\ K \cup {id} \in SUBSET (G \cup {id})
      /\ (taken \cup {id}) \cup Had(r) \subseteq K \cup {id}
  BY <1>1, <1>3
<1>5. GivenLast(r, taken \cup {id}, G \cup {id})
  BY <1>2, <1>4 DEF GivenLast
<1> QED BY <1>5 DEF r, id

(* At first no id has been given.                                          *)
LEMMA NewFront == GivenLast(NewIdQueue, {}, {})
<1>1. Had(NewIdQueue) = {} /\ UnhadFirst(NewIdQueue.ids, {})
  BY DEF Had, NewIdQueue, UnhadFirst
<1> HIDE DEF UnhadFirst
<1> QED BY <1>1 DEF GivenLast

(* What those in H say of themselves.                                      *)
Talk(H) == {m \in Messages : m.type \in {"Join", "Leave"} => m.user \in H}

(* Users free ids they have been given.                                    *)
LEMMA FreedFront ==
  ASSUME NEW q, AllIdsOnce(q), NEW G \in SUBSET Ids, GivenLast(q, {}, G), NEW ms \in Seq(Talk(G))
  PROVE  LET r == FoldLeft(Freed, q, ms) IN AllIdsOnce(r) /\ GivenLast(r, {}, G)
<1> DEFINE Q == {r \in [ids : Seq(Ids), nameIds : [Names -> Ids \cup {NoId}]] :
                   AllIdsOnce(r) /\ GivenLast(r, {}, G)}
<1>1. \A r : r \in Q <=> AllIdsOnce(r) /\ GivenLast(r, {}, G)
  BY DEF AllIdsOnce
<1> HIDE DEF Q
<1>2. q \in Q
  BY <1>1
<1>3. ASSUME NEW r \in Q, NEW m \in Talk(G) PROVE Freed(r, m) \in Q
  <2>1. CASE m.type = "Leave"
    <3> DEFINE p == reserveId(r, m.user)
    <3>1. m.user \in G /\ m.user \in Ids
      BY <2>1 DEF Talk
    <3>2. AllIdsOnce(r) /\ GivenLast(r, {}, G)
      BY <1>1
    <3>3. GivenLast(p, {} \cup {m.user}, G) /\ AllIdsOnce(p)
      BY <3>1, <3>2, GivenBack
    <3> HIDE DEF p
    <3>4. GivenLast(p, {}, G)
      BY <3>3, GivenMore
    <3>5. p \in Q
      BY <1>1, <3>3, <3>4
    <3> QED BY <2>1, <3>5 DEF Freed, p
  <2>2. CASE m.type # "Leave"
    BY <2>2 DEF Freed
  <2> QED BY <2>1, <2>2
<1>4. FoldLeft(Freed, q, ms) \in Q
  BY <1>2, <1>3, FreedKept
<1> QED BY <1>1, <1>4

----------------------------------------------------------------------------
(* A history and its stream are made of messages in M.                     *)
Words(h, M) ==
  /\ h.messages \in Seq(M)
  /\ h.resetStreamState # "None" =>
       h.resetStream \in Seq(M) /\ h.resetStreamIndex \in 0 .. Len(h.messages)

(* More said in the words of those known by then, ...                      *)
LEMMA ToldWords ==
  ASSUME NEW h, NEW g, NEW M, NEW N, M \subseteq N, Neutral \subseteq N, Words(h, M),
         NEW more \in Seq(N), Told(h, g, more)
  PROVE  Words(g, N)
<1> DEFINE ms == h.messages
           all == ms \o more
<1>1. ms \in Seq(N) /\ more \in Seq(N) /\ g.messages = all
  BY SeqIn DEF Words, Told
<1>2. Len(ms) \in Nat /\ Len(more) \in Nat /\ Len(all) = Len(ms) + Len(more) /\ all \in Seq(N)
  BY <1>1, ConcatIs
<1>3. ASSUME g.resetStreamState # "None"
      PROVE  g.resetStream \in Seq(N) /\ g.resetStreamIndex \in 0 .. Len(all)
  <2>1. /\ h.resetStreamState # "None" /\ g.resetStreamIndex = h.resetStreamIndex
        /\ \/ g.resetStream = h.resetStream
           \/ \E m \in Neutral : g.resetStream = Append(h.resetStream, m)
    BY <1>3 DEF Told, GoesOn
  <2>2. h.resetStream \in Seq(N) /\ h.resetStreamIndex \in 0 .. Len(ms)
    BY <2>1, SeqIn DEF Words
  <2>3. ASSUME NEW m \in Neutral PROVE Append(h.resetStream, m) \in Seq(N)
    BY <2>2
  <2> HIDE DEF all
  <2>4. g.resetStream \in Seq(N)
    BY <2>1, <2>2, <2>3
  <2> HIDE DEF ms
  <2>5. g.resetStreamIndex \in 0 .. Len(all)
    BY <1>2, <2>1, <2>2
  <2> QED BY <2>4, <2>5
<1> HIDE DEF all
<1> QED BY <1>1, <1>2, <1>3 DEF Words

(* ... or a stream in the place of the history.                            *)
LEMMA ReplacedWords ==
  ASSUME NEW h, NEW g, NEW M, Words(h, M), Replaced(h, g)
  PROVE  Words(g, M)
<1> DEFINE rest == SubSeq(h.messages, h.resetStreamIndex + 1, Len(h.messages))
<1>1. h.resetStreamState # "None" /\ g.resetStreamState = "None"
      /\ g.messages = h.resetStream \o rest
  BY DEF Replaced, Durable!ResolvedMessages
<1>2. h.resetStream \in Seq(M) /\ rest \in Seq(M)
  BY <1>1, RestOf DEF Words
<1> HIDE DEF rest
<1>3. h.resetStream \o rest \in Seq(M)
  BY <1>2
<1> QED BY <1>1, <1>3 DEF Words

----------------------------------------------------------------------------
(* The ids and their names.                                                *)

(* The queue as the journal gives it to a session that is loaded.          *)
Replayed == AllEntered(NewIdQueue, userEntries)

(* In the queue of the session and in that of the journal an id at the end *)
(* is one that has been given out, the ids of the clients and of names are *)
(* among them, ...                                                         *)
NamesInv ==
  /\ AllIdsOnce(Replayed) /\ GivenLast(Replayed, {}, given)
  /\ GivenLast(idQueue, Present, given)
  /\ given \subseteq Ids
  /\ \A i \in DOMAIN joining : joining[i].id \in given

(* ... and whoever is in the history, or in what a restart would read of   *)
(* it, has been given an id.                                               *)
IdInv ==
  /\ NamesInv
  /\ server # "up" => clients = << >>
  /\ server = "up" => Words(Held, Talk(given))
  /\ Recovered \in Seq(Talk(given))

(* The clients have been given their ids.                                  *)
LEMMA PresentGiven == ASSUME NamesInv PROVE Present \subseteq given
BY DEF NamesInv, GivenLast

(* The entries of a journal with one more.                                 *)
LEMMA ReplayedOn ==
  ASSUME NEW es \in Seq(UserEntry), NEW e \in UserEntry
  PROVE  AllEntered(NewIdQueue, Append(es, e))
           = setIdForName(AllEntered(NewIdQueue, es), e.id, e.name)
<1> DEFINE Q == {q \in [ids : Seq(Ids), nameIds : [Names -> Ids \cup {NoId}]] : AllIdsOnce(q)}
<1>1. \A q : q \in Q <=> AllIdsOnce(q)
  BY DEF AllIdsOnce
<1> HIDE DEF Q
<1>2. NewIdQueue \in Q
  BY <1>1, NewIdQueueOk
<1>3. \A q \in Q, m \in UserEntry : Entered(q, m) \in Q
  BY <1>1, SetIdForNameOk, ClientsAreIds DEF Entered, UserEntry
<1>4. AllEntered(NewIdQueue, Append(es, e)) = Entered(AllEntered(NewIdQueue, es), e)
  BY <1>2, <1>3, EnteredMore
<1>5. \A q : Entered(q, e) = setIdForName(q, e.id, e.name)
  BY DEF Entered
<1> QED BY <1>4, <1>5

(* A new entry gives the name its id, which is taken last from then on.    *)
LEMMA ReplayedMore ==
  ASSUME QueueInv, NEW e \in UserEntry, userEntries' = Append(userEntries, e)
  PROVE  Replayed' = setIdForName(Replayed, e.id, e.name)
<1>1. userEntries \in Seq(UserEntry)
  BY DEF QueueInv
<1>2. AllEntered(NewIdQueue, Append(userEntries, e))
        = setIdForName(AllEntered(NewIdQueue, userEntries), e.id, e.name)
  BY <1>1, ReplayedOn
<1>3. Replayed' = AllEntered(NewIdQueue, userEntries')
  BY DEF Replayed
<1> QED BY <1>2, <1>3, Zenon DEF Replayed

(* An empty journal gives the queue as it is at first.                     *)
LEMMA NothingEntered ==
  AllEntered(NewIdQueue, << >>) = NewIdQueue
<1> DEFINE Q == {q \in [ids : Seq(Ids), nameIds : [Names -> Ids \cup {NoId}]] : AllIdsOnce(q)}
<1>1. \A q : q \in Q <=> AllIdsOnce(q)
  BY DEF AllIdsOnce
<1> HIDE DEF Q
<1>2. NewIdQueue \in Q
  BY <1>1, NewIdQueueOk
<1>3. \A q \in Q, m \in UserEntry : Entered(q, m) \in Q
  BY <1>1, SetIdForNameOk, ClientsAreIds DEF Entered, UserEntry
<1> QED BY <1>2, <1>3, EnteredNone

(* Who is present when one more is there than those in P.                  *)
LEMMA ComerIs ==
  ASSUME NEW P, NEW s \in Seq([id : Clients, name : Names]), NEW c \in [id : Clients, name : Names],
         \A j \in DOMAIN s : s[j].id \in P, clients' = Append(s, c)
  PROVE  Present' \subseteq P \cup {c.id}
<1> DEFINE n == Len(s)
<1>1. /\ n \in Nat /\ DOMAIN s = 1 .. n /\ DOMAIN clients' = 1 .. (n + 1)
      /\ clients'[n + 1] = c /\ \A j \in 1 .. n : clients'[j] = s[j]
  BY LenProperties, AppendProperties
<1> HIDE DEF n
<1> SUFFICES ASSUME NEW j \in DOMAIN clients' PROVE clients'[j].id \in P \cup {c.id}
  BY DEF Present
<1>2. j \in 1 .. n \/ j = n + 1
  BY <1>1
<1> QED BY <1>1, <1>2

(* Who joins gets an id, ...                                               *)
LEMMA JoinNames ==
  ASSUME NamesInv, QueueInv, RecoverableInv, NEW name \in Names, NEW id \in Clients, Join(name, id)
  PROVE  NamesInv' /\ given' = given \cup {id}
<1> DEFINE a == assignId(idQueue, name, Present)
           who == [id |-> id, name |-> name]
           Who == [id : Clients, name : Names]
<1>1. /\ id = a.id /\ idQueue' = a.queue /\ userEntries' = userEntries
      /\ clients' = Append(clients, who) /\ Len(clients) < MaxUsers
      /\ joining' = <<who>> /\ given' = given \cup {id}
  BY DEF Join, Welcome
<1>2. \E free \in Ids : free \notin Present
  BY <1>1, IdIsFree
<1>3. GivenLast(a.queue, Present \cup {a.id}, given \cup {a.id})
  BY <1>2, GivenOut DEF QueueInv, NamesInv
<1>4. GivenLast(idQueue', Present \cup {id}, given')
  BY <1>1, <1>3, Zenon
<1>5. Present' \subseteq Present \cup {id}
  <2>1. who \in Who /\ who.id = id
    OBVIOUS
  <2>2. clients \in Seq(Who) /\ \A j \in DOMAIN clients : clients[j].id \in Present
    BY UsersAre DEF Present
  <2> HIDE DEF who
  <2>3. Present' \subseteq Present \cup {who.id}
    BY <1>1, <2>1, <2>2, ComerIs
  <2> QED BY <2>1, <2>3
<1> HIDE DEF a
<1>6. GivenLast(idQueue', Present', given')
  BY <1>4, <1>5, GivenMore
<1>7. Replayed' = Replayed
  BY <1>1 DEF Replayed
<1>8. GivenLast(Replayed', {}, given')
  <2>1. GivenLast(Replayed, {}, given) /\ given \subseteq given'
    BY <1>1 DEF NamesInv
  <2>2. GivenLast(Replayed, {}, given')
    BY <2>1, GivenMore
  <2> QED BY <1>7, <2>2, Zenon
<1>9. given' \subseteq Ids /\ \A i \in DOMAIN joining' : joining'[i].id \in given'
  BY <1>1, ClientsAreIds DEF NamesInv
<1> QED BY <1>1, <1>6, <1>7, <1>8, <1>9 DEF NamesInv

(* ... which gets the name in the journal too, ...                         *)
LEMMA EnterNames ==
  ASSUME NamesInv, QueueInv, Enter
  PROVE  NamesInv' /\ given' = given
<1> DEFINE c == joining[1]
<1>1. /\ idQueue' = setIdForName(idQueue, c.id, c.name) /\ joining' = << >> /\ given' = given
      /\ userEntries' = Append(userEntries, [id |-> c.id, name |-> c.name])
      /\ clients' = clients /\ joining # << >>
  BY DEF Enter, joinUser
<1>2. c \in UserEntry /\ c = [id |-> c.id, name |-> c.name] /\ c.id \in given
  <2>1. PICK d \in UserEntry : joining = <<d>>
    BY <1>1 DEF QueueInv, JoiningType
  <2>2. c = d /\ 1 \in DOMAIN joining
    BY <2>1
  <2> QED BY <2>2 DEF UserEntry, NamesInv
<1>3. c.id \in Ids /\ c.name \in Names
  BY <1>2, ClientsAreIds DEF UserEntry
<1> HIDE DEF c
<1>4. Present' = Present
  BY <1>1 DEF Present
<1>5. GivenLast(setIdForName(idQueue, c.id, c.name), Present, given)
  BY <1>2, <1>3, GivenName DEF NamesInv, QueueInv
<1>6. Replayed' = setIdForName(Replayed, c.id, c.name)
  <2>1. userEntries' = Append(userEntries, c)
    BY <1>1, <1>2
  <2> QED BY <1>2, <2>1, ReplayedMore
<1>7. /\ GivenLast(setIdForName(Replayed, c.id, c.name), {}, given)
      /\ AllIdsOnce(setIdForName(Replayed, c.id, c.name))
  <2> DEFINE q == Replayed
  <2>1. AllIdsOnce(q) /\ GivenLast(q, {}, given)
    BY DEF NamesInv
  <2> HIDE DEF q
  <2>2. LET r == setIdForName(q, c.id, c.name) IN GivenLast(r, {}, given) /\ AllIdsOnce(r)
    BY <1>2, <1>3, <2>1, GivenName
  <2> QED BY <2>2 DEF q
<1>8. GivenLast(idQueue', Present', given')
  BY <1>1, <1>4, <1>5, Zenon
<1>9. GivenLast(Replayed', {}, given') /\ AllIdsOnce(Replayed')
  BY <1>1, <1>6, <1>7, Zenon
<1>10. given' \subseteq Ids /\ \A i \in DOMAIN joining' : joining'[i].id \in given'
  BY <1>1 DEF NamesInv
<1> QED BY <1>1, <1>8, <1>9, <1>10 DEF NamesInv

(* Who stays has the name and the id they had.                             *)
LEMMA OthersAre ==
  ASSUME RecoverableInv, NEW i \in DOMAIN clients
  PROVE  /\ Others(i) \in Seq([id : Clients, name : Names])
         /\ \A j \in DOMAIN Others(i) : \E k \in DOMAIN clients : Others(i)[j] = clients[k]
<1> DEFINE n == Len(clients)
           r == RemoveAt(clients, i)
           Who == [id : Clients, name : Names]
<1>1. clients \in Seq(Who) /\ n \in Nat /\ DOMAIN clients = 1 .. n /\ i \in 1 .. n
  BY UsersAre, LenProperties
<1> HIDE DEF Who
<1>2. /\ r \in Seq(Who) /\ Len(r) = n - 1
      /\ \A j \in 1 .. (i - 1) : r[j] = clients[j]
      /\ \A j \in i .. (n - 1) : r[j] = clients[j + 1]
  BY <1>1, RemovedIs
<1>3. DOMAIN r = 1 .. (n - 1)
  BY <1>2, LenProperties
<1> HIDE DEF r, n
<1>4. ASSUME NEW j \in 1 .. (n - 1) PROVE \E k \in 1 .. n : r[j] = clients[k]
  <2>1. CASE j < i
    <3>1. j \in 1 .. (i - 1) /\ j \in 1 .. n
      BY <1>1, <2>1
    <3> QED BY <1>2, <3>1
  <2>2. CASE ~(j < i)
    <3>1. j \in i .. (n - 1) /\ j + 1 \in 1 .. n
      BY <1>1, <2>2
    <3> QED BY <1>2, <3>1
  <2> QED BY <2>1, <2>2
<1>5. Others(i) = r
  BY DEF Others, r
<1> QED BY <1>1, <1>2, <1>3, <1>4, <1>5 DEF Who

(* ... who joins again keeps the id, ...                                   *)
LEMMA RejoinNames ==
  ASSUME NamesInv, QueueInv, RecoverableInv, NEW i \in DOMAIN clients, Rejoin(i)
  PROVE  NamesInv' /\ given' = given /\ clients[i].id \in given
<1> DEFINE c == clients[i]
           Who == [id : Clients, name : Names]
<1>1. /\ clients' = Append(Others(i), c) /\ idQueue' = reserveId(idQueue, c.id)
      /\ joining' = <<c>> /\ given' = given \cup {c.id} /\ userEntries' = userEntries
  BY DEF Rejoin, Welcome
<1>2. c \in Who /\ c.id \in Present /\ c.id \in Ids /\ c.id \in given
  <2>1. c \in Who /\ c.id \in Present
    BY UsersAre DEF Present
  <2> QED BY <2>1, ClientsAreIds, PresentGiven
<1> HIDE DEF c
<1>3. GivenLast(reserveId(idQueue, c.id), Present \cup {c.id}, given)
  BY <1>2, GivenBack DEF NamesInv, QueueInv
<1>4. Present' \subseteq Present \cup {c.id}
  <2> DEFINE s == Others(i)
  <2>1. s \in Seq(Who) /\ \A j \in DOMAIN s : s[j].id \in Present
    BY OthersAre DEF Present
  <2>2. clients' = Append(s, c)
    BY <1>1
  <2> HIDE DEF s
  <2> QED BY <1>2, <2>1, <2>2, ComerIs
<1>5. given' = given
  BY <1>1, <1>2
<1>6. GivenLast(idQueue', Present \cup {c.id}, given')
  BY <1>1, <1>3, <1>5, Zenon
<1>7. GivenLast(idQueue', Present', given')
  BY <1>4, <1>6, GivenMore
<1>8. Replayed' = Replayed
  BY <1>1 DEF Replayed
<1>9. \A j \in DOMAIN joining' : joining'[j].id \in given'
  BY <1>1, <1>2, <1>5
<1> QED BY <1>2, <1>5, <1>7, <1>8, <1>9 DEF NamesInv, c

(* ... and who leaves has been given one.                                  *)
LEMMA RemoveUserNames ==
  ASSUME NamesInv, QueueInv, RecoverableInv, NEW i \in DOMAIN clients, removeUser(i)
  PROVE  NamesInv' /\ given' = given /\ clients[i].id \in given
<1> DEFINE id == clients[i].id
<1>1. /\ idQueue' = reserveId(idQueue, id) /\ clients' = Others(i)
      /\ UNCHANGED <<userEntries, joining, given>>
  BY DEF removeUser
<1>2. id \in Ids /\ id \in given
  <2>1. id \in Present /\ id \in Clients
    BY UsersAre DEF Present
  <2> QED BY <2>1, ClientsAreIds, PresentGiven
<1> HIDE DEF id
<1>3. GivenLast(reserveId(idQueue, id), Present \cup {id}, given)
  BY <1>2, GivenBack DEF NamesInv, QueueInv
<1>4. Present' \subseteq Present \cup {id}
  BY <1>1, OthersAre DEF Present
<1>5. GivenLast(idQueue', Present \cup {id}, given')
  BY <1>1, <1>3, Zenon
<1>6. GivenLast(idQueue', Present', given')
  BY <1>4, <1>5, GivenMore
<1>7. Replayed' = Replayed
  BY <1>1 DEF Replayed
<1> QED BY <1>1, <1>2, <1>6, <1>7 DEF NamesInv, id

----------------------------------------------------------------------------
(* Who is in the history has been given an id.                             *)

(* The more are known, the more may be said.                               *)
LEMMA TalkIs ==
  ASSUME NEW H, NEW K, H \subseteq K
  PROVE  /\ Talk(H) \subseteq Talk(K) /\ Neutral \subseteq Talk(K)
         /\ \A c \in Clients \cap K : JoinMsg(c) \in Talk(K) /\ LeaveMsg(c) \in Talk(K)
<1>1. Talk(H) \subseteq Talk(K) /\ Neutral \subseteq Talk(K)
  BY DEF Talk, Neutral
<1>2. ASSUME NEW c \in Clients \cap K PROVE JoinMsg(c) \in Talk(K) /\ LeaveMsg(c) \in Talk(K)
  BY MessagesAre, TypesAre DEF Talk
<1> QED BY <1>1, <1>2

(* Whoever is made to leave at a restart has joined.                       *)
LEMMA FarewellTalk ==
  ASSUME NEW K, NEW ms \in Seq(Talk(K)), NEW bye \in Farewells(UsersLeftIn(ms))
  PROVE  ms \o bye \in Seq(Talk(K))
<1> DEFINE S == UsersLeftIn(ms)
           n == Len(bye)
<1>1. S \subseteq Clients \cap K
  <2> SUFFICES ASSUME NEW c \in S PROVE c \in Clients /\ c \in K
    OBVIOUS
  <2>1. c \in Clients /\ \E i \in DOMAIN ms : ms[i] = JoinMsg(c)
    BY DEF UsersLeftIn
  <2>2. JoinMsg(c) \in Talk(K)
    BY <2>1, LenProperties, ElementOfSeq
  <2> QED BY <2>1, <2>2, TypesAre DEF Talk
<1>2. bye \in [1 .. Cardinality(S) -> {LeaveMsg(c) : c \in S}]
  BY DEF Farewells
<1> HIDE DEF S
<1>3. \A i \in DOMAIN bye : bye[i] \in Talk(K)
  <2>1. \A i \in DOMAIN bye : \E c \in S : bye[i] = LeaveMsg(c)
    BY <1>2
  <2>2. \A c \in S : LeaveMsg(c) \in Talk(K)
    BY <1>1, TalkIs
  <2> QED BY <2>1, <2>2
<1>4. bye \in Seq(Messages)
  BY ByeMessages
<1>5. n \in Nat /\ DOMAIN bye = 1 .. n
  BY <1>4, LenProperties
<1>6. bye = [i \in 1 .. n |-> bye[i]]
  BY <1>4, InSequence DEF IsSequence
<1>7. bye \in Seq(Talk(K))
  <2> HIDE DEF n
  <2> QED BY <1>3, <1>5, <1>6, IsASeq
<1> QED BY <1>7, ConcatProperties

(* A reset image speaks of those who are present.                          *)
LEMMA ServerSideTalk ==
  ASSUME RecoverableInv, NEW K, Present \subseteq K
  PROVE  /\ serverSideStateMessages \in Seq(Talk(K))
         /\ serverSideStateMessages \o <<ImageMsg(0)>> \in Seq(Talk(K))
<1> DEFINE n == Len(clients)
           joins == [i \in DOMAIN clients |-> JoinMsg(clients[i].id)]
<1>1. n \in Nat /\ DOMAIN clients = 1 .. n
  BY UsersAre, LenProperties
<1>2. ASSUME NEW i \in DOMAIN clients PROVE JoinMsg(clients[i].id) \in Talk(K)
  <2>1. clients[i].id \in Clients \cap K
    BY UsersAre DEF Present
  <2> QED BY <2>1, TalkIs
<1> HIDE DEF n
<1>3. joins \in Seq(Talk(K))
  BY <1>1, <1>2, IsASeq
<1>4. OwnerMsg(0) \in Talk(K) /\ ImageMsg(0) \in Talk(K)
  BY TalkIs, TypesAre
<1>5. serverSideStateMessages = joins \o <<OwnerMsg(0)>>
  BY DEF serverSideStateMessages
<1> HIDE DEF joins
<1>6. serverSideStateMessages \in Seq(Talk(K))
  BY <1>3, <1>4, <1>5
<1>7. serverSideStateMessages \o <<ImageMsg(0)>> \in Seq(Talk(K))
  BY <1>4, <1>6
<1> QED BY <1>6, <1>7

(* A step that leaves the users and their names alone.                     *)
LEMMA SameNames ==
  ASSUME NamesInv, UNCHANGED <<clients, idQueue, userEntries, joining, given>>
  PROVE  NamesInv'
<1>1. Replayed' = Replayed /\ Present' = Present
  BY DEF Replayed, Present
<1> QED BY <1>1 DEF NamesInv

(* A new session without users.                                            *)
LEMMA NoNames ==
  ASSUME NamesInv, NoOneLeft, userEntries' \in {userEntries, << >>}
  PROVE  NamesInv'
<1>1. clients' = << >> /\ idQueue' = NewIdQueue /\ joining' = << >> /\ given' = given
  BY DEF NoOneLeft
<1>2. Present' = {} /\ given' \subseteq Ids /\ \A i \in DOMAIN joining' : joining'[i].id \in given'
  BY <1>1 DEF Present, NamesInv
<1>3. GivenLast(NewIdQueue, {}, given')
  BY NewFront, GivenMore
<1>4. GivenLast(idQueue', Present', given')
  BY <1>1, <1>2, <1>3, Zenon
<1>5. AllIdsOnce(Replayed') /\ GivenLast(Replayed', {}, given')
  <2>1. CASE userEntries' = userEntries
    <3>1. Replayed' = Replayed
      BY <2>1 DEF Replayed
    <3> QED BY <1>1, <3>1 DEF NamesInv
  <2>2. CASE userEntries' = << >>
    <3>1. Replayed' = NewIdQueue
      BY <2>2, NothingEntered DEF Replayed
    <3> QED BY <1>3, <3>1, NewIdQueueOk, Zenon
  <2> QED BY <2>1, <2>2
<1> QED BY <1>2, <1>4, <1>5 DEF NamesInv

(* Whoever comes has been given an id, ...                                 *)
LEMMA JoinIds ==
  ASSUME DurableInv, QueueInv, IdInv, RecoverableInv',
         NEW name \in Names, NEW id \in Clients, Join(name, id)
  PROVE  NamesInv' /\ given \subseteq given' /\ Words(Held', Talk(given'))
<1> DEFINE H == given
           K == given'
<1>1. server = "up" /\ NamesInv' /\ K = H \cup {id}
  BY JoinNames DEF Join, Ready, DurableInv, IdInv
<1>2. PICK more \in Seq(Neutral \cup {JoinMsg(id)}) : Told(Held, Held', more)
  BY JoinTold
<1>3. Words(Held, Talk(H))
  BY <1>1 DEF IdInv
<1> HIDE DEF H, K
<1>4. H \subseteq K /\ Talk(H) \subseteq Talk(K) /\ Neutral \subseteq Talk(K)
      /\ Neutral \cup {JoinMsg(id)} \subseteq Talk(K)
  BY <1>1, TalkIs
<1>5. more \in Seq(Talk(K))
  BY <1>2, <1>4, SeqIn
<1>6. Words(Held', Talk(K))
  BY <1>2, <1>3, <1>4, <1>5, ToldWords
<1> QED BY <1>1, <1>4, <1>6 DEF H, K

(* ... whoever comes back has been, ...                                    *)
LEMMA RejoinIds ==
  ASSUME DurableInv, QueueInv, IdInv, RecoverableInv', NEW i \in DOMAIN clients, Rejoin(i)
  PROVE  NamesInv' /\ given \subseteq given' /\ Words(Held', Talk(given'))
<1> DEFINE H == given
           id == clients[i].id
<1>1. server = "up" /\ NamesInv' /\ given' = H /\ id \in H /\ id \in Clients
  BY RejoinNames, UsersAre DEF Rejoin, Ready, DurableInv, IdInv
<1>2. PICK more \in Seq(Neutral \cup {LeaveMsg(id), JoinMsg(id)}) : Told(Held, Held', more)
  BY RejoinTold
<1>3. Words(Held, Talk(H))
  BY <1>1 DEF IdInv
<1> HIDE DEF H, id
<1>4. Neutral \subseteq Talk(H) /\ Neutral \cup {LeaveMsg(id), JoinMsg(id)} \subseteq Talk(H)
  BY <1>1, TalkIs
<1>5. more \in Seq(Talk(H))
  BY <1>2, <1>4, SeqIn
<1>6. Words(Held', Talk(H))
  BY <1>2, <1>3, <1>4, <1>5, ToldWords
<1> QED BY <1>1, <1>6 DEF H

(* ... and whoever goes has been.                                          *)
LEMMA RemoveUserIds ==
  ASSUME DurableInv, QueueInv, IdInv, RecoverableInv', NEW i \in DOMAIN clients, removeUser(i)
  PROVE  NamesInv' /\ given \subseteq given' /\ Words(Held', Talk(given'))
<1> DEFINE H == given
           id == clients[i].id
<1>1. server = "up" /\ NamesInv' /\ given' = H /\ id \in H /\ id \in Clients
  BY RemoveUserNames, UsersAre DEF removeUser, Ready, DurableInv, IdInv
<1>2. PICK more \in Seq(Neutral \cup {LeaveMsg(id)}) : Told(Held, Held', more)
  BY RemoveUserTold
<1>3. Words(Held, Talk(H))
  BY <1>1 DEF IdInv
<1> HIDE DEF H, id
<1>4. Neutral \subseteq Talk(H) /\ Neutral \cup {LeaveMsg(id)} \subseteq Talk(H)
  BY <1>1, TalkIs
<1>5. more \in Seq(Talk(H))
  BY <1>2, <1>4, SeqIn
<1>6. Words(Held', Talk(H))
  BY <1>2, <1>3, <1>4, <1>5, ToldWords
<1> QED BY <1>1, <1>6 DEF H

(* Both kinds of resets begin with those who are present.                  *)
LEMMA ResetIds ==
  ASSUME "ResetPending" \notin Features, DurableInv, QueueInv, IdInv, RecoverableInv',
         NEW id \in Clients, StreamStart(id) \/ FullReset
  PROVE  NamesInv' /\ given \subseteq given' /\ Words(Held', Talk(given'))
<1> DEFINE H == given
           s == serverSideStateMessages
<1>1. server = "up" /\ UNCHANGED <<clients, idQueue, userEntries, joining, given>>
  BY DEF StreamStart, FullReset, Ready
<1>2. NamesInv' /\ given' = H /\ Words(Held, Talk(H))
  BY <1>1, SameNames DEF IdInv
<1>3. s \in Seq(Talk(H)) /\ s \o <<ImageMsg(0)>> \in Seq(Talk(H))
  BY PresentGiven, ServerSideTalk DEF IdInv, DurableInv
<1> HIDE DEF H
<1>4. CASE FullReset
  <2>1. Held'.messages = s \o <<ImageMsg(0)>> /\ Held'.resetStreamState = "None"
    BY <1>4, FullResetDurable
  <2> QED BY <1>2, <1>3, <2>1 DEF Words, H
<1>5. CASE StreamStart(id)
  <2> DEFINE m == SoftResetMsg
             n == StreamStartMsg(id, 0)
             M == Talk(H)
  <2>1. /\ Held'.messages = Held.messages \o StartMarkers(id)
        /\ Held'.resetStream = s /\ Held'.resetStreamIndex = Len(Held'.messages)
    BY <1>5, StreamStartDurable
  <2>2. m \in M /\ n \in M
    BY TypesAre, TalkIs
  <2>3. StartMarkers(id) = <<m, n>>
    BY DEF StartMarkers
  <2> HIDE DEF m, n, M
  <2>4. StartMarkers(id) \in Seq(M)
    BY <2>2, <2>3
  <2>5. Held.messages \in Seq(M)
    BY <1>2 DEF Words, M
  <2>6. Held'.messages \in Seq(M) /\ Len(Held'.messages) \in 0 .. Len(Held'.messages)
    <3>1. Held'.messages \in Seq(M)
      BY <2>1, <2>4, <2>5, ConcatProperties
    <3>2. Len(Held'.messages) \in Nat
      BY <3>1, LenProperties
    <3> QED BY <3>1, <3>2
  <2> QED BY <1>2, <1>3, <2>1, <2>6 DEF Words, M, H
<1> QED BY <1>4, <1>5

(* Other steps give nobody an id.                                          *)
LEMMA QuietIds ==
  ASSUME DurableInv, QueueInv, IdInv, RecoverableInv',
         \/ \E id \in Clients : Draw(id) \/ StreamData(id) \/ StreamAbort(id) \/ StreamFinish(id)
         \/ StreamResolve \/ Proceed \/ Flush \/ Fetch \/ CleanUp \/ Enter \/ UNCHANGED vars
  PROVE  /\ NamesInv' /\ given \subseteq given' /\ server' = server /\ clients' = clients
         /\ server' = "up" => Words(Held', Talk(given'))
<1> DEFINE H == given
<1>1. server' = server /\ clients' = clients
  BY DEF Draw, StreamData, addResetStreamMessage, StreamAbort, StreamFinish, prepareResetStream,
         StreamResolve, resolveStreamedReset_start, Proceed, resolveStreamedReset_journal,
         resolveStreamedReset_finish, reset_journal, reset_finish, Flush, flushRecording,
         Fetch, getBatch_load, CleanUp, cleanupBatches, Enter, vars
<1>2. NamesInv' /\ given' = H
  <2>1. CASE Enter
    BY <2>1, EnterNames DEF IdInv
  <2>2. CASE ~Enter
    <3>1. UNCHANGED <<clients, idQueue, userEntries, joining, given>>
      BY <2>2 DEF Draw, StreamData, StreamAbort, StreamFinish, StreamResolve, Proceed, Flush,
                  Fetch, CleanUp, vars
    <3> QED BY <3>1, SameNames DEF IdInv
  <2> QED BY <2>1, <2>2
<1>3. ASSUME server = "up" PROVE Words(Held', Talk(H))
  <2>1. Words(Held, Talk(H))
    BY <1>3 DEF IdInv
  <2> HIDE DEF H
  <2>2. CASE Replaced(Held, Held')
    BY <2>1, <2>2, ReplacedWords
  <2>3. CASE \E more \in Little : Told(Held, Held', more)
    <3>1. PICK more \in Little : Told(Held, Held', more)
      BY <2>3
    <3>2. Neutral \subseteq Talk(H) /\ Talk(H) \subseteq Talk(H)
      BY TalkIs
    <3>3. more \in Seq(Talk(H))
      BY <3>2, LittleIs, SeqIn
    <3> QED BY <2>1, <3>1, <3>2, <3>3, ToldWords
  <2> QED BY <2>2, <2>3, QuietTold
<1> QED BY <1>1, <1>2, <1>3

(* A session that is loaded has what the journal and the recording say.    *)
LEMMA RestartIds ==
  ASSUME DurableInv, QueueInv, IdInv, RecoverableInv', Restart
  PROVE  /\ NamesInv' /\ given \subseteq given' /\ clients' = << >>
         /\ server' = "up" => Words(Held', Talk(given'))
<1> DEFINE K == given
           ms == ScannedMessages(files[Last(journal)])
<1>1. /\ server = "down" /\ clients = << >> /\ given' = K
      /\ UNCHANGED <<clients, userEntries, joining, given>>
  BY DEF Restart, IdInv
<1>2. Replayed' = Replayed /\ Present' = {}
  BY <1>1 DEF Replayed, Present
<1>3. Recovered \in Seq(Talk(K))
  BY <1>1 DEF IdInv
<1>4. CASE loadFails /\ UNCHANGED idQueue
  <2>1. server' = "gone"
    BY <1>4 DEF loadFails
  <2>2. NamesInv'
    BY <1>1, <1>4, SameNames DEF IdInv
  <2> QED BY <1>1, <2>1, <2>2
<1>5. CASE /\ Last(journal) \in DOMAIN files
           /\ \E bye \in Farewells(UsersLeftIn(ms)) : load(bye) /\ idQueue' = loadedIdQueue(ms \o bye)
  <2>1. ms = Recovered
    BY <1>1, <1>5 DEF Recovered, DurableInv, RecoverableInv
  <2>2. PICK bye \in Farewells(UsersLeftIn(ms)) : idQueue' = loadedIdQueue(ms \o bye)
    BY <1>5
  <2>3. K \in SUBSET Ids /\ AllIdsOnce(Replayed) /\ GivenLast(Replayed, {}, K)
    BY DEF IdInv, NamesInv
  <2> HIDE DEF ms, K
  <2>4. ms \o bye \in Seq(Talk(K))
    BY <1>3, <2>1, <2>2, FarewellTalk
  <2>5. idQueue' = FoldLeft(Freed, Replayed, ms \o bye)
    BY <2>2 DEF loadedIdQueue, Replayed, AllEntered
  <2>6. GivenLast(idQueue', {}, K)
    <3> DEFINE all == ms \o bye
               q == Replayed
    <3>1. all \in Seq(Talk(K)) /\ AllIdsOnce(q) /\ GivenLast(q, {}, K)
      BY <2>3, <2>4
    <3> HIDE DEF all, q
    <3>2. LET r == FoldLeft(Freed, q, all) IN AllIdsOnce(r) /\ GivenLast(r, {}, K)
      BY <2>3, <3>1, FreedFront
    <3> QED BY <2>5, <3>2, Zenon DEF all, q
  <2>7. NamesInv'
    <3>1. GivenLast(idQueue', Present', given')
      BY <1>1, <1>2, <2>6, Zenon
    <3> QED BY <1>1, <1>2, <3>1 DEF IdInv, NamesInv
  <2>8. ASSUME server' = "up" PROVE Words(Held', Talk(K))
    <3>1. /\ Held'.resetStreamState = "None"
          /\ \E b \in Farewells(UsersLeftIn(Recovered)) : Held'.messages = Recovered \o b
      BY <2>8, RestartTold
    <3>2. PICK b \in Farewells(UsersLeftIn(Recovered)) : Held'.messages = Recovered \o b
      BY <3>1
    <3>3. Recovered \o b \in Seq(Talk(K))
      BY <1>3, FarewellTalk
    <3> QED BY <3>1, <3>2, <3>3 DEF Words
  <2> QED BY <1>1, <2>7, <2>8 DEF K
<1> QED BY <1>4, <1>5 DEF Restart

(* What a step leaves of the invariant.                                    *)
LEMMA NextGiven ==
  ASSUME "ResetPending" \notin Features, DurableInv, QueueInv, IdInv, RecoverableInv', [Next]_vars
  PROVE  /\ NamesInv' /\ (server' # "up" => clients' = << >>)
         /\ server' = "up" => Words(Held', Talk(given'))
         /\ given \subseteq given'
<1>1. CASE \E name \in Names, id \in Clients : Join(name, id)
  <2>1. server' = "up"
    BY <1>1 DEF Join, Ready
  <2> QED BY <1>1, <2>1, JoinIds
<1>2. CASE \E i \in DOMAIN clients : Rejoin(i) \/ removeUser(i)
  <2>1. server' = "up"
    BY <1>2 DEF Rejoin, removeUser, Ready
  <2> QED BY <1>2, <2>1, RejoinIds, RemoveUserIds
<1>3. CASE \E id \in Present : \/ Draw(id) \/ StreamStart(id) \/ StreamData(id)
                               \/ StreamAbort(id) \/ StreamFinish(id)
  <2>1. PICK id \in Clients : \/ Draw(id) \/ StreamStart(id) \/ StreamData(id)
                              \/ StreamAbort(id) \/ StreamFinish(id)
    BY <1>3, PresentType DEF DurableInv
  <2>2. CASE StreamStart(id)
    <3>1. server' = "up"
      BY <2>2 DEF StreamStart, openResetStream, Ready
    <3> QED BY <2>2, <3>1, ResetIds
  <2>3. CASE Draw(id) \/ StreamData(id) \/ StreamAbort(id) \/ StreamFinish(id)
    <3>1. /\ NamesInv' /\ given \subseteq given' /\ server' = server /\ clients' = clients
          /\ server' = "up" => Words(Held', Talk(given'))
      BY <2>3, QuietIds
    <3> QED BY <3>1 DEF IdInv
  <2> QED BY <2>1, <2>2, <2>3
<1>4. CASE FullReset
  <2>1. server' = "up" /\ clients # << >> /\ server = "up"
    BY <1>4 DEF FullReset, reset_start, Ready
  <2>2. \E id : id \in Clients
    BY ClientsAreIds, IdQueueAssumption DEF Ids
  <2> QED BY <1>4, <2>1, <2>2, ResetIds
<1>5. CASE StreamResolve \/ Proceed \/ Flush \/ Fetch \/ CleanUp \/ Enter \/ UNCHANGED vars
  <2>1. /\ NamesInv' /\ given \subseteq given' /\ server' = server /\ clients' = clients
        /\ server' = "up" => Words(Held', Talk(given'))
    BY <1>5, QuietIds
  <2> QED BY <2>1 DEF IdInv
<1>6. CASE Fail \/ Stop \/ End
  <2>1. NoOneLeft /\ server' # "up" /\ userEntries' \in {userEntries, << >>}
    BY <1>6 DEF Fail, Crash, Stop, Shutdown, End, terminate
  <2>2. NamesInv' /\ clients' = << >> /\ given' = given
    BY <2>1, NoNames DEF IdInv, NoOneLeft
  <2> QED BY <2>1, <2>2
<1>7. CASE Restart
  BY <1>7, RestartIds
<1> QED BY <1>1, <1>2, <1>3, <1>4, <1>5, <1>6, <1>7 DEF Next, SessionNext

(* Without a running server there is no history in memory.                 *)
LEMMA HeldWords ==
  ASSUME NEW M, server = "up" => Words(Held, M), RecoverableInv
  PROVE  Held.messages \in Seq(M)
<1>1. CASE server = "up"
  BY <1>1 DEF Words
<1>2. CASE server # "up"
  <2>1. Held = HistOf(<< >>, files, fh)
    BY <1>2, HeldQuiet DEF RecoverableInv
  <2>2. Held.messages = << >>
    BY <2>1, HistOfHas
  <2> QED BY <2>2, EmptySeq
<1> QED BY <1>1, <1>2

(* What a restart would read holds no more than before or than the session *)
(* had.                                                                    *)
LEMMA NextIds ==
  ASSUME "ResetPending" \notin Features, DurableInv, QueueInv, IdInv, RecoverableInv', DiskInv',
         [Next]_vars, [Durable!Next]_(Durable!vars)
  PROVE  IdInv'
<1>1. /\ NamesInv' /\ (server' # "up" => clients' = << >>)
      /\ server' = "up" => Words(Held', Talk(given'))
      /\ given \subseteq given'
  BY NextGiven
<1> DEFINE H == given
           K == given'
<1>2. Recovered' \in Seq(Talk(K))
  <2>1. Recovered \in Seq(Talk(H)) /\ Held.messages \in Seq(Talk(H))
    BY HeldWords DEF IdInv, DurableInv
  <2>2. Held'.messages \in Seq(Talk(K))
    <3>1. CASE server' = "up"
      BY <1>1, <3>1 DEF Words
    <3>2. CASE server' # "up"
      <4>1. Held' = HistOf(<< >>, files', fh')
        BY <3>2, HeldNext DEF RecoverableInv
      <4>2. Held'.messages = << >>
        BY <4>1, HistOfHas
      <4> QED BY <4>2, EmptySeq
    <3> QED BY <3>1, <3>2
  <2>3. H \subseteq K
    BY <1>1
  <2> HIDE DEF H, K
  <2>4. Talk(H) \subseteq Talk(K)
    BY <2>3, TalkIs
  <2>5. Recovered \in Seq(Talk(K)) /\ Held.messages \in Seq(Talk(K))
    BY <2>1, <2>4, SeqIn
  <2> QED BY <2>2, <2>5, SavedNext
<1>3. Words(Held', Talk(K)) = Words(Held, Talk(given))'
  BY DEF Words, Talk
<1> QED BY <1>1, <1>2, <1>3 DEF IdInv, Talk

(* At first no id has been given and nothing is said.                      *)
LEMMA InitIds == StoredInit => IdInv
<1> SUFFICES ASSUME StoredInit PROVE IdInv
  OBVIOUS
<1>1. /\ server = "up" /\ clients = << >> /\ userEntries = << >> /\ idQueue = NewIdQueue
      /\ joining = << >> /\ given = {}
  BY DEF StoredInit, FiledInit
<1>2. Replayed = NewIdQueue /\ Present = {}
  BY <1>1, NothingEntered DEF Replayed, Present
<1>3. NamesInv
  BY <1>1, <1>2, NewFront, NewIdQueueOk DEF NamesInv
<1>4. Recovered = << >> /\ Held = Durable!Nothing
  BY InitDurable DEF Durable!Init, Held
<1>5. Held.messages = << >> /\ Held.resetStreamState = "None"
  BY <1>4 DEF Durable!Nothing, Durable!NewHistory
<1> QED BY <1>1, <1>3, <1>4, <1>5, EmptySeq DEF IdInv, Words

(* The first free id is one that nobody has been given, if there is one.   *)
LEMMA FirstUnhad ==
  ASSUME RecoverableInv, QueueInv, IdInv, NEW name \in Names, NEW id \in IdsHad, Join(name, id),
         getIdForName(idQueue, name) = NoId
  PROVE  Clients \subseteq given
<1> DEFINE q == idQueue
<1>1. id = assignId(q, name, Present).id /\ Len(clients) < MaxUsers
  BY DEF Join
<1>2. AllIdsOnce(q) /\ \E free \in Ids : free \notin Present
  BY <1>1, IdIsFree DEF QueueInv
<1>3. PICK k \in 1 .. MaxId :
        id = q.ids[k] /\ \A j \in 1 .. (k - 1) : q.ids[j] \in Present
  BY <1>1, <1>2, AssignIdIs
<1>4. PICK H \in SUBSET given : Present \cup Had(q) \subseteq H /\ UnhadFirst(q.ids, H)
  BY DEF IdInv, NamesInv, GivenLast
<1>5. /\ ToSet(q.ids) = Ids /\ Len(q.ids) = MaxId /\ DOMAIN q.ids = 1 .. MaxId /\ MaxId \in Nat
      /\ q.ids[k] # NoId
  BY <1>2, IdQueueAssumption, LenProperties, ElementOfSeq DEF AllIdsOnce, Ids, NoId
<1>6. id \in H
  BY <1>3, <1>4, <1>5 DEF Had, IdsHad, getIdForName
<1> HIDE DEF q
<1> SUFFICES ASSUME NEW x \in Clients, x \notin given PROVE FALSE
  OBVIOUS
<1>7. PICK j \in 1 .. MaxId : x = q.ids[j]
  BY <1>5, ClientsAreIds DEF ToSet
<1>8. k < j
  <2>1. j \notin 1 .. (k - 1) /\ j # k
    BY <1>3, <1>4, <1>6, <1>7
  <2> QED BY <1>5, <2>1
<1>9. q.ids[k] \notin H
  BY <1>4, <1>5, <1>7, <1>8 DEF UnhadFirst
<1> QED BY <1>3, <1>6, <1>9

(* A newcomer does not get an id that some name has had while another has  *)
(* never been given to anybody, also after a restart or a crash, one       *)
(* between the two writes of a join too: the names read from the journal   *)
(* and the leaves read from the recording put no id to the end of the      *)
(* queue that has not been given out (idqueue.cpp, Session::assignId,      *)
(* FiledHistory::scanBlocks).                                              *)
THEOREM IdsReusedLate ==
  ASSUME "ResetPending" \notin Features
  PROVE  StoredSpec => LateReuse
<1> DEFINE Inv == DurableInv /\ QueueInv /\ IdInv
<1>1. StoredInit => Inv
  <2>1. StoredInit => QueueInv
    BY NewIdQueueOk DEF QueueInv, JoiningType, StoredInit
  <2> QED BY <2>1, InitRecoverable, InitIndex, InitDurable, InitIds DEF DurableInv
<1>2. Inv /\ [Next]_vars => Inv'
  <2> SUFFICES ASSUME DurableInv, QueueInv, IdInv, [Next]_vars
               PROVE  DurableInv' /\ QueueInv' /\ IdInv'
    OBVIOUS
  <2>1. RecoverableInv' /\ IndexInv' /\ QueueInv'
    BY NextRecoverable, NextIndexed, NextTyped DEF DurableInv, StoredTypeInv
  <2>2. DiskInv' /\ [Durable!Next]_(Durable!vars)
    BY <2>1, NextDurable
  <2>3. IdInv'
    BY <2>1, <2>2, NextIds
  <2> QED BY <2>1, <2>2, <2>3 DEF DurableInv
<1>3. Inv /\ [Next]_vars =>
        [\A name \in Names, id \in IdsHad :
           Join(name, id) /\ getIdForName(idQueue, name) = NoId =>
             Clients \subseteq given]_vars
  BY FirstUnhad DEF DurableInv
<1> QED BY <1>1, <1>2, <1>3, PTL DEF StoredSpec, LateReuse
=============================================================================
