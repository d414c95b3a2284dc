----------------------------- MODULE FiledHistory -----------------------------
(***************************************************************************)
(* The history of a session kept in files (filedhistory.cpp): a journal,   *)
(* which names the recordings the session has had, and the last of these,  *)
(* which holds the messages.  A streamed reset writes a second recording;  *)
(* a full reset begins a new one.  The history is read through an index    *)
(* of blocks, each with its place in the file and, once it has been read,  *)
(* its messages.                                                           *)
(*                                                                         *)
(* A recording is a sequence of cells: its header, then one per message,   *)
(* so that an offset in the file is a number of cells.  What is written to *)
(* a file stays with the process until the file is flushed.  The server    *)
(* may stop between two writes to the disk; where a method makes several,  *)
(* each that a restart can tell is an action, and call says how far the    *)
(* method has come.  Which files that no journal names are left behind     *)
(* makes no difference to a restart.                                       *)
(*                                                                         *)
(* A torn message is one cell, so that the next write covers it as a whole *)
(* (scanBlocks only seeks to where it began).                              *)
(***************************************************************************)
EXTENDS SessionHistory, SequencesExt

CONSTANT MaxBlockSize   \* MAX_BLOCK_SIZE, in messages

ASSUME FiledHistoryAssumption == MaxBlockSize \in Nat

VARIABLES
  files,    \* the recordings in the session directory, by name
  journal,  \* the names in the FILE entries of the journal, oldest first
  fh,       \* the FiledHistory of the running server
  call,     \* the step a reset has come to
  server    \* "up", "down", or "gone" when the session has ended

HeaderCell == [type |-> "Header"]
TornCell   == [type |-> "Torn"]   \* the first part of a message

----------------------------------------------------------------------------
(* Files.                                                                  *)

NoFile == [name |-> <<0, 0>>, pos |-> 0, unsaved |-> << >>]

(* A recording that has just been opened, with its header written.         *)
openRecording(name) == [name |-> name, pos |-> 1, unsaved |-> << >>]

Written(f, ms) == [f EXCEPT !.pos = @ + Len(ms), !.unsaved = @ \o ms]

(* The file as the process sees it; flushing makes it so on the disk.      *)
Seen(fs, f) ==
  LET cells == fs[f.name]
  IN SubSeq(cells, 1, f.pos - Len(f.unsaved)) \o f.unsaved \o SubSeq(cells, f.pos + 1, Len(cells))

Flushed(fs, f) == [fs EXCEPT ![f.name] = Seen(fs, f)]

Recorded(fs, f) == SubSeq(Seen(fs, f), 2, f.pos)

atEnd(fs, f) == f.pos = Len(Seen(fs, f))

WithNew(fs, name)   == [n \in DOMAIN fs \cup {name} |-> IF n = name THEN <<HeaderCell>> ELSE fs[n]]
Without(fs, name)   == [n \in DOMAIN fs \ {name} |-> fs[n]]

(* The first of the names for the recording idx that no file has.          *)
uniqueRecordingFilename(fs, idx, name) ==
  \E n \in 0..Cardinality(DOMAIN fs) :
    /\ name = <<idx, n>> /\ name \notin DOMAIN fs
    /\ \A k \in 0..(n - 1) : <<idx, k>> \in DOMAIN fs

----------------------------------------------------------------------------
(* The index of blocks.                                                    *)

Block(offset, index) ==
  [startOffset |-> offset, startIndex |-> index, count |-> 0, endOffset |-> offset,
   messages |-> << >>]

NextIndex(b) == b.startIndex + b.count

Extended(bs, b) == [bs EXCEPT ![Len(bs)] = b]

incrementBlock(bs) ==
  LET last == Last(bs)
      b    == [last EXCEPT !.count = @ + 1, !.endOffset = @ + 1]
  IN IF b.endOffset - b.startOffset > MaxBlockSize
     THEN Append(Extended(bs, b), Block(b.endOffset, NextIndex(b)))
     ELSE Extended(bs, b)

(* A block that has not been read stays so.                                *)
addToLastBlock(bs, m) ==
  IF Last(bs).messages = << >> THEN incrementBlock(bs)
  ELSE incrementBlock(Extended(bs, [Last(bs) EXCEPT !.messages = Append(@, m)]))

(* For a message that is kept in the file only.                            *)
incrementLastBlock(bs, m) == incrementBlock(bs)

(* The index of ms at an offset.                                           *)
Indexed(offset, index, ms) == FoldLeft(incrementLastBlock, <<Block(offset, index)>>, ms)

closeLastBlock(bs) ==
  IF Last(bs).count = 0 THEN bs ELSE Append(bs, Block(Last(bs).endOffset, NextIndex(Last(bs))))

findBlock(bs, after) ==
  CHOOSE i \in DOMAIN bs :
    /\ i = 1 \/ NextIndex(bs[i - 1]) - 1 <= after
    /\ \A j \in (i + 1)..Len(bs) : NextIndex(bs[j - 1]) - 1 > after

cleanup(bs, before) ==
  [i \in DOMAIN bs |->
     IF \A j \in 1..i : NextIndex(bs[j]) < before THEN [bs[i] EXCEPT !.messages = << >>] ELSE bs[i]]

totalMessageCount(bs) == NextIndex(Last(bs)) - bs[1].startIndex

(* A block that is moved to the end of the index.                          *)
Moved(bs, b) ==
  LET end == Last(bs).endOffset
  IN Append(bs, [b EXCEPT !.startIndex = NextIndex(Last(bs)), !.startOffset = end,
                          !.endOffset = end + b.endOffset - b.startOffset])

(* Mutant: the blocks that are moved keep their places in the file.        *)
replaceWithResetStream_unmoved(bs, stream, blockIndex, newFirstIndex) ==
  FoldLeft(LAMBDA to, b : Append(to, [b EXCEPT !.startIndex = NextIndex(Last(to))]),
           [i \in DOMAIN stream |-> [stream[i] EXCEPT !.startIndex = @ + newFirstIndex]],
           SubSeq(bs, blockIndex, Len(bs)))

replaceWithResetStream(bs, stream, blockIndex, newFirstIndex) ==
  FoldLeft(Moved,
           [i \in DOMAIN stream |-> [stream[i] EXCEPT !.startIndex = @ + newFirstIndex]],
           SubSeq(bs, blockIndex, Len(bs)))

(* What is in the file where the block is.                                 *)
BlockRead(b) ==
  LET cells == Seen(files, fh.recording)
      end   == b.startOffset + b.count
  IN SubSeq(cells, b.startOffset + 1, IF end <= Len(cells) THEN end ELSE Len(cells))

(* The rest of the block with the message that follows after, and the      *)
(* index of the last message in it.                                        *)
Batch(after) ==
  LET b      == fh.blocks[findBlock(fh.blocks, after)]
      offset == IF after < b.startIndex THEN 0 ELSE after - b.startIndex + 1
      ms     == IF b.messages # << >> THEN b.messages ELSE BlockRead(b)
  IN [messages |-> IF offset >= b.count THEN << >> ELSE SubSeq(ms, offset + 1, Len(ms)),
      last |-> NextIndex(b) - 1]

----------------------------------------------------------------------------
(* A history whose recording has been opened.                              *)
NewFiledHistory(name, fileCount) ==
  [firstIndex |-> 0, lastIndex |-> -1, sizeInBytes |-> 0, autoResetBaseSize |-> 0,
   resetStreamState |-> "None", ctxId |-> 0, resetStreamSize |-> 0,
   resetStreamStartIndex |-> 0, resetStreamMessageCount |-> 0,
   recording |-> openRecording(name), blocks |-> <<Block(1, 0)>>, fileCount |-> fileCount,
   streamRecording |-> NoFile, streamFileCount |-> -1, forkPos |-> 0,
   streamBlocks |-> << >>, streamBlockIndex |-> 0]

NoHistory == NewFiledHistory(<<0, 0>>, 0)

NoCall == [at |-> "none", old |-> <<0, 0>>, messages |-> << >>]

FiledInit ==
  /\ files = WithNew([n \in {} |-> << >>], <<1, 0>>)
  /\ journal = <<(<<1, 0>>)>>
  /\ fh = NewFiledHistory(<<1, 0>>, 1)
  /\ call = NoCall
  /\ server = "up"

Ready == server = "up" /\ call.at = "none"

historyAdd(h, ms) ==
  [h EXCEPT !.recording = Written(@, ms), !.blocks = FoldLeft(addToLastBlock, @, ms)]

AddInternal(h, m) ==
  [historyAdd(h, <<m>>) EXCEPT !.sizeInBytes = @ + 1, !.lastIndex = @ + 1]

addMessage(h, m) == IF hasRegularSpaceFor(h, 1) THEN AddInternal(h, m) ELSE h

(* ThinSession::addToHistory: what everybody must know may use the         *)
(* emergency space.                                                        *)
addToHistory(h, m) ==
  IF \/ hasRegularSpaceFor(h, 1)
     \/ m.type \in {"Join", "Leave", "SessionOwner"} /\ hasEmergencySpaceFor(h, 1)
  THEN AddInternal(h, m) ELSE h

----------------------------------------------------------------------------
(* Streamed resets.                                                        *)

Discarded(h) ==
  [h EXCEPT !.fileCount = IF h.streamFileCount = @ THEN @ - 1 ELSE @, !.streamFileCount = -1,
            !.streamBlocks = << >>, !.streamRecording = NoFile]

discardFile(fs, h) ==
  IF h.streamRecording = NoFile THEN fs ELSE Without(fs, h.streamRecording.name)

AbortedBy(h, ctxId) ==
  IF StreamedResetBy(h, ctxId) THEN [Discarded(h) EXCEPT !.resetStreamState = "None", !.ctxId = 0]
  ELSE h

filesAfterAbort(fs, h, ctxId) == IF StreamedResetBy(h, ctxId) THEN discardFile(fs, h) ELSE fs

(* The recording of the stream is opened after the markers are added.  As  *)
(* in a release build, it takes the place of one that is still open, which *)
(* Q_ASSERT(!m_resetStreamRecording) forbids.                              *)
openResetStream(ctxId, serverSideState) ==
  LET h  == AddInternal(AddInternal(fh, SoftResetMsg), StreamStartMsg(ctxId, 0))
      bs == closeLastBlock(h.blocks)
  IN /\ StartResult(fh) = "Ok"
     /\ \E n \in 0..Cardinality(DOMAIN files) :
          LET name == <<h.fileCount + 1, n>>
          IN /\ uniqueRecordingFilename(files, h.fileCount + 1, name)
             /\ files' = WithNew(files, name)
             /\ fh' = [h EXCEPT !.fileCount = @ + 1, !.streamFileCount = h.fileCount + 1,
                                !.forkPos = h.recording.pos, !.blocks = bs,
                                !.streamBlockIndex = Len(bs),
                                !.streamBlocks = Indexed(1, 0, serverSideState),
                                !.streamRecording = Written(openRecording(name), serverSideState),
                                !.resetStreamState = "Streaming", !.ctxId = ctxId,
                                !.resetStreamSize = 0, !.resetStreamMessageCount = 0,
                                !.resetStreamStartIndex = h.lastIndex + 1]
     /\ UNCHANGED <<journal, call, server>>

WithImage(h, m) ==
  [h EXCEPT !.streamRecording = Written(@, <<m>>), !.streamBlocks = incrementLastBlock(@, m)]

addResetStreamMessage(ctxId, m) ==
  /\ AddResult(fh, ctxId) = "Ok"
  /\ fh' = [WithImage(fh, m) EXCEPT !.resetStreamSize = @ + 1, !.resetStreamMessageCount = @ + 1]
  /\ UNCHANGED <<files, journal, call, server>>

prepareResetStream(ctxId, expected) ==
  /\ \/ LET h == WithImage(fh, CaughtUpMsg)
        IN /\ PrepareResult(fh, ctxId, expected) = "Ok"
           /\ files' = Flushed(files, h.streamRecording)
           /\ fh' = [h EXCEPT !.streamRecording.unsaved = << >>,
                              !.resetStreamState = "Prepared", !.ctxId = 0]
     \/ /\ PrepareResult(fh, ctxId, expected) = "InvalidMessageCount"
        /\ files' = filesAfterAbort(files, fh, -1)
        /\ fh' = AbortedBy(fh, -1)
  /\ UNCHANGED <<journal, call, server>>

isStreamResetIoAvailable == atEnd(files, fh.recording) /\ atEnd(files, fh.streamRecording)

(* What has been added since the stream was started.                       *)
ForkMessages == SubSeq(Seen(files, fh.recording), fh.forkPos + 1, Len(Seen(files, fh.recording)))

ResolvedFits ==
  /\ fh.forkPos <= fh.recording.pos
  /\ SizeLimit = 0 \/ (fh.recording.pos - fh.forkPos) + (fh.streamRecording.pos - 1) <= SizeLimit

(* Mutant: the file of the stream is not flushed.                          *)
copyForkMessagesToResetStream_unflushed ==
  /\ files' = Flushed(files, fh.recording)
  /\ fh' = [fh EXCEPT !.recording.unsaved = << >>, !.streamRecording.pos = @ + Len(ForkMessages),
                      !.streamRecording.unsaved = @ \o ForkMessages]

copyForkMessagesToResetStream ==
  /\ files' = [Flushed(files, fh.recording) EXCEPT ![fh.streamRecording.name] =
                 Seen(files, fh.streamRecording) \o ForkMessages]
  /\ fh' = [fh EXCEPT !.recording.unsaved = << >>, !.streamRecording.pos = @ + Len(ForkMessages),
                      !.streamRecording.unsaved = << >>]

(* When it does not fit, the file of the stream stays open.                *)
resolveStreamedReset_start ==
  /\ isResetStreamPending(fh) /\ isStreamResetIoAvailable
  /\ \/ ResolvedFits /\ copyForkMessagesToResetStream /\ call' = [call EXCEPT !.at = "copied"]
     \/ /\ ~ResolvedFits
        /\ files' = Flushed(Flushed(files, fh.recording), fh.streamRecording)
        /\ fh' = [fh EXCEPT !.recording.unsaved = << >>, !.streamRecording.unsaved = << >>,
                            !.resetStreamState = "None", !.ctxId = 0]
        /\ UNCHANGED call
  /\ UNCHANGED <<journal, server>>

(* Mutant: the write fails, which is only logged.                          *)
writeFileEntryToJournal_fails(name) == journal' = journal

writeFileEntryToJournal(name) == journal' = Append(journal, name)

resolveStreamedReset_journal ==
  /\ call.at = "copied" /\ server = "up"
  /\ writeFileEntryToJournal(fh.streamRecording.name)
  /\ call' = [call EXCEPT !.at = "journalled"]
  /\ UNCHANGED <<files, fh, server>>

Resolved(h) ==
  LET bs == replaceWithResetStream(h.blocks, h.streamBlocks, h.streamBlockIndex, h.lastIndex + 1)
  IN [h EXCEPT !.recording = h.streamRecording, !.streamRecording = NoFile,
               !.blocks = bs, !.streamBlocks = << >>,
               !.resetStreamState = "None", !.ctxId = 0,
               !.sizeInBytes = h.streamRecording.pos - 1,
               !.firstIndex = h.lastIndex + 1, !.lastIndex = @ + totalMessageCount(bs),
               !.autoResetBaseSize = h.resetStreamSize]

resolveStreamedReset_finish ==
  /\ call.at = "journalled" /\ server = "up"
  /\ files' = Without(files, fh.recording.name)
  /\ fh' = Resolved(fh)
  /\ call' = NoCall
  /\ UNCHANGED <<journal, server>>

----------------------------------------------------------------------------
(* Full resets: close the recording and open a new one, name it in the     *)
(* journal, remove the old one, write the messages.  The first step also   *)
(* removes the file of a stream; a stop within it leaves what a stop after *)
(* a flush leaves, and files that no journal names.                        *)

reset_start(newHistory) ==
  LET fs == filesAfterAbort(Flushed(files, fh.recording), fh, -1)
      h  == AbortedBy(fh, -1)
      n  == Len(newHistory)
  IN /\ resetOk(newHistory)
     /\ \E k \in 0..Cardinality(DOMAIN fs) :
          LET name == <<h.fileCount + 1, k>>
          IN /\ uniqueRecordingFilename(fs, h.fileCount + 1, name)
             /\ files' = WithNew(fs, name)
             /\ fh' = [h EXCEPT !.sizeInBytes = n, !.firstIndex = h.lastIndex + 1,
                                !.lastIndex = @ + n, !.autoResetBaseSize = n,
                                !.fileCount = @ + 1, !.recording = openRecording(name),
                                !.blocks = <<Block(1, h.lastIndex + 1)>>]
     /\ call' = [at |-> "opened", old |-> fh.recording.name, messages |-> newHistory]
     /\ UNCHANGED <<journal, server>>

reset_journal ==
  /\ call.at = "opened" /\ server = "up"
  /\ writeFileEntryToJournal(fh.recording.name)
  /\ call' = [call EXCEPT !.at = "named"]
  /\ UNCHANGED <<files, fh, server>>

(* And the message that the session adds to its new history.               *)
reset_finish(m) ==
  /\ call.at = "named" /\ server = "up"
  /\ files' = Without(files, call.old)
  /\ fh' = addMessage(historyAdd(fh, call.messages), m)
  /\ call' = NoCall
  /\ UNCHANGED <<journal, server>>

----------------------------------------------------------------------------
(* Reading and flushing.                                                   *)

(* Mutant: not while a reset is streamed.                                  *)
flushRecording_not_streaming ==
  /\ fh.resetStreamState = "None"
  /\ fh.recording.unsaved # << >>
  /\ files' = Flushed(files, fh.recording)
  /\ fh' = [fh EXCEPT !.recording.unsaved = << >>]
  /\ UNCHANGED <<journal, call, server>>

flushRecording ==
  /\ fh.recording.unsaved # << >>
  /\ files' = Flushed(files, fh.recording)
  /\ fh' = [fh EXCEPT !.recording.unsaved = << >>]
  /\ UNCHANGED <<journal, call, server>>

(* Reading a block flushes the file, which is positioned back and forth.   *)
getBatch_load(after) ==
  LET i == findBlock(fh.blocks, after)
      b == fh.blocks[i]
  IN /\ after < NextIndex(b) - 1
     /\ b.messages = << >>
     /\ files' = Flushed(files, fh.recording)
     /\ fh' = [fh EXCEPT !.recording.unsaved = << >>, !.blocks[i].messages = BlockRead(b)]
     /\ UNCHANGED <<journal, call, server>>

cleanupBatches(before) ==
  /\ fh' = [fh EXCEPT !.blocks = cleanup(@, before)]
  /\ UNCHANGED <<files, journal, call, server>>

----------------------------------------------------------------------------
(* The end of the process and its start.                                   *)

(* The first k cells of what the process had not flushed have reached the  *)
(* disk, and perhaps a part of the next.                                   *)
Crash(k, torn) ==
  LET f     == fh.recording
      cells == files[f.name]
      at    == f.pos - Len(f.unsaved) + k
  IN /\ server = "up"
     /\ torn => k < Len(f.unsaved)
     /\ files' = [files EXCEPT ![f.name] =
          SubSeq(Seen(files, f), 1, at) \o
          (IF torn THEN <<TornCell>> ELSE SubSeq(cells, at + 1, Len(cells)))]
     /\ server' = "down" /\ fh' = NoHistory /\ call' = NoCall
     /\ UNCHANGED journal

(* Files are flushed when they are closed; that of a stream stays behind.  *)
Shutdown ==
  /\ files' = LET fs == Flushed(files, fh.recording)
              IN IF fh.streamRecording = NoFile THEN fs ELSE Flushed(fs, fh.streamRecording)
  /\ server' = "down" /\ fh' = NoHistory /\ call' = NoCall
  /\ UNCHANGED journal

terminate ==
  /\ files' = Without(discardFile(files, fh), fh.recording.name)
  /\ journal' = << >>
  /\ server' = "gone" /\ fh' = NoHistory /\ call' = NoCall

(* The messages of a recording up to one that is truncated.                *)
ScannedMessages(cells) ==
  SubSeq(cells, 2, IF Last(cells) = TornCell THEN Len(cells) - 1 ELSE Len(cells))

(* Who is in the session at the end of a recording.                        *)
UsersLeftIn(ms) ==
  {c \in Clients : \E i \in DOMAIN ms :
     ms[i] = JoinMsg(c) /\ \A j \in (i + 1)..Len(ms) : ms[j] # LeaveMsg(c)}

(* load and scanBlocks; bye are the leaves of users still in the recording.*)
load(bye) ==
  LET name == Last(journal)
      ms   == ScannedMessages(files[name])
      all  == ms \o bye
  IN /\ all # << >>
     /\ fh' = [NewFiledHistory(name, Len(journal)) EXCEPT
                 !.recording = [name |-> name, pos |-> 1 + Len(all), unsaved |-> bye],
                 !.blocks = Indexed(1, 0, all), !.lastIndex = Len(all) - 1,
                 !.sizeInBytes = Len(all), !.autoResetBaseSize = Len(all)]
     /\ server' = "up"
     /\ UNCHANGED <<files, journal, call>>

loadFails ==
  /\ Last(journal) \notin DOMAIN files \/ ScannedMessages(files[Last(journal)]) = << >>
  /\ server' = "gone"
  /\ UNCHANGED <<files, journal, fh, call>>
=============================================================================
