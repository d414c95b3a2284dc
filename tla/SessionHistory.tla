---------------------------- MODULE SessionHistory ----------------------------
(***************************************************************************)
(* The server's history of one session (sessionhistory.cpp), kept in       *)
(* memory (inmemoryhistory.cpp): the messages since the last reset, with   *)
(* indices that never repeat, and the image of a streamed reset that is    *)
(* built up beside them until it can take their place.                     *)
(*                                                                         *)
(* A history is a record; each C++ method that changes it is an operator   *)
(* from history to history, and a method with a result code has a second   *)
(* operator for the code.  Every message has the size 1.                   *)
(***************************************************************************)
EXTENDS Integers, Sequences

CONSTANTS
  Clients,           \* context ids of users, positive numbers
  SizeLimit,         \* m_sizeLimit; 0 is no limit
  EmergencySpace,    \* what joins and leaves may use beyond the limit
  AutoResetThreshold \* m_autoResetThreshold; 0 is never

ASSUME SessionHistoryAssumption ==
  /\ Clients \subseteq Nat \ {0}
  /\ {SizeLimit, EmergencySpace, AutoResetThreshold} \subseteq Nat

NoUser == -1

(* Messages in the history.                                                *)
DrawMsg(c, n)         == [type |-> "Draw", user |-> c, n |-> n]
JoinMsg(c)            == [type |-> "Join", user |-> c]
LeaveMsg(c)           == [type |-> "Leave", user |-> c]
OwnerMsg(c)           == [type |-> "SessionOwner", user |-> c]
SoftResetMsg          == [type |-> "SoftReset"]
CaughtUpMsg           == [type |-> "CaughtUp"]
StreamStartMsg(c, co) == [type |-> "StreamStart", user |-> c, correlator |-> co]
ImageMsg(canvas)      == [type |-> "Image", canvas |-> canvas]

Size(ms) == Len(ms)

----------------------------------------------------------------------------
NewHistory(ms) ==
  [messages |-> ms, firstIndex |-> 0, lastIndex |-> Len(ms) - 1,
   sizeInBytes |-> Size(ms), autoResetBaseSize |-> Size(ms),
   resetStreamState |-> "None", ctxId |-> 0, resetStream |-> << >>,
   resetStreamSize |-> 0, resetStreamStartIndex |-> 0, resetStreamIndex |-> -1,
   resetStreamMessageCount |-> 0]

hasSpaceFor(h, bytes, extra) ==
  SizeLimit = 0 \/ h.sizeInBytes + bytes <= SizeLimit + extra

hasRegularSpaceFor(h, bytes)   == hasSpaceFor(h, bytes, 0)
hasEmergencySpaceFor(h, bytes) == hasSpaceFor(h, bytes, EmergencySpace)

addMessageInternal(h, ms) ==
  [h EXCEPT !.sizeInBytes = @ + Size(ms), !.lastIndex = @ + Len(ms),
            !.messages = @ \o ms]

effectiveAutoResetThreshold(h) ==
  LET t == AutoResetThreshold + h.autoResetBaseSize
      most == (SizeLimit * 9) \div 10
  IN IF AutoResetThreshold = 0 THEN 0
     ELSE IF SizeLimit > 0 /\ most < t THEN most ELSE t

----------------------------------------------------------------------------
(* What a client at position after has to be sent, and where it then is.   *)
getBatch(h, after) ==
  IF after >= h.lastIndex THEN << >>
  ELSE LET offset == IF after < h.firstIndex THEN 0 ELSE after - h.firstIndex + 1
       IN SubSeq(h.messages, offset + 1, Len(h.messages))

----------------------------------------------------------------------------
(* Streamed resets.                                                        *)

discardResetStream(h) == [h EXCEPT !.resetStream = << >>, !.resetStreamIndex = -1]

abortActiveStreamedReset(h) ==
  [discardResetStream(h) EXCEPT !.resetStreamState = "None", !.ctxId = 0]

StreamedResetBy(h, ctxId) ==
  h.resetStreamState = "Streaming" /\ (ctxId < 0 \/ ctxId = h.ctxId)

abortStreamedReset(h, ctxId) ==
  IF StreamedResetBy(h, ctxId) THEN abortActiveStreamedReset(h) ELSE h

StartResult(h) ==
  IF h.resetStreamState # "None" THEN "AlreadyActive"
  ELSE IF ~hasRegularSpaceFor(h, 2) THEN "OutOfSpace" ELSE "Ok"

(* Mutant: the fork is taken before the marker of the stream's start.      *)
startStreamedReset_at_marker(h, ctxId, correlator, serverSideState) ==
  LET h2 == addMessageInternal(h, <<SoftResetMsg, StreamStartMsg(ctxId, correlator)>>)
  IN IF StartResult(h) # "Ok" THEN h
     ELSE [h2 EXCEPT !.resetStream = serverSideState,
                     !.resetStreamIndex = Len(h2.messages) - 1,
                     !.resetStreamState = "Streaming", !.ctxId = ctxId,
                     !.resetStreamSize = 0,
                     !.resetStreamStartIndex = h2.lastIndex + 1,
                     !.resetStreamMessageCount = 0]

startStreamedReset(h, ctxId, correlator, serverSideState) ==
  LET h2 == addMessageInternal(h, <<SoftResetMsg, StreamStartMsg(ctxId, correlator)>>)
  IN IF StartResult(h) # "Ok" THEN h
     ELSE [h2 EXCEPT !.resetStream = serverSideState,
                     !.resetStreamIndex = Len(h2.messages),
                     !.resetStreamState = "Streaming", !.ctxId = ctxId,
                     !.resetStreamSize = 0,
                     !.resetStreamStartIndex = h2.lastIndex + 1,
                     !.resetStreamMessageCount = 0]

AddResult(h, ctxId) ==
  IF h.resetStreamState # "Streaming" THEN "NotActive"
  ELSE IF h.ctxId # ctxId THEN "InvalidUser"
  ELSE IF SizeLimit > 0 /\ h.resetStreamSize + 1 > SizeLimit THEN "OutOfSpace"
  ELSE "Ok"

addStreamResetMessage(h, ctxId, m) ==
  IF AddResult(h, ctxId) # "Ok" THEN h
  ELSE [h EXCEPT !.resetStreamSize = @ + 1, !.resetStream = Append(@, m),
                 !.resetStreamMessageCount = @ + 1]

PrepareResult(h, ctxId, expected) ==
  IF h.resetStreamState # "Streaming" THEN "NotActive"
  ELSE IF h.ctxId # ctxId THEN "InvalidUser"
  ELSE IF h.resetStreamMessageCount # expected \/ expected = 0 THEN "InvalidMessageCount"
  ELSE "Ok"

prepareStreamedReset(h, ctxId, expected) ==
  CASE PrepareResult(h, ctxId, expected) = "Ok" ->
         [h EXCEPT !.resetStream = Append(@, CaughtUpMsg),
                   !.resetStreamState = "Prepared", !.ctxId = 0]
    [] PrepareResult(h, ctxId, expected) = "InvalidMessageCount" ->
         abortActiveStreamedReset(h)
    [] OTHER -> h

isResetStreamPending(h) == h.resetStreamState = "Prepared"

(* Mutant: the messages that came meanwhile are forgotten.                 *)
ResolvedMessages_image_only(h) == h.resetStream

(* The image, then everything that came after the reset was started.       *)
ResolvedMessages(h) ==
  h.resetStream \o SubSeq(h.messages, h.resetStreamIndex + 1, Len(h.messages))

resolveOk(h) == SizeLimit = 0 \/ Size(ResolvedMessages(h)) <= SizeLimit

resolveStreamedReset(h) ==
  LET done == [h EXCEPT !.resetStreamState = "None", !.ctxId = 0]
      ms == ResolvedMessages(h)
  IN IF ~resolveOk(h) THEN done
     ELSE [done EXCEPT !.messages = ms, !.resetStream = << >>,
                       !.sizeInBytes = Size(ms),
                       !.firstIndex = h.lastIndex + 1,
                       !.lastIndex = @ + Len(ms),
                       !.autoResetBaseSize = h.resetStreamSize]

----------------------------------------------------------------------------
(* Full resets.                                                            *)

resetOk(newHistory) == SizeLimit = 0 \/ Size(newHistory) <= SizeLimit

reset(h, newHistory) ==
  IF ~resetOk(newHistory) THEN h
  ELSE LET h2 == abortStreamedReset(h, -1)
           size == Size(newHistory)
       IN [h2 EXCEPT !.sizeInBytes = size, !.firstIndex = h.lastIndex + 1,
                     !.lastIndex = @ + Len(newHistory),
                     !.autoResetBaseSize = size, !.messages = newHistory]
=============================================================================
