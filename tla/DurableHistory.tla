---------------------------- MODULE DurableHistory ----------------------------
(***************************************************************************)
(* What a session's history promises when the server keeps it in files: it *)
(* is the history of the module SessionHistory, and next to it there is    *)
(* what would be left of it if the server stopped right now.  A crash      *)
(* loses some last messages, never one in the middle.  A streamed reset    *)
(* has then happened or not.  A full reset has not, or what is left is     *)
(* some of the new history, which may be nothing: then there is no session *)
(* to come back.  Whoever was in the session when the server stopped has   *)
(* left when it is back.                                                   *)
(***************************************************************************)
EXTENDS SessionHistory, FiniteSets

CONSTANT Messages   \* the messages of the session

VARIABLES
  hist,    \* the history, a record of SessionHistory
  saved,   \* the messages that are left after a crash
  stale,   \* these are from before the last reset
  server   \* "up", "down", or "gone" when there is nothing to go on with

IsPrefixOf(s, t) == Len(s) <= Len(t) /\ s = SubSeq(t, 1, Len(s))

(* Who has joined and not left.                                            *)
StillIn(ms) ==
  {c \in Clients : \E i \in DOMAIN ms :
     ms[i] = JoinMsg(c) /\ \A j \in (i + 1)..Len(ms) : ms[j] # LeaveMsg(c)}

(* A Leave for each of them, in any order.                                 *)
Farewells(S) ==
  {f \in [1..Cardinality(S) -> {LeaveMsg(c) : c \in S}] :
     \A c \in S : \E i \in DOMAIN f : f[i] = LeaveMsg(c)}

(* What a stream that is over leaves behind is of no concern.              *)
Live(h) ==
  IF h.resetStreamState # "None" THEN h
  ELSE [h EXCEPT !.resetStream = << >>, !.resetStreamIndex = -1, !.resetStreamSize = 0,
                 !.resetStreamStartIndex = 0, !.resetStreamMessageCount = 0]

Nothing == NewHistory(<< >>)

Init == hist = Nothing /\ saved = << >> /\ stale = FALSE /\ server = "up"

Becomes(h) == hist' = Live(h) /\ UNCHANGED <<saved, stale, server>>

(* More of the history has reached the disk.                               *)
MoreSaved ==
  IF stale THEN saved' = saved
  ELSE IsPrefixOf(saved, saved') /\ IsPrefixOf(saved', hist.messages)

(* The history h and some messages more.                                   *)
Extended(h) ==
  LET ms   == hist'.messages
      more == SubSeq(ms, Len(h.messages) + 1, Len(ms))
  IN ms \in Seq(Messages) /\ Becomes(addMessageInternal(h, more))

Add == Extended(hist)

(* The one who streams a reset gives up, leaves, or comes back by another  *)
(* connection.                                                             *)
AbortAndAdd ==
  /\ hist.resetStreamState = "Streaming"
  /\ Extended(abortStreamedReset(hist, hist.ctxId))

Save == UNCHANGED <<hist, stale, server>> /\ MoreSaved

StartStream ==
  /\ hist.resetStreamState = "None" /\ hist'.resetStream \in Seq(Messages)
  /\ \E c \in Clients : Becomes(startStreamedReset(hist, c, 0, hist'.resetStream))

AddToStream ==
  /\ hist.resetStreamState = "Streaming"
  /\ \E m \in Messages : Becomes(addStreamResetMessage(hist, hist.ctxId, m))

(* The count of messages that is given is right or not.                    *)
PrepareStream ==
  /\ hist.resetStreamState = "Streaming"
  /\ \E expected \in {0, hist.resetStreamMessageCount} :
       Becomes(prepareStreamedReset(hist, hist.ctxId, expected))

(* The moment a streamed reset is in the journal it is complete.           *)
ResolveStream ==
  /\ isResetStreamPending(hist)
  /\ hist' = Live(resolveStreamedReset(hist))
  /\ IF resolveOk(hist) THEN saved' = hist'.messages ELSE MoreSaved
  /\ UNCHANGED <<stale, server>>

(* A full reset has happened before any of it is on the disk.              *)
Reset ==
  /\ stale' = TRUE /\ saved' = hist.messages
  /\ hist'.messages \in Seq(Messages)
  /\ hist' = Live(reset(hist, hist'.messages))
  /\ UNCHANGED server

ResetSaved == stale /\ stale' = FALSE /\ saved' = << >> /\ UNCHANGED <<hist, server>>

Stop == server' = "down" /\ stale' = FALSE /\ hist' = Nothing /\ MoreSaved

(* The session is back with what was saved, and nobody in it.              *)
Restart ==
  /\ saved # << >>
  /\ server' = "up"
  /\ \E bye \in Farewells(StillIn(saved)) : hist' = NewHistory(saved \o bye)
  /\ UNCHANGED <<saved, stale>>

NothingToRestart ==
  saved = << >> /\ server' = "gone" /\ UNCHANGED <<hist, saved, stale>>

End == server' = "gone" /\ hist' = Nothing /\ saved' = << >> /\ stale' = FALSE

Next ==
  \/ server = "up" /\ (Stop \/ End \/ Save \/ ResetSaved \/ Reset \/ ResolveStream
       \/ StartStream \/ AddToStream \/ PrepareStream \/ AbortAndAdd \/ Add)
  \/ server = "down" /\ (Restart \/ NothingToRestart)

vars == <<hist, saved, stale, server>>

Spec == Init /\ [][Next]_vars
=============================================================================
