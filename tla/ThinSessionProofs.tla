--------------------------- MODULE ThinSessionProofs ---------------------------
(***************************************************************************)
(* What each method of the server's session keeps true of it: the indices  *)
(* of the history count its messages, nobody is ahead of them, and resets  *)
(* are in the hands of operators who are there.                            *)
(***************************************************************************)
EXTENDS ThinSession, DataFacts

----------------------------------------------------------------------------
(* The history.                                                            *)

(* The fields of a history.                                                *)
HistFields ==
  {"messages", "firstIndex", "lastIndex", "sizeInBytes", "autoResetBaseSize",
   "resetStreamState", "ctxId", "resetStream", "resetStreamSize",
   "resetStreamStartIndex", "resetStreamIndex", "resetStreamMessageCount"}

(* A history whose indices count its messages.                             *)
SoundHist(h) ==
  /\ DOMAIN h = HistFields
  /\ IsSequence(h.messages) /\ IsSequence(h.resetStream)
  /\ h.firstIndex \in Nat /\ h.lastIndex \in Int
  /\ h.lastIndex - h.firstIndex + 1 = Len(h.messages)
  /\ h.sizeInBytes = Len(h.messages)
  /\ h.resetStreamState \in {"None", "Streaming", "Prepared"}
  /\ h.resetStreamState # "None" =>
       /\ h.resetStreamIndex \in 0 .. Len(h.messages)
       /\ h.resetStreamStartIndex \in Int
       /\ h.resetStreamStartIndex - h.firstIndex = h.resetStreamIndex

(* A new history.                                                          *)
LEMMA NewHistorySound ==
  ASSUME NEW ms, IsSequence(ms)
  PROVE  /\ SoundHist(NewHistory(ms)) /\ NewHistory(ms).lastIndex = Len(ms) - 1
         /\ NewHistory(ms).resetStreamState = "None"
BY Literals DEF SoundHist, HistFields, NewHistory, Size, IsSequence

(* Messages at the end of a history: a stream stays what it was.           *)
LEMMA AddSound ==
  ASSUME NEW h, SoundHist(h), NEW ms, IsSequence(ms)
  PROVE  /\ SoundHist(addMessageInternal(h, ms))
         /\ addMessageInternal(h, ms).resetStreamState = h.resetStreamState
         /\ addMessageInternal(h, ms).ctxId = h.ctxId
         /\ addMessageInternal(h, ms).lastIndex = h.lastIndex + Len(ms)
         /\ addMessageInternal(h, ms).firstIndex = h.firstIndex
         /\ Len(addMessageInternal(h, ms).messages) = Len(h.messages) + Len(ms)
<1> DEFINE k == addMessageInternal(h, ms)
<1>1. /\ DOMAIN k = HistFields
      /\ k.messages = h.messages \o ms /\ k.resetStream = h.resetStream
      /\ k.firstIndex = h.firstIndex /\ k.lastIndex = h.lastIndex + Len(ms)
      /\ k.sizeInBytes = h.sizeInBytes + Len(ms)
      /\ k.resetStreamState = h.resetStreamState /\ k.ctxId = h.ctxId
      /\ k.resetStreamIndex = h.resetStreamIndex
      /\ k.resetStreamStartIndex = h.resetStreamStartIndex
  BY DEF addMessageInternal, SoundHist, HistFields, Size
<1> HIDE DEF k
<1>2. IsSequence(k.messages) /\ Len(k.messages) = Len(h.messages) + Len(ms)
  BY <1>1, Concatenation DEF SoundHist
<1>3. Len(ms) \in Nat /\ Len(h.messages) \in Nat
  BY DEF IsSequence, SoundHist
<1>4. k.resetStreamState # "None" => k.resetStreamIndex \in 0 .. Len(k.messages)
  BY <1>1, <1>2, <1>3 DEF SoundHist
<1>5. /\ k.lastIndex \in Int /\ k.lastIndex - k.firstIndex + 1 = Len(k.messages)
      /\ k.sizeInBytes = Len(k.messages)
  <2>1. /\ h.lastIndex \in Int /\ h.firstIndex \in Nat
        /\ h.lastIndex - h.firstIndex + 1 = Len(h.messages)
    BY DEF SoundHist
  <2>2. /\ k.firstIndex = h.firstIndex /\ k.lastIndex = h.lastIndex + Len(ms)
        /\ Len(k.messages) = Len(h.messages) + Len(ms)
    BY <1>1, <1>2
  <2>3. k.lastIndex \in Int /\ k.firstIndex \in Nat /\ Len(k.messages) \in Int
    BY <1>3, <2>1, <2>2
  <2>4. k.lastIndex - k.firstIndex + 1 = Len(k.messages)
    <3> DEFINE first == h.firstIndex
               last == h.lastIndex
               before == Len(h.messages)
               added == Len(ms)
    <3>1. first \in Int /\ last \in Int /\ before \in Int /\ added \in Int
      BY <1>3, <2>1
    <3>2. last - first + 1 = before
      BY <2>1
    <3>3. k.lastIndex = last + added
      BY <2>2
    <3>4. k.firstIndex = first
      BY <2>2
    <3>5. Len(k.messages) = before + added
      BY <2>2
    <3> HIDE DEF first, last, before, added
    <3>6. (last + added) - first + 1 = before + added
      BY <3>1, <3>2
    <3> QED BY <3>3, <3>4, <3>5, <3>6
  <2>5. k.sizeInBytes = Len(k.messages)
    <3>1. k.sizeInBytes = h.sizeInBytes + Len(ms) /\ h.sizeInBytes = Len(h.messages)
      BY <1>1 DEF SoundHist
    <3> QED BY <2>2, <3>1
  <2> QED BY <2>3, <2>4, <2>5
<1>6. k.resetStreamState # "None" =>
        /\ k.resetStreamStartIndex \in Int
        /\ k.resetStreamStartIndex - k.firstIndex = k.resetStreamIndex
  BY <1>1 DEF SoundHist
<1>7. /\ DOMAIN k = HistFields /\ IsSequence(k.messages) /\ IsSequence(k.resetStream)
      /\ k.firstIndex \in Nat /\ k.resetStreamState \in {"None", "Streaming", "Prepared"}
  BY <1>1, <1>2 DEF SoundHist
<1>8. SoundHist(k)
  BY <1>4, <1>5, <1>6, <1>7, Zenon DEF SoundHist
<1> QED BY <1>1, <1>2, <1>8 DEF k

(* A stream that is given up leaves no trace.                              *)
LEMMA AbortActiveSound ==
  ASSUME NEW h, SoundHist(h)
  PROVE  /\ SoundHist(abortActiveStreamedReset(h))
         /\ abortActiveStreamedReset(h).resetStreamState = "None"
         /\ abortActiveStreamedReset(h).lastIndex = h.lastIndex
         /\ abortActiveStreamedReset(h).firstIndex = h.firstIndex
         /\ abortActiveStreamedReset(h).messages = h.messages
BY Literals DEF abortActiveStreamedReset, discardResetStream, SoundHist, HistFields

(* Only the stream of ctxId is given up, any if it is negative.            *)
LEMMA AbortSound ==
  ASSUME NEW h, SoundHist(h), NEW ctxId
  PROVE  /\ SoundHist(abortStreamedReset(h, ctxId))
         /\ abortStreamedReset(h, ctxId).lastIndex = h.lastIndex
         /\ abortStreamedReset(h, ctxId).firstIndex = h.firstIndex
         /\ abortStreamedReset(h, ctxId).messages = h.messages
         /\ IF StreamedResetBy(h, ctxId)
            THEN abortStreamedReset(h, ctxId).resetStreamState = "None"
            ELSE abortStreamedReset(h, ctxId) = h
BY AbortActiveSound DEF abortStreamedReset

(* A stream starts at the end of the history.                              *)
LEMMA StartSound ==
  ASSUME NEW h, SoundHist(h), NEW c, NEW co, NEW ms, IsSequence(ms),
         StartResult(h) = "Ok"
  PROVE  /\ SoundHist(startStreamedReset(h, c, co, ms))
         /\ startStreamedReset(h, c, co, ms).resetStreamState = "Streaming"
         /\ startStreamedReset(h, c, co, ms).ctxId = c
         /\ startStreamedReset(h, c, co, ms).lastIndex >= h.lastIndex
<1> DEFINE marks == <<SoftResetMsg, StreamStartMsg(c, co)>>
           h2 == addMessageInternal(h, marks)
           k == startStreamedReset(h, c, co, ms)
<1>1. IsSequence(marks) /\ Len(marks) = 2
  BY Literals
<1> HIDE DEF marks
<1>2. /\ SoundHist(h2) /\ h2.lastIndex = h.lastIndex + 2
      /\ Len(h2.messages) = Len(h.messages) + 2
  BY <1>1, AddSound
<1>3. k = [h2 EXCEPT !.resetStream = ms, !.resetStreamIndex = Len(h2.messages),
                     !.resetStreamState = "Streaming", !.ctxId = c,
                     !.resetStreamSize = 0,
                     !.resetStreamStartIndex = h2.lastIndex + 1,
                     !.resetStreamMessageCount = 0]
  BY DEF startStreamedReset, marks
<1> HIDE DEF h2, k
<1>4. /\ DOMAIN k = HistFields
      /\ k.messages = h2.messages /\ k.resetStream = ms
      /\ k.firstIndex = h2.firstIndex /\ k.lastIndex = h2.lastIndex
      /\ k.sizeInBytes = h2.sizeInBytes
      /\ k.resetStreamState = "Streaming" /\ k.ctxId = c
      /\ k.resetStreamIndex = Len(h2.messages)
      /\ k.resetStreamStartIndex = h2.lastIndex + 1
  BY <1>2, <1>3 DEF SoundHist, HistFields
<1>5. Len(h2.messages) \in Nat
  BY <1>2 DEF SoundHist, IsSequence
<1>6. /\ h2.lastIndex \in Int /\ h2.firstIndex \in Nat
      /\ h2.lastIndex - h2.firstIndex + 1 = Len(h2.messages)
      /\ h2.sizeInBytes = Len(h2.messages)
      /\ IsSequence(h2.messages)
  BY <1>2 DEF SoundHist
<1>7. /\ k.resetStreamIndex \in 0 .. Len(k.messages)
      /\ k.resetStreamStartIndex \in Int
      /\ k.resetStreamStartIndex - k.firstIndex = k.resetStreamIndex
  <2>1. /\ k.firstIndex \in Int /\ k.resetStreamStartIndex \in Int
        /\ k.resetStreamIndex \in Int /\ Len(k.messages) \in Nat
        /\ k.resetStreamIndex = Len(k.messages)
    BY <1>4, <1>5, <1>6
  <2>2. k.resetStreamStartIndex - k.firstIndex = k.resetStreamIndex
    BY <1>4, <1>5, <1>6, <2>1
  <2> QED BY <2>1, <2>2
<1>8. /\ DOMAIN k = HistFields /\ IsSequence(k.messages) /\ IsSequence(k.resetStream)
      /\ k.firstIndex \in Nat /\ k.lastIndex \in Int
      /\ k.lastIndex - k.firstIndex + 1 = Len(k.messages)
      /\ k.sizeInBytes = Len(k.messages)
      /\ k.resetStreamState \in {"None", "Streaming", "Prepared"}
  BY <1>4, <1>6
<1>9. SoundHist(k)
  BY <1>7, <1>8, Zenon DEF SoundHist
<1>10. k.lastIndex >= h.lastIndex
  <2>1. h.lastIndex \in Int /\ k.lastIndex = h.lastIndex + 2
    BY <1>2, <1>4 DEF SoundHist
  <2> QED BY <2>1
<1> QED BY <1>4, <1>9, <1>10 DEF k

(* One more message of the image.                                          *)
LEMMA AddStreamSound ==
  ASSUME NEW h, SoundHist(h), NEW c, NEW m
  PROVE  /\ SoundHist(addStreamResetMessage(h, c, m))
         /\ addStreamResetMessage(h, c, m).resetStreamState = h.resetStreamState
         /\ addStreamResetMessage(h, c, m).ctxId = h.ctxId
         /\ addStreamResetMessage(h, c, m).lastIndex = h.lastIndex
<1>1. IsSequence(Append(h.resetStream, m))
  BY Appending DEF SoundHist
<1> QED BY <1>1 DEF addStreamResetMessage, SoundHist, HistFields

(* A stream is complete, or wrong, or not of who says it is.               *)
LEMMA PrepareSound ==
  ASSUME NEW h, SoundHist(h), NEW c, NEW n
  PROVE  /\ SoundHist(prepareStreamedReset(h, c, n))
         /\ prepareStreamedReset(h, c, n).lastIndex = h.lastIndex
         /\ PrepareResult(h, c, n) = "Ok" =>
              prepareStreamedReset(h, c, n).resetStreamState = "Prepared"
         /\ PrepareResult(h, c, n) = "InvalidMessageCount" =>
              prepareStreamedReset(h, c, n).resetStreamState = "None"
         /\ PrepareResult(h, c, n) \notin {"Ok", "InvalidMessageCount"} =>
              prepareStreamedReset(h, c, n) = h
<1> DEFINE k == prepareStreamedReset(h, c, n)
<1>1. CASE PrepareResult(h, c, n) = "Ok"
  <2>1. k = [h EXCEPT !.resetStream = Append(@, CaughtUpMsg),
                      !.resetStreamState = "Prepared", !.ctxId = 0]
    BY <1>1 DEF prepareStreamedReset
  <2>2. IsSequence(Append(h.resetStream, CaughtUpMsg))
    BY Appending DEF SoundHist
  <2>3. h.resetStreamState = "Streaming"
    BY <1>1 DEF PrepareResult
  <2> HIDE DEF k
  <2>4. SoundHist(k) /\ k.lastIndex = h.lastIndex /\ k.resetStreamState = "Prepared"
    BY <2>1, <2>2, <2>3 DEF SoundHist, HistFields
  <2> QED BY <1>1, <2>4 DEF k
<1>2. CASE PrepareResult(h, c, n) = "InvalidMessageCount"
  <2>1. k = abortActiveStreamedReset(h)
    BY <1>2 DEF prepareStreamedReset
  <2> QED BY <1>2, <2>1, AbortActiveSound
<1>3. CASE PrepareResult(h, c, n) \notin {"Ok", "InvalidMessageCount"}
  <2>1. k = h
    BY <1>3 DEF prepareStreamedReset
  <2> QED BY <1>3, <2>1
<1> QED BY <1>1, <1>2, <1>3

(* Indices go on counting from where they were.                            *)
LEMMA ResolveSound ==
  ASSUME NEW h, SoundHist(h), h.resetStreamState = "Prepared"
  PROVE  /\ SoundHist(resolveStreamedReset(h))
         /\ resolveStreamedReset(h).resetStreamState = "None"
         /\ Size(ResolvedMessages(h)) \in Nat
         /\ resolveStreamedReset(h).lastIndex =
              IF resolveOk(h) THEN h.lastIndex + Size(ResolvedMessages(h))
              ELSE h.lastIndex
<1> DEFINE ms == ResolvedMessages(h)
           k == resolveStreamedReset(h)
<1>1. h.resetStreamIndex \in 0 .. Len(h.messages) /\ Len(h.messages) \in Nat
  BY DEF SoundHist, IsSequence
<1>2. IsSequence(ms)
  BY <1>1, Suffix, Concatenation DEF SoundHist, ResolvedMessages
<1>3. Len(ms) \in Nat
  BY <1>2 DEF IsSequence
<1> HIDE DEF ms
<1>4. CASE resolveOk(h)
  <2>1. k = [[h EXCEPT !.resetStreamState = "None", !.ctxId = 0]
               EXCEPT !.messages = ms, !.resetStream = << >>,
                      !.sizeInBytes = Size(ms),
                      !.firstIndex = h.lastIndex + 1,
                      !.lastIndex = @ + Len(ms),
                      !.autoResetBaseSize = h.resetStreamSize]
    BY <1>4 DEF resolveStreamedReset, ms
  <2> HIDE DEF k
  <2>2. /\ DOMAIN k = HistFields
        /\ k.messages = ms /\ k.resetStream = << >> /\ k.sizeInBytes = Len(ms)
        /\ k.firstIndex = h.lastIndex + 1 /\ k.lastIndex = h.lastIndex + Len(ms)
        /\ k.resetStreamState = "None"
    BY <2>1 DEF SoundHist, HistFields, Size
  <2>3. h.lastIndex + 1 \in Nat /\ h.lastIndex \in Int
    BY <1>1 DEF SoundHist
  <2>4. SoundHist(k)
    BY <1>2, <1>3, <2>2, <2>3, Literals DEF SoundHist
  <2> QED BY <1>3, <1>4, <2>2, <2>4 DEF k, ms, Size
<1>5. CASE ~resolveOk(h)
  <2>1. k = [h EXCEPT !.resetStreamState = "None", !.ctxId = 0]
    BY <1>5 DEF resolveStreamedReset
  <2> HIDE DEF k
  <2>2. SoundHist(k) /\ k.resetStreamState = "None" /\ k.lastIndex = h.lastIndex
    BY <2>1 DEF SoundHist, HistFields
  <2> QED BY <1>3, <1>5, <2>2 DEF k, ms, Size
<1> QED BY <1>4, <1>5

(* A full reset: a stream that goes on is given up.                        *)
LEMMA ResetSound ==
  ASSUME NEW h, SoundHist(h), h.resetStreamState # "Prepared",
         NEW ms, IsSequence(ms), resetOk(ms)
  PROVE  /\ SoundHist(reset(h, ms))
         /\ reset(h, ms).resetStreamState = "None"
         /\ reset(h, ms).lastIndex >= h.lastIndex
<1> DEFINE h2 == abortStreamedReset(h, -1)
           k == reset(h, ms)
<1>1. k = [h2 EXCEPT !.sizeInBytes = Size(ms), !.firstIndex = h.lastIndex + 1,
                     !.lastIndex = @ + Len(ms),
                     !.autoResetBaseSize = Size(ms), !.messages = ms]
  BY DEF reset
<1>2. /\ SoundHist(h2) /\ h2.lastIndex = h.lastIndex
      /\ h2.resetStreamState = "None"
  BY AbortSound DEF StreamedResetBy, SoundHist
<1> HIDE DEF h2, k
<1>3. /\ DOMAIN k = HistFields
      /\ k.messages = ms /\ k.resetStream = h2.resetStream /\ k.sizeInBytes = Len(ms)
      /\ k.firstIndex = h.lastIndex + 1 /\ k.lastIndex = h.lastIndex + Len(ms)
      /\ k.resetStreamState = "None"
  BY <1>1, <1>2 DEF SoundHist, HistFields, Size
<1>4. h.lastIndex + 1 \in Nat /\ h.lastIndex \in Int /\ Len(ms) \in Nat
  BY DEF SoundHist, IsSequence
<1>5. SoundHist(k)
  <2>1. IsSequence(k.messages) /\ IsSequence(k.resetStream)
    BY <1>2, <1>3 DEF SoundHist
  <2>2. /\ k.firstIndex \in Nat /\ k.lastIndex \in Int
        /\ k.lastIndex - k.firstIndex + 1 = Len(k.messages)
    <3>1. /\ k.firstIndex = h.lastIndex + 1 /\ k.lastIndex = h.lastIndex + Len(ms)
          /\ Len(k.messages) = Len(ms)
      BY <1>3
    <3> QED BY <1>4, <3>1
  <2>3. k.sizeInBytes = Len(k.messages)
    BY <1>3
  <2>4. DOMAIN k = HistFields /\ k.resetStreamState = "None"
    BY <1>3
  <2> QED BY <2>1, <2>2, <2>3, <2>4 DEF SoundHist
<1>6. k.lastIndex >= h.lastIndex
  BY <1>3, <1>4
<1> QED BY <1>3, <1>5, <1>6 DEF k

----------------------------------------------------------------------------
(* The session.                                                            *)

(* The fields of a session.                                                *)
SessFields ==
  {"hist", "state", "initUser", "resetstream", "status", "timer", "delayed",
   "payload", "candidates", "clients", "ops", "flags", "position", "uploading",
   "inbox"}

(* What autoreset may be doing.                                            *)
Statuses == {"NotSent", "Queried", "QueriedWaiting", "Requested"}

(* A session whose parts fit each other.                                   *)
Sound(s) ==
  /\ DOMAIN s = SessFields
  /\ SoundHist(s.hist)
  /\ s.clients \in Seq(Clients)
  /\ \A i, j \in 1 .. Len(s.clients) : s.clients[i] = s.clients[j] => i = j
  /\ s.state \in {"Running", "Reset"} /\ s.status \in Statuses
  /\ IsSequence(s.resetstream)
  /\ s.ops \subseteq Present(s)
  /\ DOMAIN s.flags = Clients
  /\ s.position \in [Clients -> Int]
  /\ \A c \in Clients : s.position[c] <= s.hist.lastIndex

(* Somebody streams a reset.                                               *)
Streaming(s) == s.hist.resetStreamState = "Streaming"

(* Who streams a reset is an operator who has been asked to.               *)
SoundStream(s) ==
  Streaming(s) =>
    /\ s.hist.ctxId \in Present(s) \cap s.ops
    /\ s.status = "Requested" /\ s.flags[s.hist.ctxId] = {"Streaming"}

(* A session that has stopped for a full reset streams none and asks for   *)
(* none.                                                                   *)
SoundState(s) ==
  IF s.state = "Reset"
  THEN /\ s.initUser \in Present(s) \cap s.ops
       /\ s.hist.resetStreamState = "None" /\ s.status = "NotSent"
  ELSE s.initUser = NoUser /\ s.resetstream = << >>

SoundSession(s) == Sound(s) /\ SoundStream(s) /\ SoundState(s)

(* Who is in the session and resets it is the same.                        *)
SameUsers(s, t) ==
  /\ t.clients = s.clients /\ t.ops = s.ops /\ t.state = s.state
  /\ t.initUser = s.initUser /\ t.resetstream = s.resetstream

(* A stream goes on, and what has been asked for stands.                   *)
StreamKept(s, t) ==
  /\ Streaming(s) => Streaming(t) /\ t.hist.ctxId = s.hist.ctxId
  /\ ~Streaming(s) => ~Streaming(t)
  /\ s.hist.resetStreamState = "None" => t.hist.resetStreamState = "None"
  /\ /\ s.hist.resetStreamState # "Prepared"
     /\ s.status = "Requested" \/ s.state = "Reset"
     => t.status = s.status /\ t.flags = s.flags

(* What sending and adding messages does to a session.                     *)
Passes(s, t) == Sound(t) /\ SameUsers(s, t) /\ StreamKept(s, t)

(* What only sending does to it.                                           *)
Untouched(s, t) ==
  /\ DOMAIN t = SessFields /\ SameUsers(s, t)
  /\ t.hist = s.hist /\ t.status = s.status
  /\ t.flags = s.flags /\ t.position = s.position

(* A session that stays as it is.                                          *)
LEMMA PassesItself ==
  ASSUME NEW s, Sound(s)
  PROVE  Passes(s, s)
BY DEF Passes, SameUsers, StreamKept

(* One after the other.                                                    *)
LEMMA PassesOn ==
  ASSUME NEW s, Sound(s), NEW t, Passes(s, t), NEW u, Passes(t, u)
  PROVE  Passes(s, u)
<1>1. Sound(u) /\ SameUsers(s, u)
  BY DEF Passes, SameUsers
<1>2. s.hist.resetStreamState # "Prepared" => t.hist.resetStreamState # "Prepared"
  BY DEF Passes, StreamKept, Streaming, Sound, SoundHist
<1>3. StreamKept(s, u)
  BY <1>2 DEF Passes, StreamKept, SameUsers
<1> QED BY <1>1, <1>3 DEF Passes

(* Sending is passing.                                                     *)
LEMMA UntouchedPasses ==
  ASSUME NEW s, Sound(s), NEW t, Untouched(s, t)
  PROVE  Passes(s, t)
<1>1. Sound(t)
  BY DEF Sound, Untouched, SameUsers, Present
<1> QED BY <1>1 DEF Passes, Untouched, StreamKept, Streaming

(* What passes on a session keeps it sound.                                *)
LEMMA PassesSound ==
  ASSUME NEW s, SoundSession(s), NEW t, Passes(s, t)
  PROVE  SoundSession(t)
<1>1. Sound(t)
  BY DEF Passes
<1>2. SoundStream(t)
  <2>1. SUFFICES ASSUME Streaming(t)
                 PROVE  /\ t.hist.ctxId \in Present(t) \cap t.ops
                        /\ t.status = "Requested"
                        /\ t.flags[t.hist.ctxId] = {"Streaming"}
    BY DEF SoundStream
  <2>2. Streaming(s) /\ t.hist.ctxId = s.hist.ctxId
    BY <2>1 DEF Passes, StreamKept
  <2>3. t.status = s.status /\ t.flags = s.flags
    BY <2>2 DEF Passes, StreamKept, Streaming, SoundSession, SoundStream
  <2> QED BY <2>2, <2>3 DEF SoundSession, SoundStream, Passes, SameUsers, Present
<1>3. SoundState(t)
  BY DEF SoundSession, SoundState, Passes, SameUsers, StreamKept, Present
<1> QED BY <1>1, <1>2, <1>3 DEF SoundSession

(* So does what only sends.                                                *)
LEMMA UntouchedSound ==
  ASSUME NEW s, SoundSession(s), NEW t, Untouched(s, t)
  PROVE  SoundSession(t)
BY UntouchedPasses, PassesSound DEF SoundSession

----------------------------------------------------------------------------
(* Sending.                                                                *)

(* Send only sends.                                                        *)
LEMMA SendUntouched ==
  ASSUME NEW s, Sound(s), NEW c, NEW ms
  PROVE  Untouched(s, Send(s, c, ms))
BY DEF Untouched, SameUsers, Send, Sound, SessFields

(* So do direct messages.                                                  *)
LEMMA DirectUntouched ==
  ASSUME NEW s, Sound(s), NEW cs, NEW m
  PROVE  Untouched(s, sendDirectMessages(s, cs, m))
BY DEF Untouched, SameUsers, sendDirectMessages, Sound, SessFields

(* So do alerts.                                                           *)
LEMMA NotifyUntouched ==
  ASSUME NEW s, Sound(s)
  PROVE  Untouched(s, notifyAll(s))
BY DEF Untouched, SameUsers, notifyAll, Sound, SessFields

(* The server forgets what it has asked, and a stream that goes on.        *)
LEMMA ClearSound ==
  ASSUME NEW s, Sound(s), NEW retry
  PROVE  /\ Sound(clearAutoReset(s, retry))
         /\ SameUsers(s, clearAutoReset(s, retry))
         /\ clearAutoReset(s, retry).status = "NotSent"
         /\ clearAutoReset(s, retry).hist.resetStreamState =
              IF Streaming(s) THEN "None" ELSE s.hist.resetStreamState
<1> DEFINE t == clearAutoReset(s, retry)
           h == abortStreamedReset(s.hist, -1)
<1>1. /\ DOMAIN t = SessFields /\ SameUsers(s, t) /\ t.hist = h
      /\ t.status = "NotSent" /\ t.position = s.position
      /\ t.flags = [c \in Clients |-> {}]
  BY DEF clearAutoReset, SameUsers, Sound, SessFields
<1>2. /\ SoundHist(h) /\ h.lastIndex = s.hist.lastIndex
      /\ h.resetStreamState = IF Streaming(s) THEN "None" ELSE s.hist.resetStreamState
  BY AbortSound DEF StreamedResetBy, Streaming, Sound
<1> HIDE DEF t, h
<1>3. Sound(t)
  BY <1>1, <1>2 DEF Sound, SameUsers, Present, Statuses
<1> QED BY <1>1, <1>2, <1>3 DEF t

(* A session that has forgotten what it asked is sound.                    *)
LEMMA ClearedSession ==
  ASSUME NEW s, Sound(s), SoundState(s), NEW retry
  PROVE  SoundSession(clearAutoReset(s, retry))
<1> DEFINE t == clearAutoReset(s, retry)
<1>1. /\ Sound(t) /\ SameUsers(s, t) /\ t.status = "NotSent"
      /\ t.hist.resetStreamState = IF Streaming(s) THEN "None" ELSE s.hist.resetStreamState
  BY ClearSound
<1> HIDE DEF t
<1>2. SoundStream(t)
  BY <1>1 DEF SoundStream, Streaming
<1>3. SoundState(t)
  BY <1>1 DEF SoundState, SameUsers, Streaming, Present
<1> QED BY <1>1, <1>2, <1>3 DEF SoundSession, t

(* A streamed reset takes effect when nobody is behind its start.          *)
LEMMA ResolvePasses ==
  ASSUME NEW s, Sound(s)
  PROVE  Passes(s, resolvePendingStreamedReset(s))
<1> DEFINE h == resolveStreamedReset(s.hist)
           r == [s EXCEPT !.hist = h]
           n == Size(ResolvedMessages(s.hist))
           t == resolvePendingStreamedReset(s)
<1>1. CASE ~checkStreamedResetStart(s)
  BY <1>1, PassesItself DEF resolvePendingStreamedReset
<1>2. CASE checkStreamedResetStart(s)
  <2>1. s.hist.resetStreamState = "Prepared"
    BY <1>2 DEF checkStreamedResetStart, isResetStreamPending
  <2>2. /\ SoundHist(h) /\ h.resetStreamState = "None" /\ n \in Nat
        /\ h.lastIndex = IF resolveOk(s.hist) THEN s.hist.lastIndex + n
                         ELSE s.hist.lastIndex
    BY <2>1, ResolveSound DEF Sound
  <2> HIDE DEF h, n
  <2>3. /\ DOMAIN r = SessFields /\ SameUsers(s, r) /\ r.hist = h
        /\ r.status = s.status /\ r.flags = s.flags /\ r.position = s.position
    BY DEF Sound, SessFields, SameUsers
  <2>4. s.hist.lastIndex \in Int
    BY DEF Sound, SoundHist
  <2>5. CASE ~resolveOk(s.hist)
    <3>1. t = clearAutoReset(r, TRUE)
      BY <1>2, <2>5 DEF resolvePendingStreamedReset, h
    <3> HIDE DEF r
    <3>2. Sound(r)
      BY <2>2, <2>3, <2>5 DEF Sound, SameUsers, Present
    <3>3. /\ Sound(t) /\ SameUsers(r, t) /\ t.hist.resetStreamState = "None"
      BY <2>2, <2>3, <3>1, <3>2, ClearSound DEF Streaming
    <3> HIDE DEF t
    <3>4. Passes(s, t)
      BY <2>1, <2>3, <3>3 DEF Passes, SameUsers, StreamKept, Streaming
    <3> QED BY <3>4 DEF t
  <2>6. CASE resolveOk(s.hist)
    <3> DEFINE a == addToHistoryPosition(r, n)
               k == clearAutoReset(a, FALSE)
    <3>1. t = notifyAll(k)
      BY <1>2, <2>6 DEF resolvePendingStreamedReset, h, n
    <3>2. /\ DOMAIN a = SessFields /\ SameUsers(s, a) /\ a.hist = h
          /\ a.status = s.status /\ a.flags = s.flags
          /\ a.position = [c \in Clients |-> IF c \in Present(s) THEN s.position[c] + n
                                             ELSE s.position[c]]
      BY <2>3 DEF addToHistoryPosition, SessFields, SameUsers, Present
    <3> HIDE DEF r, a
    <3>3. /\ a.position \in [Clients -> Int]
          /\ \A c \in Clients : a.position[c] <= h.lastIndex
      <4>1. ASSUME NEW c \in Clients
            PROVE  a.position[c] \in Int /\ a.position[c] <= h.lastIndex
        <5>1. s.position[c] \in Int /\ s.position[c] <= s.hist.lastIndex
          BY DEF Sound
        <5>2. h.lastIndex = s.hist.lastIndex + n /\ n \in Nat
          BY <2>2, <2>6
        <5> QED BY <2>4, <3>2, <5>1, <5>2
      <4> QED BY <3>2, <4>1
    <3>4. Sound(a)
      BY <2>2, <3>2, <3>3 DEF Sound, SameUsers, Present
    <3>5. Sound(k) /\ SameUsers(a, k) /\ k.hist.resetStreamState = "None"
      BY <2>2, <3>2, <3>4, ClearSound DEF Streaming
    <3> HIDE DEF k
    <3>6. Untouched(k, t)
      BY <3>1, <3>5, NotifyUntouched
    <3>7. Sound(t)
      BY <3>5, <3>6, UntouchedPasses DEF Passes
    <3> HIDE DEF t
    <3>8. Passes(s, t)
      BY <2>1, <3>2, <3>5, <3>6, <3>7
         DEF Passes, SameUsers, StreamKept, Streaming, Untouched
    <3> QED BY <3>8 DEF t
  <2> QED BY <2>5, <2>6
<1> QED BY <1>1, <1>2

(* A client is sent what it has not got.                                   *)
LEMMA BatchPasses ==
  ASSUME NEW s, Sound(s), NEW c \in Clients
  PROVE  Passes(s, sendNextHistoryBatch(s, c))
<1> DEFINE r == resolvePendingStreamedReset(s)
           a == [r EXCEPT !.position[c] = r.hist.lastIndex]
           ms == getBatch(r.hist, r.position[c])
<1>1. CASE s.uploading[c] \/ s.state # "Running"
  BY <1>1, PassesItself DEF sendNextHistoryBatch
<1>2. CASE ~(s.uploading[c] \/ s.state # "Running")
  <2>1. sendNextHistoryBatch(s, c) = Send(a, c, ms)
    BY <1>2 DEF sendNextHistoryBatch
  <2>2. Passes(s, r)
    BY ResolvePasses
  <2> HIDE DEF r, ms
  <2>3. /\ DOMAIN a = SessFields /\ SameUsers(r, a) /\ a.hist = r.hist
        /\ a.status = r.status /\ a.flags = r.flags
        /\ a.position = [r.position EXCEPT ![c] = r.hist.lastIndex]
    BY <2>2 DEF Passes, Sound, SessFields, SameUsers
  <2>4. r.hist.lastIndex \in Int
    BY <2>2 DEF Passes, Sound, SoundHist
  <2> HIDE DEF a
  <2>5. /\ a.position \in [Clients -> Int]
        /\ \A d \in Clients : a.position[d] <= a.hist.lastIndex
    BY <2>2, <2>3, <2>4 DEF Passes, Sound
  <2>6. Sound(a)
    BY <2>2, <2>3, <2>5 DEF Passes, Sound, SameUsers, Present
  <2>7. Passes(r, a)
    BY <2>3, <2>6 DEF Passes, StreamKept, Streaming
  <2>8. Passes(a, Send(a, c, ms))
    BY <2>6, SendUntouched, UntouchedPasses
  <2>9. Sound(r)
    BY <2>2 DEF Passes
  <2>10. Passes(s, a)
    BY <2>2, <2>7, <2>9, PassesOn
  <2> QED BY <2>1, <2>6, <2>8, <2>10, PassesOn
<1> QED BY <1>1, <1>2

(* f holds the session after each of the first n clients had its turn.     *)
SentTo(f, s, n) ==
  f = [i \in 0 .. n |-> IF i = 0 THEN s
                        ELSE sendNextHistoryBatch(f[i - 1], s.clients[i])]

(* The recursion over the clients has a solution.                          *)
LEMMA SentRuns ==
  ASSUME NEW s, NEW n \in Nat
  PROVE  \E f : SentTo(f, s, n)
<1> DEFINE Run(f, k) == SentTo(f, s, k)
           step(b, i) == sendNextHistoryBatch(b, s.clients[i])
           T == {k \in Nat : ~\E f : Run(f, k)}
<1>1. \A f, k : Run(f, k) <=> f = [i \in 0 .. k |-> IF i = 0 THEN s ELSE step(f[i - 1], i)]
  BY DEF SentTo
<1> HIDE DEF Run, step
<1>2. SUFFICES ASSUME T # {} PROVE FALSE
  BY DEF Run
<1>3. PICK k \in T : \A j \in T : k <= j
  BY <1>2, LeastNumber
<1>4. k # 0
  <2> DEFINE f == [i \in 0 .. 0 |-> s]
  <2>1. f = [i \in 0 .. 0 |-> IF i = 0 THEN s ELSE step(f[i - 1], i)]
    OBVIOUS
  <2>2. Run(f, 0)
    BY <1>1, <2>1
  <2> QED BY <2>2
<1>5. k \in Nat /\ k - 1 \in Nat /\ k - 1 \notin T
  BY <1>3, <1>4
<1>6. PICK g : Run(g, k - 1)
  BY <1>5
<1> DEFINE f == [i \in 0 .. k |-> IF i = k THEN step(g[k - 1], k) ELSE g[i]]
<1>7. g = [i \in 0 .. k - 1 |-> IF i = 0 THEN s ELSE step(g[i - 1], i)]
  BY <1>1, <1>6
<1>8. \A i \in 0 .. k : f[i] = IF i = 0 THEN s ELSE step(f[i - 1], i)
  <2> TAKE i \in 0 .. k
  <2>1. CASE i = k
    BY <1>4, <1>5, <2>1
  <2>2. CASE i # k
    <3>1. i \in 0 .. k - 1 /\ (i # 0 => i - 1 \in 0 .. k - 1)
      BY <1>5, <2>2
    <3>2. g[i] = IF i = 0 THEN s ELSE step(g[i - 1], i)
      BY <1>7, <3>1
    <3>3. f[i] = g[i] /\ (i # 0 => f[i - 1] = g[i - 1])
      BY <1>5, <2>2
    <3> QED BY <3>2, <3>3
  <2> QED BY <2>1, <2>2
<1>9. f = [i \in 0 .. k |-> IF i = 0 THEN s ELSE step(f[i - 1], i)]
  <2> DEFINE rhs(i) == IF i = 0 THEN s ELSE step(f[i - 1], i)
  <2>1. f = [i \in 0 .. k |-> f[i]]
    OBVIOUS
  <2>2. \A i \in 0 .. k : f[i] = rhs(i)
    BY <1>8
  <2> HIDE DEF f, rhs
  <2>3. f = [i \in 0 .. k |-> rhs(i)]
    BY <2>1, <2>2
  <2> QED BY <2>3 DEF rhs
<1> HIDE DEF f
<1>10. Run(f, k)
  BY <1>1, <1>9
<1> QED BY <1>3, <1>10

(* All the clients are.                                                    *)
LEMMA NewMessagesPasses ==
  ASSUME NEW s, Sound(s)
  PROVE  Passes(s, newMessagesAvailable(s))
<1> DEFINE n == Len(s.clients)
           run == CHOOSE f : SentTo(f, s, n)
           T == {i \in 0 .. n : ~Passes(s, run[i])}
<1>1. n \in Nat /\ \A i \in 1 .. n : s.clients[i] \in Clients
  BY LenProperties, ElementOfSeq DEF Sound
<1>2. newMessagesAvailable(s) = run[n]
  BY DEF newMessagesAvailable, SentTo
<1>3. SentTo(run, s, n)
  BY <1>1, SentRuns
<1> HIDE DEF run, n
<1>4. \A i \in 0 .. n : run[i] = IF i = 0 THEN s
                                 ELSE sendNextHistoryBatch(run[i - 1], s.clients[i])
  BY <1>3 DEF SentTo
<1>5. SUFFICES ASSUME T # {} PROVE FALSE
  BY <1>1, <1>2
<1>6. PICK k \in T : \A j \in T : k <= j
  <2>1. T \subseteq Nat
    OBVIOUS
  <2> QED BY <1>5, <2>1, LeastNumber
<1>7. k # 0
  BY <1>1, <1>4, <1>6, PassesItself
<1>8. k \in 1 .. n /\ k - 1 \in 0 .. n /\ k - 1 \notin T
  BY <1>1, <1>6, <1>7
<1>9. Passes(s, run[k - 1])
  BY <1>8
<1>10. Passes(run[k - 1], sendNextHistoryBatch(run[k - 1], s.clients[k]))
  BY <1>1, <1>8, <1>9, BatchPasses DEF Passes
<1>11. Passes(s, sendNextHistoryBatch(run[k - 1], s.clients[k]))
  BY <1>9, <1>10, PassesOn DEF Passes
<1>12. run[k] = sendNextHistoryBatch(run[k - 1], s.clients[k])
  BY <1>1, <1>4, <1>7, <1>8
<1> QED BY <1>6, <1>11, <1>12

----------------------------------------------------------------------------
(* Adding to the history.                                                  *)

(* A message is added and sent to all.                                     *)
LEMMA AddedPasses ==
  ASSUME NEW s, Sound(s), NEW m
  PROVE  Passes(s, newMessagesAvailable([s EXCEPT !.hist = addMessageInternal(@, <<m>>)]))
<1> DEFINE h == addMessageInternal(s.hist, <<m>>)
           a == [s EXCEPT !.hist = h]
<1>1. /\ SoundHist(h) /\ h.resetStreamState = s.hist.resetStreamState
      /\ h.ctxId = s.hist.ctxId /\ h.lastIndex = s.hist.lastIndex + 1
  <2>1. SoundHist(s.hist)
    BY DEF Sound
  <2>2. IsSequence(<<m>>) /\ Len(<<m>>) = 1
    BY Literals
  <2> QED BY <2>1, <2>2, AddSound
<1> HIDE DEF h
<1>2. /\ DOMAIN a = SessFields /\ SameUsers(s, a) /\ a.hist = h
      /\ a.status = s.status /\ a.flags = s.flags /\ a.position = s.position
  BY DEF Sound, SessFields, SameUsers
<1> HIDE DEF a
<1>3. ASSUME NEW c \in Clients PROVE a.position[c] <= h.lastIndex
  <2>1. s.hist.lastIndex \in Int /\ s.position[c] \in Int
    BY DEF Sound, SoundHist
  <2>2. s.position[c] <= s.hist.lastIndex
    BY DEF Sound
  <2>3. h.lastIndex = s.hist.lastIndex + 1 /\ a.position = s.position
    BY <1>1, <1>2
  <2> QED BY <2>1, <2>2, <2>3
<1>4. Sound(a)
  BY <1>1, <1>2, <1>3 DEF Sound, SameUsers, Present
<1>5. Passes(s, a)
  BY <1>1, <1>2, <1>4 DEF Passes, StreamKept, Streaming
<1>6. Passes(a, newMessagesAvailable(a))
  BY <1>4, NewMessagesPasses
<1> QED BY <1>4, <1>5, <1>6, PassesOn DEF a, h

(* With space or in an emergency.                                          *)
LEMMA AddMessagePasses ==
  ASSUME NEW s, Sound(s), NEW m
  PROVE  Passes(s, addMessage(s, m)) /\ Passes(s, addEmergencyMessage(s, m))
BY AddedPasses, PassesItself DEF addMessage, addEmergencyMessage

(* Only a session that has asked nobody starts to ask.                     *)
LEMMA QueryPasses ==
  ASSUME NEW s, Sound(s)
  PROVE  Passes(s, checkAutoResetQuery(s))
<1> DEFINE q == [s EXCEPT !.payload = @ + 1, !.candidates = << >>,
                          !.status = "Queried", !.timer = TRUE,
                          !.flags = [c \in Clients |->
                             IF c \in Present(s) \cap s.ops THEN {"Queried"} ELSE {}]]
           n == notifyAll(q)
           quiet == \/ s.state # "Running" \/ s.status # "NotSent" \/ s.delayed
                    \/ s.hist.sizeInBytes <= effectiveAutoResetThreshold(s.hist)
           t == sendDirectMessages(n, Present(q) \cap q.ops, QueryMsg(q.payload))
<1>1. CASE quiet
  <2>1. checkAutoResetQuery(s) = s
    BY <1>1 DEF checkAutoResetQuery
  <2> QED BY <2>1, PassesItself
<1>2. CASE ~quiet
  <2>1. checkAutoResetQuery(s) = t
    BY <1>2 DEF checkAutoResetQuery
  <2>2. s.state = "Running" /\ s.status = "NotSent"
    BY <1>2 DEF Sound
  <2>3. /\ DOMAIN q = SessFields /\ SameUsers(s, q) /\ q.hist = s.hist
        /\ q.status = "Queried" /\ DOMAIN q.flags = Clients
        /\ q.position = s.position
    BY DEF Sound, SessFields, SameUsers
  <2> HIDE DEF q
  <2>4. Sound(q)
    BY <2>3 DEF Sound, SameUsers, Present, Statuses
  <2>5. Passes(s, q)
    BY <2>2, <2>3, <2>4 DEF Passes, StreamKept, Streaming
  <2>6. Passes(q, n)
    BY <2>4, NotifyUntouched, UntouchedPasses
  <2>7. Passes(n, t)
    BY <2>6, DirectUntouched, UntouchedPasses DEF Passes
  <2> HIDE DEF n, t
  <2>8. Passes(s, n)
    BY <2>5, <2>6, PassesOn DEF Passes
  <2> QED BY <2>1, <2>7, <2>8, PassesOn DEF Passes
<1> QED BY <1>1, <1>2

(* Whatever the space.                                                     *)
LEMMA AddToHistoryPasses ==
  ASSUME NEW s, Sound(s), NEW m
  PROVE  Passes(s, addToHistory(s, m))
<1>1. Passes(s, checkAutoResetQuery(addMessage(s, m)))
  BY AddMessagePasses, QueryPasses, PassesOn DEF Passes
<1>2. Passes(s, addEmergencyMessage(s, m))
  BY AddMessagePasses
<1>3. Passes(s, directToAll(s, m))
  BY DirectUntouched, UntouchedPasses DEF directToAll
<1> DEFINE t == IF ~IsEmergency(m) THEN s
                ELSE IF hasEmergencySpaceFor(s.hist, 1) THEN addEmergencyMessage(s, m)
                ELSE directToAll(s, m)
<1>4. Passes(s, t)
  BY <1>2, <1>3, PassesItself
<1> HIDE DEF t
<1>5. Passes(t, notifyAll(t))
  BY <1>4, NotifyUntouched, UntouchedPasses DEF Passes
<1>6. Passes(s, notifyAll(t))
  BY <1>4, <1>5, PassesOn
<1> QED BY <1>1, <1>6 DEF addToHistory, t

(* The users of the session, for the image of a reset.                     *)
LEMMA ServerState ==
  ASSUME NEW s, Sound(s)
  PROVE  IsSequence(serverSideStateMessages(s))
<1> DEFINE joins == [i \in DOMAIN s.clients |-> JoinMsg(s.clients[i])]
           S == {JoinMsg(c) : c \in Clients}
<1>1. /\ Len(s.clients) \in Nat /\ DOMAIN s.clients = 1 .. Len(s.clients)
      /\ \A i \in 1 .. Len(s.clients) : s.clients[i] \in Clients
  BY LenProperties, ElementOfSeq DEF Sound
<1>2. joins \in [1 .. Len(s.clients) -> S]
  BY <1>1
<1> HIDE DEF joins, S
<1>3. joins \in Seq(S)
  BY <1>1, <1>2, SeqDef
<1>4. IsSequence(joins)
  BY <1>3, InSequence
<1> QED BY <1>4, Literals, Concatenation DEF serverSideStateMessages, joins

----------------------------------------------------------------------------
(* Full resets.                                                            *)

(* What follows a reset of the history.                                    *)
LEMMA SessionResetPasses ==
  ASSUME NEW s, Sound(s), s.hist.resetStreamState = "None"
  PROVE  /\ Sound(onSessionReset(s)) /\ SameUsers(s, onSessionReset(s))
         /\ onSessionReset(s).hist.resetStreamState = "None"
<1> DEFINE k == clearAutoReset(s, FALSE)
           n == notifyAll(k)
           t == addMessage(n, CaughtUpMsg)
<1>1. Sound(k) /\ SameUsers(s, k) /\ k.hist.resetStreamState = "None"
  BY ClearSound DEF Streaming
<1> HIDE DEF k
<1>2. Passes(k, n)
  BY <1>1, NotifyUntouched, UntouchedPasses
<1>3. Passes(n, t)
  BY <1>2, AddMessagePasses DEF Passes
<1> HIDE DEF n, t
<1>4. Passes(k, t)
  BY <1>1, <1>2, <1>3, PassesOn
<1>5. /\ Sound(t) /\ SameUsers(s, t) /\ t.hist.resetStreamState = "None"
  BY <1>1, <1>4 DEF Passes, SameUsers, StreamKept
<1> QED BY <1>5 DEF onSessionReset, t, n, k

(* The image takes the place of the history, unless it does not fit.       *)
LEMMA PerformResetSound ==
  ASSUME NEW s, Sound(s), s.hist.resetStreamState = "None"
  PROVE  /\ Sound(performReset(s)) /\ SameUsers(s, performReset(s))
         /\ performReset(s).hist.resetStreamState = "None"
<1> DEFINE ms == serverSideStateMessages(s) \o s.resetstream
           h == reset(s.hist, ms)
           a == [s EXCEPT !.hist = h]
           d == directToAll(a, ResetMsg)
<1>1. CASE s.resetstream = << >>
  <2>1. performReset(s) = s
    BY <1>1 DEF performReset
  <2> QED BY <2>1 DEF SameUsers
<1>2. CASE s.resetstream # << >> /\ ~resetOk(ms)
  <2>1. performReset(s) = notifyAll(s)
    BY <1>2 DEF performReset
  <2>2. Passes(s, notifyAll(s))
    BY NotifyUntouched, UntouchedPasses
  <2> QED BY <2>1, <2>2 DEF Passes, StreamKept
<1>3. CASE s.resetstream # << >> /\ resetOk(ms)
  <2>1. performReset(s) = onSessionReset(d)
    BY <1>3 DEF performReset
  <2>2. IsSequence(ms)
    BY ServerState, Concatenation DEF Sound
  <2> HIDE DEF ms
  <2>3. /\ SoundHist(h) /\ h.resetStreamState = "None"
        /\ h.lastIndex >= s.hist.lastIndex
    BY <1>3, <2>2, ResetSound DEF Sound
  <2> HIDE DEF h
  <2>4. /\ DOMAIN a = SessFields /\ SameUsers(s, a) /\ a.hist = h
        /\ a.status = s.status /\ a.flags = s.flags /\ a.position = s.position
    BY DEF Sound, SessFields, SameUsers
  <2> HIDE DEF a
  <2>5. ASSUME NEW c \in Clients PROVE a.position[c] <= h.lastIndex
    <3>1. s.hist.lastIndex \in Int /\ h.lastIndex \in Int /\ s.position[c] \in Int
      BY <2>3 DEF Sound, SoundHist
    <3>2. s.position[c] <= s.hist.lastIndex /\ a.position = s.position
      BY <2>4 DEF Sound
    <3> QED BY <2>3, <3>1, <3>2
  <2>6. Sound(a)
    BY <2>3, <2>4, <2>5 DEF Sound, SameUsers, Present
  <2>7. Passes(a, d)
    BY <2>6, DirectUntouched, UntouchedPasses DEF directToAll
  <2> HIDE DEF d
  <2>8. /\ Sound(d) /\ SameUsers(s, d) /\ d.hist.resetStreamState = "None"
    BY <2>3, <2>4, <2>7 DEF Passes, SameUsers, StreamKept
  <2>9. /\ Sound(onSessionReset(d)) /\ SameUsers(d, onSessionReset(d))
        /\ onSessionReset(d).hist.resetStreamState = "None"
    BY <2>8, SessionResetPasses
  <2> QED BY <2>1, <2>8, <2>9 DEF SameUsers
<1> QED BY <1>1, <1>2, <1>3

(* However a full reset ends, the session goes on with nobody to wait for. *)
LEMMA RunningSound ==
  ASSUME NEW s, Sound(s), s.hist.resetStreamState = "None"
  PROVE  SoundSession(switchToRunning(s)) /\ SoundSession(abortReset(s))
<1>1. ASSUME NEW r, Sound(r), r.hist.resetStreamState = "None"
      PROVE  SoundSession(switchToRunning(r))
  <2> DEFINE a == [r EXCEPT !.initUser = NoUser]
             p == performReset(a)
             b == [p EXCEPT !.resetstream = << >>, !.state = "Running"]
  <2>1. /\ DOMAIN a = SessFields /\ a.hist = r.hist /\ a.clients = r.clients
        /\ a.state = r.state /\ a.status = r.status /\ a.resetstream = r.resetstream
        /\ a.ops = r.ops /\ a.flags = r.flags /\ a.position = r.position
        /\ a.initUser = NoUser
    BY <1>1 DEF Sound, SessFields
  <2> HIDE DEF a
  <2>2. Sound(a)
    BY <1>1, <2>1 DEF Sound, Present
  <2>3. Sound(p) /\ SameUsers(a, p)
    BY <1>1, <2>1, <2>2, PerformResetSound
  <2> HIDE DEF p
  <2>4. /\ DOMAIN b = SessFields /\ b.hist = p.hist /\ b.clients = p.clients
        /\ b.state = "Running" /\ b.status = p.status /\ b.resetstream = << >>
        /\ b.ops = p.ops /\ b.flags = p.flags /\ b.position = p.position
        /\ b.initUser = NoUser
    BY <2>1, <2>3 DEF Sound, SessFields, SameUsers
  <2> HIDE DEF b
  <2>5. Sound(b)
    BY <2>3, <2>4, Literals DEF Sound, Present
  <2>6. SoundState(b)
    BY <2>4 DEF SoundState
  <2>7. SoundSession(clearAutoReset(b, FALSE))
    BY <2>5, <2>6, ClearedSession
  <2> QED BY <2>7 DEF switchToRunning, a, p, b
<1> DEFINE e == [s EXCEPT !.resetstream = << >>]
<1>2. /\ DOMAIN e = SessFields /\ e.hist = s.hist /\ e.clients = s.clients
      /\ e.state = s.state /\ e.status = s.status /\ e.resetstream = << >>
      /\ e.ops = s.ops /\ e.flags = s.flags /\ e.position = s.position
  BY DEF Sound, SessFields
<1>3. abortReset(s) = notifyAll(switchToRunning(e))
  BY DEF abortReset
<1> HIDE DEF e
<1>4. Sound(e)
  BY <1>2, Literals DEF Sound, Present
<1>5. SoundSession(switchToRunning(e))
  BY <1>1, <1>2, <1>4
<1>6. SoundSession(abortReset(s))
  BY <1>3, <1>5, NotifyUntouched, UntouchedSound DEF SoundSession
<1> QED BY <1>1, <1>6

(* A full reset starts in the hands of an operator.                        *)
LEMMA ResetSessionSound ==
  ASSUME NEW s, SoundSession(s), s.hist.resetStreamState # "Prepared",
         NEW c \in Present(s) \cap s.ops
  PROVE  SoundSession(resetSession(s, c))
<1> DEFINE a == [s EXCEPT !.initUser = c, !.state = "Reset", !.resetstream = << >>]
           k == clearAutoReset(a, FALSE)
           n == notifyAll(k)
<1>1. CASE s.state # "Running"
  BY <1>1 DEF resetSession
<1>2. CASE s.state = "Running"
  <2>1. /\ DOMAIN a = SessFields /\ a.hist = s.hist /\ a.clients = s.clients
        /\ a.state = "Reset" /\ a.status = s.status /\ a.resetstream = << >>
        /\ a.ops = s.ops /\ a.flags = s.flags /\ a.position = s.position
        /\ a.initUser = c
    BY DEF SoundSession, Sound, SessFields
  <2>2. resetSession(s, c) = sendDirectMessages(n, {c}, InitMsg)
    BY <1>2, Zenon DEF resetSession, switchToReset, sendDirectMessage
  <2> HIDE DEF a
  <2>3. Sound(a)
    BY <2>1, Literals DEF SoundSession, Sound, Present
  <2>4. /\ Sound(k) /\ SameUsers(a, k) /\ k.status = "NotSent"
        /\ k.hist.resetStreamState = "None"
    <3>1. a.hist.resetStreamState \in {"None", "Streaming"}
      BY <2>1 DEF SoundSession, Sound, SoundHist
    <3>2. /\ Sound(k) /\ SameUsers(a, k) /\ k.status = "NotSent"
          /\ k.hist.resetStreamState =
               IF Streaming(a) THEN "None" ELSE a.hist.resetStreamState
      BY <2>3, ClearSound
    <3> QED BY <3>1, <3>2 DEF Streaming
  <2> HIDE DEF k
  <2>5. SoundSession(k)
    BY <2>1, <2>4 DEF SoundSession, SoundStream, SoundState, SameUsers, Present, Streaming
  <2>6. SoundSession(n)
    BY <2>5, NotifyUntouched, UntouchedSound DEF SoundSession
  <2> QED BY <2>2, <2>6, DirectUntouched, UntouchedSound DEF SoundSession
<1> QED BY <1>1, <1>2

----------------------------------------------------------------------------
(* Joining, leaving and operators.                                         *)

(* Who is alone becomes the operator.                                      *)
LEMMA EnsureSound ==
  ASSUME NEW s, SoundSession(s)
  PROVE  SoundSession(ensureOperatorExists(s))
<1> DEFINE a == [s EXCEPT !.ops = {Head(s.clients)}]
           n == notifyAll(a)
<1>1. CASE HasOpword \/ s.clients = << >> \/ Present(s) \cap s.ops # {}
  <2>1. ensureOperatorExists(s) = s
    BY <1>1 DEF ensureOperatorExists
  <2> QED BY <2>1
<1>2. CASE ~HasOpword /\ s.clients # << >> /\ Present(s) \cap s.ops = {}
  <2>1. ensureOperatorExists(s) = addToHistory(n, OwnerMsg(0))
    BY <1>2 DEF ensureOperatorExists
  <2>2. /\ DOMAIN a = SessFields /\ a.hist = s.hist /\ a.clients = s.clients
        /\ a.state = s.state /\ a.status = s.status /\ a.resetstream = s.resetstream
        /\ a.ops = {Head(s.clients)} /\ a.flags = s.flags /\ a.position = s.position
        /\ a.initUser = s.initUser
    BY DEF SoundSession, Sound, SessFields
  <2> HIDE DEF a
  <2>3. Head(s.clients) \in Present(s)
    <3>1. /\ s.clients \in Seq(Clients) /\ Len(s.clients) \in Nat
          /\ DOMAIN s.clients = 1 .. Len(s.clients)
      BY LenProperties DEF SoundSession, Sound
    <3>2. Len(s.clients) \in Nat \ {0}
      BY <1>2, <3>1, EmptySeq
    <3>3. Head(s.clients) = s.clients[1]
      BY <3>1, <3>2
    <3> QED BY <3>1, <3>2, <3>3 DEF Present, ToSet
  <2>4. Sound(a)
    BY <2>2, <2>3 DEF SoundSession, Sound, Present
  <2>5. ~Streaming(s) /\ s.state # "Reset"
    BY <1>2 DEF SoundSession, SoundStream, SoundState
  <2>6. SoundSession(a)
    BY <2>2, <2>4, <2>5 DEF SoundSession, SoundStream, SoundState, Streaming
  <2>7. SoundSession(n)
    BY <2>6, NotifyUntouched, UntouchedSound DEF SoundSession
  <2> QED BY <2>1, <2>7, AddToHistoryPasses, PassesSound DEF SoundSession
<1> QED BY <1>1, <1>2

(* Candidates are not part of what has to be sound.                        *)
LEMMA InvalidateUntouched ==
  ASSUME NEW s, Sound(s), NEW cs
  PROVE  Untouched(s, invalidateAutoResetCandidates(s, cs))
BY DEF Untouched, SameUsers, invalidateAutoResetCandidates, Sound, SessFields

(* What holds when c is about to go: it may be who streams or resets.      *)
StreamUpTo(s, c) ==
  Streaming(s) =>
    /\ s.status = "Requested"
    /\ s.hist.ctxId # c =>
         /\ s.hist.ctxId \in Present(s) \cap s.ops
         /\ s.flags[s.hist.ctxId] = {"Streaming"}

StateUpTo(s, c) ==
  IF s.state = "Reset"
  THEN /\ s.initUser # c => s.initUser \in Present(s) \cap s.ops
       /\ s.hist.resetStreamState = "None" /\ s.status = "NotSent"
  ELSE s.initUser = NoUser /\ s.resetstream = << >>

(* A reset ends with who does it.                                          *)
LEMMA LeaveSound ==
  ASSUME NEW s, NEW c \in Clients, Sound(s), StreamUpTo(s, c), StateUpTo(s, c)
  PROVE  SoundSession(onClientLeave(s, c))
<1> DEFINE k == IF c = s.initUser /\ s.state = "Reset" THEN abortReset(s) ELSE s
           t == invalidateAutoResetCandidates(k, {c})
           b == [t EXCEPT !.hist = abortStreamedReset(@, c)]
<1>1. Sound(k) /\ StreamUpTo(k, c) /\ SoundState(k)
  <2>1. CASE c = s.initUser /\ s.state = "Reset"
    <3>1. SoundSession(k)
      BY <2>1, RunningSound DEF StateUpTo
    <3> QED BY <3>1 DEF SoundSession, SoundStream, StreamUpTo
  <2>2. CASE ~(c = s.initUser /\ s.state = "Reset")
    BY <2>2 DEF StateUpTo, SoundState
  <2> QED BY <2>1, <2>2
<1>2. onClientLeave(s, c) = IF StreamedResetBy(t.hist, c)
                            THEN clearAutoReset(b, TRUE)
                            ELSE resolvePendingStreamedReset(t)
  BY DEF onClientLeave
<1> HIDE DEF k
<1>3. Untouched(k, t) /\ Sound(t)
  BY <1>1, InvalidateUntouched, UntouchedPasses DEF Passes
<1> HIDE DEF t
<1>4. StreamUpTo(t, c) /\ SoundState(t)
  BY <1>1, <1>3 DEF Untouched, SameUsers, StreamUpTo, SoundState, Streaming, Present
<1>5. CASE StreamedResetBy(t.hist, c)
  <2>1. /\ DOMAIN b = SessFields /\ b.hist = abortStreamedReset(t.hist, c)
        /\ b.clients = t.clients /\ b.initUser = t.initUser
        /\ b.state = t.state /\ b.status = t.status /\ b.resetstream = t.resetstream
        /\ b.ops = t.ops /\ b.flags = t.flags /\ b.position = t.position
    BY <1>3 DEF Sound, SessFields
  <2>2. /\ SoundHist(b.hist) /\ b.hist.lastIndex = t.hist.lastIndex
        /\ b.hist.resetStreamState = "None"
    BY <1>3, <1>5, <2>1, AbortSound DEF Sound
  <2> HIDE DEF b
  <2>3. Sound(b) /\ SoundState(b)
    BY <1>3, <1>4, <2>1, <2>2 DEF Sound, SoundState, Present
  <2> QED BY <1>2, <1>5, <2>3, ClearedSession
<1>6. CASE ~StreamedResetBy(t.hist, c)
  <2>1. SoundStream(t)
    BY <1>4, <1>6 DEF StreamUpTo, SoundStream, Streaming, StreamedResetBy
  <2>2. SoundSession(t)
    BY <1>3, <1>4, <2>1 DEF SoundSession
  <2> QED BY <1>2, <1>3, <1>6, <2>2, ResolvePasses, PassesSound
<1> QED BY <1>5, <1>6

(* A user leaves.                                                          *)
LEMMA RemoveUserSound ==
  ASSUME NEW s, NEW c \in Present(s), Sound(s), StreamUpTo(s, c), StateUpTo(s, c)
  PROVE  SoundSession(removeUser(s, c))
<1> DEFINE out == [s EXCEPT !.clients = RemoveFirst(@, c), !.ops = @ \ {c},
                            !.flags[c] = {}, !.position[c] = -1,
                            !.uploading[c] = FALSE, !.inbox[c] = << >>]
           cs == RemoveFirst(s.clients, c)
           left == onClientLeave(out, c)
           told == addToHistory(left, LeaveMsg(c))
<1>1. /\ cs \in Seq(Clients) /\ ToSet(cs) = Present(s) \ {c}
      /\ \A i, j \in 1 .. Len(cs) : cs[i] = cs[j] => i = j
  <2>1. /\ s.clients \in Seq(Clients) /\ c \in ToSet(s.clients)
        /\ \A i, j \in 1 .. Len(s.clients) : s.clients[i] = s.clients[j] => i = j
    BY DEF Sound, Present
  <2> HIDE DEF out
  <2> QED BY <2>1, RemovedOnce DEF Present
<1>2. c \in Clients
  <2>1. DOMAIN s.clients = 1 .. Len(s.clients)
    BY LenProperties DEF Sound
  <2> QED BY <2>1, ElementOfSeq DEF Present, ToSet, Sound
<1>3. removeUser(s, c) = ensureOperatorExists(told)
  BY DEF removeUser
<1> HIDE DEF cs
<1>4. /\ DOMAIN out = SessFields /\ out.hist = s.hist
      /\ out.clients = cs /\ out.initUser = s.initUser
      /\ out.state = s.state /\ out.status = s.status /\ out.resetstream = s.resetstream
      /\ out.ops = s.ops \ {c} /\ out.flags = [s.flags EXCEPT ![c] = {}]
      /\ out.position = [s.position EXCEPT ![c] = -1]
  BY DEF Sound, SessFields, cs
<1> HIDE DEF out
<1>5. Present(out) = Present(s) \ {c}
  BY <1>1, <1>4 DEF Present
<1>6. -1 <= s.hist.lastIndex
  <2>1. /\ s.hist.firstIndex \in Nat /\ s.hist.lastIndex \in Int
        /\ s.hist.lastIndex - s.hist.firstIndex + 1 = Len(s.hist.messages)
        /\ Len(s.hist.messages) \in Nat
    BY DEF Sound, SoundHist, IsSequence
  <2> QED BY <2>1
<1>7. /\ out.position \in [Clients -> Int]
      /\ \A d \in Clients : out.position[d] <= s.hist.lastIndex
  BY <1>2, <1>4, <1>6 DEF Sound
<1>8. Sound(out)
  BY <1>1, <1>4, <1>5, <1>7 DEF Sound
<1>9. StreamUpTo(out, c)
  BY <1>4, <1>5 DEF StreamUpTo, Streaming, Sound
<1>10. StateUpTo(out, c)
  BY <1>4, <1>5 DEF StateUpTo
<1>11. SoundSession(left)
  BY <1>2, <1>8, <1>9, <1>10, LeaveSound
<1> HIDE DEF left
<1>12. SoundSession(told)
  BY <1>11, AddToHistoryPasses, PassesSound DEF SoundSession
<1> QED BY <1>3, <1>12, EnsureSound

(* Operators who are not any more drop out, the streamer's reset ends.     *)
LEMMA DeopSound ==
  ASSUME NEW s, SoundSession(s), NEW cs
  PROVE  /\ Sound(onClientsDeop(s, cs)) /\ SameUsers(s, onClientsDeop(s, cs))
         /\ SoundStream(onClientsDeop(s, cs))
         /\ Streaming(onClientsDeop(s, cs)) => onClientsDeop(s, cs).hist.ctxId \notin cs
         /\ SoundState(onClientsDeop(s, cs))
<1> DEFINE t == invalidateAutoResetCandidates(s, cs)
           c == s.hist.ctxId
           a == [t EXCEPT !.hist = abortStreamedReset(@, c)]
           d == sendDirectMessages(a, {c}, ProgressMsg(TRUE))
           r == onClientsDeop(s, cs)
<1>1. Untouched(s, t) /\ SoundSession(t)
  BY InvalidateUntouched, UntouchedSound DEF SoundSession
<1>2. CASE ~(s.hist.resetStreamState = "Streaming" /\ c \in cs)
  <2>1. r = t
    BY <1>2 DEF onClientsDeop
  <2> HIDE DEF r, t
  <2> QED BY <1>1, <1>2, <2>1 DEF Untouched, SoundSession, Streaming, r
<1>3. CASE s.hist.resetStreamState = "Streaming" /\ c \in cs
  <2>1. r = clearAutoReset(d, TRUE)
    BY <1>3, Zenon DEF onClientsDeop, sendDirectMessage
  <2> HIDE DEF t
  <2>2. /\ DOMAIN a = SessFields /\ a.hist = abortStreamedReset(t.hist, c)
        /\ a.clients = t.clients /\ a.initUser = t.initUser
        /\ a.state = t.state /\ a.status = t.status /\ a.resetstream = t.resetstream
        /\ a.ops = t.ops /\ a.flags = t.flags /\ a.position = t.position
    BY <1>1 DEF SoundSession, Sound, SessFields
  <2>3. StreamedResetBy(t.hist, c)
    BY <1>1, <1>3 DEF StreamedResetBy, Untouched
  <2>4. /\ SoundHist(a.hist) /\ a.hist.lastIndex = t.hist.lastIndex
        /\ a.hist.resetStreamState = "None"
    BY <1>1, <2>2, <2>3, AbortSound DEF Sound, SoundSession
  <2> HIDE DEF a
  <2>5. Sound(a) /\ SoundState(a)
    BY <1>1, <2>2, <2>4 DEF SoundSession, Sound, SoundState, Present
  <2>6. Untouched(a, d) /\ Sound(d)
    BY <2>5, DirectUntouched, UntouchedPasses DEF Passes
  <2> HIDE DEF d
  <2>7. SoundState(d)
    BY <2>5, <2>6 DEF SoundState, Untouched, SameUsers, Present
  <2>8. /\ Sound(r) /\ SoundStream(r) /\ SoundState(r) /\ SameUsers(d, r)
        /\ ~Streaming(r)
    BY <2>1, <2>4, <2>6, <2>7, ClearSound, ClearedSession
       DEF SoundSession, Untouched, Streaming
  <2>9. SameUsers(s, r)
    BY <1>1, <2>2, <2>6, <2>8 DEF Untouched, SameUsers
  <2> QED BY <2>8, <2>9
<1> QED BY <1>2, <1>3

(* The operators are others; who resets without being one is kicked.       *)
LEMMA UpdateOwnershipSound ==
  ASSUME NEW s, SoundSession(s), NEW ids
  PROVE  SoundSession(updateOwnership(s, ids))
<1> DEFINE lost == (Present(s) \cap s.ops) \ ids
           d == onClientsDeop(s, lost)
           t == [d EXCEPT !.ops = ids \cap Present(s)]
           u == IF t.ops # s.ops THEN notifyAll(t) ELSE t
<1>1. /\ Sound(d) /\ SameUsers(s, d) /\ SoundStream(d) /\ SoundState(d)
      /\ Streaming(d) => d.hist.ctxId \notin lost
  BY DeopSound
<1>2. updateOwnership(s, ids)
        = IF s.state = "Reset" /\ s.initUser \in lost THEN removeUser(u, s.initUser) ELSE u
  BY DEF updateOwnership
<1> HIDE DEF d
<1>3. /\ DOMAIN t = SessFields /\ t.hist = d.hist
      /\ t.clients = s.clients /\ t.initUser = s.initUser
      /\ t.state = s.state /\ t.status = d.status /\ t.resetstream = s.resetstream
      /\ t.ops = ids \cap Present(s) /\ t.flags = d.flags /\ t.position = d.position
  BY <1>1 DEF Sound, SessFields, SameUsers
<1> HIDE DEF t
<1>4. Present(t) = Present(s) /\ Present(d) = Present(s) /\ d.ops = s.ops
  BY <1>1, <1>3 DEF Present, SameUsers
<1>5. Sound(t)
  BY <1>1, <1>3, <1>4 DEF Sound, SameUsers
<1>6. SoundStream(t)
  BY <1>1, <1>3, <1>4 DEF SoundStream, Streaming
<1>7. Untouched(t, u) /\ Sound(u)
  <2>1. Untouched(t, t)
    BY <1>5 DEF Untouched, SameUsers, Sound
  <2> QED BY <1>5, <2>1, NotifyUntouched, UntouchedPasses DEF Passes
<1> HIDE DEF u
<1>8. Present(u) = Present(s)
  BY <1>4, <1>7 DEF Untouched, SameUsers, Present
<1>9. CASE s.state = "Reset" /\ s.initUser \in lost
  <2>1. StreamUpTo(u, s.initUser)
    BY <1>4, <1>6, <1>7, <1>8
       DEF StreamUpTo, SoundStream, Untouched, SameUsers, Streaming
  <2>2. StateUpTo(u, s.initUser)
    BY <1>1, <1>3, <1>7, <1>9 DEF StateUpTo, SoundState, Untouched, SameUsers
  <2>3. s.initUser \in Present(u)
    BY <1>8, <1>9
  <2> QED BY <1>2, <1>7, <1>9, <2>1, <2>2, <2>3, RemoveUserSound
<1>10. CASE ~(s.state = "Reset" /\ s.initUser \in lost)
  <2>1. SoundState(t)
    BY <1>1, <1>3, <1>4, <1>10 DEF SoundState, SoundSession, SameUsers
  <2>2. SoundSession(t)
    BY <1>5, <1>6, <2>1 DEF SoundSession
  <2> QED BY <1>2, <1>7, <1>10, <2>2, UntouchedSound
<1> QED BY <1>9, <1>10

(* A user becomes an operator.                                             *)
LEMMA OpStatusSound ==
  ASSUME NEW s, SoundSession(s), NEW c \in Clients
  PROVE  SoundSession(changeOpStatus(s, c))
BY UpdateOwnershipSound, AddToHistoryPasses, PassesSound DEF changeOpStatus, SoundSession

(* A user joins, perhaps as an operator.                                   *)
LEMMA JoinUserSound ==
  ASSUME NEW s, SoundSession(s), NEW c \in Clients, c \notin Present(s)
  PROVE  SoundSession(joinUser(s, c))
<1> DEFINE in == [s EXCEPT !.clients = Append(@, c), !.uploading[c] = TRUE]
           a == onClientJoin(in, c)
           k == addToHistory(a, JoinMsg(c))
           o == IF c \in Invited THEN changeOpStatus(k, c) ELSE k
<1>1. joinUser(s, c) = ensureOperatorExists(o)
  BY DEF joinUser
<1>2. /\ DOMAIN in = SessFields /\ in.hist = s.hist
      /\ in.clients = Append(s.clients, c) /\ in.initUser = s.initUser
      /\ in.state = s.state /\ in.status = s.status /\ in.resetstream = s.resetstream
      /\ in.ops = s.ops /\ in.flags = s.flags /\ in.position = s.position
  BY DEF SoundSession, Sound, SessFields
<1>3. /\ in.clients \in Seq(Clients) /\ Present(s) \subseteq Present(in)
      /\ \A i, j \in 1 .. Len(in.clients) : in.clients[i] = in.clients[j] => i = j
  <2> DEFINE q == s.clients
             r == in.clients
  <2>1. /\ q \in Seq(Clients) /\ Len(q) \in Nat /\ DOMAIN q = 1 .. Len(q)
        /\ \A i, j \in 1 .. Len(q) : q[i] = q[j] => i = j
        /\ \A i \in 1 .. Len(q) : q[i] # c
    BY LenProperties DEF SoundSession, Sound, Present, ToSet
  <2>2. /\ r \in Seq(Clients) /\ Len(r) = Len(q) + 1
        /\ \A i \in 1 .. Len(q) : r[i] = q[i]
        /\ r[Len(q) + 1] = c
    BY <1>2, <2>1, AppendProperties
  <2>3. DOMAIN r = 1 .. Len(q) + 1
    BY <2>2, LenProperties
  <2> HIDE DEF in, r
  <2>4. ASSUME NEW i \in 1 .. Len(q) + 1, NEW j \in 1 .. Len(q) + 1, r[i] = r[j]
        PROVE  i = j
    BY <2>1, <2>2, <2>4
  <2>5. Present(s) \subseteq Present(in)
    BY <2>1, <2>2, <2>3 DEF Present, ToSet, r
  <2> QED BY <2>2, <2>4, <2>5 DEF r
<1> HIDE DEF in
<1>4. SoundSession(in)
  <2>1. Sound(in)
    BY <1>2, <1>3 DEF SoundSession, Sound
  <2>2. SoundStream(in) /\ SoundState(in)
    BY <1>2, <1>3 DEF SoundSession, SoundStream, SoundState, Streaming
  <2> QED BY <2>1, <2>2 DEF SoundSession
<1>5. SoundSession(a)
  BY <1>4, AddMessagePasses, PassesSound DEF onClientJoin, SoundSession
<1> HIDE DEF a
<1>6. SoundSession(k)
  BY <1>5, AddToHistoryPasses, PassesSound DEF SoundSession
<1> HIDE DEF k
<1>7. SoundSession(changeOpStatus(k, c))
  BY <1>6, OpStatusSound
<1> QED BY <1>1, <1>6, <1>7, EnsureSound

(* A message of a client, which may be part of the image of a reset.       *)
LEMMA AddClientMessageSound ==
  ASSUME NEW s, SoundSession(s), NEW c \in Clients, NEW m
  PROVE  SoundSession(addClientMessage(s, c, m))
<1> DEFINE t == [s EXCEPT !.resetstream = Append(@, m)]
<1>1. CASE s.initUser # c
  <2>1. addClientMessage(s, c, m) = addToHistory(s, m)
    BY <1>1 DEF addClientMessage
  <2> QED BY <2>1, AddToHistoryPasses, PassesSound DEF SoundSession
<1>2. CASE s.initUser = c
  <2>1. s.state = "Reset"
    BY <1>2, SessionHistoryAssumption DEF SoundSession, SoundState, NoUser
  <2>2. \/ addClientMessage(s, c, m) = t
        \/ addClientMessage(s, c, m) = removeUser(t, c)
    BY <1>2, Zenon DEF addClientMessage, addToInitStream
  <2>3. /\ DOMAIN t = SessFields /\ t.hist = s.hist /\ t.clients = s.clients
        /\ t.initUser = s.initUser /\ t.state = s.state /\ t.status = s.status
        /\ t.resetstream = Append(s.resetstream, m)
        /\ t.ops = s.ops /\ t.flags = s.flags /\ t.position = s.position
    BY DEF SoundSession, Sound, SessFields
  <2> HIDE DEF t
  <2>4. IsSequence(t.resetstream)
    BY <2>3, Appending DEF SoundSession, Sound
  <2>5. Sound(t)
    BY <2>3, <2>4 DEF SoundSession, Sound, Present
  <2>6. SoundStream(t) /\ SoundState(t) /\ c \in Present(t)
    BY <1>2, <2>1, <2>3
       DEF SoundSession, SoundStream, SoundState, Streaming, Present
  <2>7. StreamUpTo(t, c) /\ StateUpTo(t, c)
    BY <2>6 DEF SoundStream, SoundState, StreamUpTo, StateUpTo
  <2>8. SoundSession(removeUser(t, c))
    BY <2>5, <2>6, <2>7, RemoveUserSound
  <2> QED BY <2>2, <2>5, <2>6, <2>8 DEF SoundSession
<1> QED BY <1>1, <1>2

(* A command that changes the operators.                                   *)
LEMMA ChangeOwnersSound ==
  ASSUME NEW s, SoundSession(s), NEW c \in Clients, NEW ids
  PROVE  SoundSession(changeOwners(s, c, ids))
BY UpdateOwnershipSound, AddClientMessageSound DEF changeOwners

(* The operator who resets the session sends the image, or gives up.       *)
LEMMA InitSound ==
  ASSUME NEW s, SoundSession(s), NEW c \in Clients
  PROVE  /\ SoundSession(handleInitBegin(s, c))
         /\ SoundSession(handleInitComplete(s, c))
         /\ SoundSession(handleInitCancel(s, c))
<1> DEFINE e == [s EXCEPT !.resetstream = << >>]
<1>1. CASE c # s.initUser
  BY <1>1 DEF handleInitBegin, handleInitComplete, handleInitCancel
<1>2. CASE c = s.initUser
  <2>1. s.state = "Reset" /\ s.hist.resetStreamState = "None"
    BY <1>2, SessionHistoryAssumption DEF SoundSession, SoundState, NoUser
  <2>2. SoundSession(switchToRunning(s)) /\ SoundSession(abortReset(s))
    BY <2>1, RunningSound DEF SoundSession
  <2>3. /\ DOMAIN e = SessFields /\ e.hist = s.hist /\ e.clients = s.clients
        /\ e.initUser = s.initUser /\ e.state = s.state /\ e.status = s.status
        /\ e.resetstream = << >>
        /\ e.ops = s.ops /\ e.flags = s.flags /\ e.position = s.position
    BY DEF SoundSession, Sound, SessFields
  <2>4. handleInitBegin(s, c) = e
    BY <1>2 DEF handleInitBegin
  <2> HIDE DEF e
  <2>5. Sound(e)
    BY <2>3, Literals DEF SoundSession, Sound, Present
  <2>6. SoundStream(e) /\ SoundState(e)
    BY <2>1, <2>3 DEF SoundSession, SoundStream, SoundState, Streaming, Present
  <2> QED BY <1>2, <2>2, <2>4, <2>5, <2>6
          DEF SoundSession, handleInitComplete, handleInitCancel
<1> QED BY <1>1, <1>2

----------------------------------------------------------------------------
(* Finding somebody to reset the session, and the stream.                  *)

(* The best candidate is asked, or nobody.                                 *)
LEMMA TriggerSound ==
  ASSUME NEW s, SoundSession(s)
  PROVE  SoundSession(triggerAutoReset(s))
<1> DEFINE t == [s EXCEPT !.timer = FALSE]
           valid == {i \in DOMAIN t.candidates : CandidateValid(t, i)}
           best == t.candidates[CHOOSE i \in valid : \A j \in valid \ {i} : Better(t, i, j)]
           stream == best \in CanStream
           asked == [t EXCEPT !.status = "Requested", !.candidates = << >>,
                              !.flags[best] = IF stream THEN {"Awaiting", "Streaming"}
                                              ELSE {"Awaiting"}]
           request == sendDirectMessages(asked, {best}, RequestMsg(t.payload, stream))
<1>1. \/ triggerAutoReset(s) = clearAutoReset(t, TRUE)
      \/ triggerAutoReset(s) = t
      \/ t.status \notin {"Queried", "NotSent", "Requested"} /\ triggerAutoReset(s) = request
  BY Zenon DEF triggerAutoReset, sendDirectMessage
<1>2. Untouched(s, t)
  BY DEF Untouched, SameUsers, SoundSession, Sound, SessFields
<1>3. SoundSession(t)
  BY <1>2, UntouchedSound
<1>4. SoundSession(clearAutoReset(t, TRUE))
  BY <1>3, ClearedSession DEF SoundSession
<1>5. ASSUME t.status \notin {"Queried", "NotSent", "Requested"}
      PROVE  SoundSession(request)
  <2> HIDE DEF t
  <2>1. /\ DOMAIN asked = SessFields /\ asked.hist = t.hist /\ asked.clients = t.clients
        /\ asked.initUser = t.initUser /\ asked.state = t.state
        /\ asked.status = "Requested" /\ asked.resetstream = t.resetstream
        /\ asked.ops = t.ops /\ DOMAIN asked.flags = Clients
        /\ asked.position = t.position
    BY <1>3 DEF SoundSession, Sound, SessFields
  <2> HIDE DEF asked, best
  <2>2. Sound(asked)
    BY <1>3, <2>1 DEF SoundSession, Sound, Present, Statuses
  <2>3. ~Streaming(t) /\ t.state # "Reset"
    BY <1>3, <1>5 DEF SoundSession, SoundStream, SoundState
  <2>4. SoundSession(asked)
    BY <1>3, <2>1, <2>2, <2>3 DEF SoundSession, SoundStream, SoundState, Streaming
  <2> QED BY <2>4, DirectUntouched, UntouchedSound DEF SoundSession
<1> QED BY <1>1, <1>3, <1>4, <1>5

(* An operator offers to reset, perhaps too late.                          *)
LEMMA ReadySound ==
  ASSUME NEW s, SoundSession(s), NEW c \in Clients, NEW payload
  PROVE  SoundSession(readyToAutoReset(s, c, payload))
<1> DEFINE late == [s EXCEPT !.flags[c] = {}]
           t == [s EXCEPT !.candidates = Append(@, c), !.flags[c] = {"Responded"},
                          !.status = "QueriedWaiting", !.timer = TRUE]
<1>1. \/ readyToAutoReset(s, c, payload) = s
      \/ "Queried" \in s.flags[c] /\ readyToAutoReset(s, c, payload) = late
      \/ /\ s.status \in {"Queried", "QueriedWaiting"}
         /\ readyToAutoReset(s, c, payload) \in {t, triggerAutoReset(t)}
  BY DEF readyToAutoReset
<1>2. ASSUME "Queried" \in s.flags[c] PROVE SoundSession(late)
  <2>1. /\ DOMAIN late = SessFields /\ late.hist = s.hist /\ late.clients = s.clients
        /\ late.initUser = s.initUser /\ late.state = s.state
        /\ late.status = s.status /\ late.resetstream = s.resetstream
        /\ late.ops = s.ops /\ late.flags = [s.flags EXCEPT ![c] = {}]
        /\ late.position = s.position
    BY DEF SoundSession, Sound, SessFields
  <2> HIDE DEF late
  <2>2. Sound(late)
    BY <2>1 DEF SoundSession, Sound, Present
  <2>3. Streaming(s) => s.hist.ctxId # c
    BY <1>2 DEF SoundSession, SoundStream
  <2>4. SoundStream(late)
    BY <2>1, <2>3 DEF SoundSession, SoundStream, Streaming, Present, Sound
  <2>5. SoundState(late)
    BY <2>1 DEF SoundSession, SoundState, Present
  <2> QED BY <2>2, <2>4, <2>5 DEF SoundSession
<1>3. ASSUME s.status \in {"Queried", "QueriedWaiting"}
      PROVE  SoundSession(t)
  <2>1. /\ DOMAIN t = SessFields /\ t.hist = s.hist /\ t.clients = s.clients
        /\ t.initUser = s.initUser /\ t.state = s.state
        /\ t.status = "QueriedWaiting" /\ t.resetstream = s.resetstream
        /\ t.ops = s.ops /\ DOMAIN t.flags = Clients /\ t.position = s.position
    BY DEF SoundSession, Sound, SessFields
  <2> HIDE DEF t
  <2>2. Sound(t)
    BY <2>1 DEF SoundSession, Sound, Present, Statuses
  <2>3. ~Streaming(s) /\ s.state # "Reset"
    BY <1>3 DEF SoundSession, SoundStream, SoundState
  <2> QED BY <2>1, <2>2, <2>3 DEF SoundSession, SoundStream, SoundState, Streaming
<1> HIDE DEF late, t
<1> QED BY <1>1, <1>2, <1>3, TriggerSound

(* Who has been asked starts the stream.                                   *)
LEMMA StreamStartSound ==
  ASSUME NEW s, SoundSession(s), NEW c \in Present(s) \cap s.ops, c \in Clients, NEW co
  PROVE  SoundSession(handleStreamResetStart(s, c, co))
<1> DEFINE h == startStreamedReset(s.hist, c, co, serverSideStateMessages(s))
           a == [s EXCEPT !.hist = h]
           n == newMessagesAvailable(a)
           t == [n EXCEPT !.flags[c] = {"Streaming"}]
<1>1. \/ handleStreamResetStart(s, c, co) = s
      \/ handleStreamResetStart(s, c, co) = clearAutoReset(s, TRUE)
      \/ /\ s.status = "Requested" /\ StartResult(s.hist) = "Ok"
         /\ handleStreamResetStart(s, c, co) = t
  BY DEF handleStreamResetStart
<1>2. SoundSession(clearAutoReset(s, TRUE))
  BY ClearedSession DEF SoundSession
<1>3. ASSUME s.status = "Requested", StartResult(s.hist) = "Ok"
      PROVE  SoundSession(t)
  <2>1. /\ SoundHist(h) /\ h.resetStreamState = "Streaming" /\ h.ctxId = c
        /\ h.lastIndex >= s.hist.lastIndex
    BY <1>3, ServerState, StartSound DEF SoundSession, Sound
  <2> HIDE DEF h
  <2>2. /\ DOMAIN a = SessFields /\ SameUsers(s, a) /\ a.hist = h
        /\ a.status = s.status /\ a.flags = s.flags /\ a.position = s.position
    BY DEF SoundSession, Sound, SessFields, SameUsers
  <2> HIDE DEF a
  <2>3. ASSUME NEW d \in Clients PROVE a.position[d] <= h.lastIndex
    <3>1. s.hist.lastIndex \in Int /\ h.lastIndex \in Int /\ s.position[d] \in Int
      BY <2>1 DEF SoundSession, Sound, SoundHist
    <3>2. s.position[d] <= s.hist.lastIndex /\ a.position = s.position
      BY <2>2 DEF SoundSession, Sound
    <3> QED BY <2>1, <3>1, <3>2
  <2>4. Sound(a)
    BY <2>1, <2>2, <2>3 DEF SoundSession, Sound, SameUsers, Present
  <2>5. Passes(a, n)
    BY <2>4, NewMessagesPasses
  <2> HIDE DEF n
  <2>6. /\ Sound(n) /\ SameUsers(s, n) /\ Streaming(n) /\ n.hist.ctxId = c
        /\ n.status = "Requested"
    BY <1>3, <2>1, <2>2, <2>5 DEF Passes, SameUsers, StreamKept, Streaming
  <2>7. /\ DOMAIN t = SessFields /\ SameUsers(n, t) /\ t.hist = n.hist
        /\ t.status = n.status /\ t.flags = [n.flags EXCEPT ![c] = {"Streaming"}]
        /\ t.position = n.position
    BY <2>6 DEF Sound, SessFields, SameUsers
  <2> HIDE DEF t
  <2>8. Sound(t)
    BY <2>6, <2>7 DEF Sound, SameUsers, Present
  <2>9. SoundStream(t)
    BY <2>6, <2>7 DEF SoundStream, SameUsers, Present, Sound
  <2>10. s.state # "Reset"
    BY <1>3 DEF SoundSession, SoundState
  <2>11. SoundState(t)
    BY <2>6, <2>7, <2>10 DEF SoundSession, SoundState, SameUsers
  <2> QED BY <2>8, <2>9, <2>11 DEF SoundSession
<1> HIDE DEF t
<1> QED BY <1>1, <1>2, <1>3

(* The session with a stream that has changed, or has ended.               *)
LEMMA StreamChanged ==
  ASSUME NEW s, SoundSession(s), NEW h, SoundHist(h), h.lastIndex = s.hist.lastIndex,
         \/ /\ h.resetStreamState = s.hist.resetStreamState /\ h.ctxId = s.hist.ctxId
         \/ h.resetStreamState = "None"
         \/ h.resetStreamState = "Prepared" /\ Streaming(s)
  PROVE  SoundSession([s EXCEPT !.hist = h])
<1> DEFINE t == [s EXCEPT !.hist = h]
<1>1. /\ DOMAIN t = SessFields /\ SameUsers(s, t) /\ t.hist = h
      /\ t.status = s.status /\ t.flags = s.flags /\ t.position = s.position
  BY DEF SoundSession, Sound, SessFields, SameUsers
<1> HIDE DEF t
<1>2. Sound(t)
  BY <1>1 DEF SoundSession, Sound, SameUsers, Present
<1>3. SoundStream(t)
  BY <1>1 DEF SoundSession, SoundStream, SameUsers, Present, Streaming
<1>4. SoundState(t)
  BY <1>1 DEF SoundSession, SoundState, SameUsers, Present, Streaming
<1> QED BY <1>2, <1>3, <1>4 DEF SoundSession, t

(* A message of the stream, from whoever.                                  *)
LEMMA StreamSound ==
  ASSUME NEW s, SoundSession(s), NEW c \in Clients, NEW m
  PROVE  SoundSession(onResetStream(s, c, m))
<1> DEFINE h == addStreamResetMessage(s.hist, c, m)
           t == [s EXCEPT !.hist = h]
<1>1. SoundSession(t)
  <2>1. /\ SoundHist(h) /\ h.resetStreamState = s.hist.resetStreamState
        /\ h.ctxId = s.hist.ctxId /\ h.lastIndex = s.hist.lastIndex
    BY AddStreamSound DEF SoundSession, Sound
  <2> HIDE DEF h
  <2> QED BY <2>1, StreamChanged
<1>2. \/ \E p : onResetStream(s, c, m) = sendDirectMessages(t, {c}, p)
      \/ \E p : onResetStream(s, c, m)
                  = clearAutoReset(sendDirectMessages(t, {c}, p), TRUE)
  BY Zenon DEF onResetStream, sendDirectMessage
<1> HIDE DEF t
<1>3. \A p : SoundSession(sendDirectMessages(t, {c}, p))
  BY <1>1, DirectUntouched, UntouchedSound DEF SoundSession
<1> QED BY <1>2, <1>3, ClearedSession DEF SoundSession

(* The streamer gives up.                                                  *)
LEMMA StreamAbortSound ==
  ASSUME NEW s, SoundSession(s), NEW c \in Clients
  PROVE  SoundSession(handleStreamResetAbort(s, c))
<1> DEFINE h == abortStreamedReset(s.hist, c)
<1>1. CASE ~StreamedResetBy(s.hist, c)
  BY <1>1 DEF handleStreamResetAbort
<1>2. CASE StreamedResetBy(s.hist, c)
  <2>1. handleStreamResetAbort(s, c) = clearAutoReset([s EXCEPT !.hist = h], TRUE)
    BY <1>2 DEF handleStreamResetAbort
  <2>2. /\ SoundHist(h) /\ h.lastIndex = s.hist.lastIndex
        /\ h.resetStreamState = "None"
    BY <1>2, AbortSound DEF SoundSession, Sound
  <2> HIDE DEF h
  <2>3. SoundSession([s EXCEPT !.hist = h])
    BY <2>2, StreamChanged
  <2> QED BY <2>1, <2>3, ClearedSession DEF SoundSession
<1> QED BY <1>1, <1>2

(* The stream is complete.                                                 *)
LEMMA StreamFinishSound ==
  ASSUME NEW s, SoundSession(s), NEW c \in Clients, NEW n
  PROVE  SoundSession(handleStreamResetFinish(s, c, n))
<1> DEFINE h == prepareStreamedReset(s.hist, c, n)
           t == [s EXCEPT !.hist = h]
           u == [t EXCEPT !.flags[c] = {}]
           result == PrepareResult(s.hist, c, n)
<1>1. /\ SoundHist(h) /\ h.lastIndex = s.hist.lastIndex
      /\ result = "Ok" => h.resetStreamState = "Prepared"
      /\ result = "InvalidMessageCount" => h.resetStreamState = "None"
      /\ result \notin {"Ok", "InvalidMessageCount"} => h = s.hist
  BY PrepareSound DEF SoundSession, Sound
<1>2. result = "Ok" => Streaming(s)
  BY DEF PrepareResult, Streaming
<1>3. handleStreamResetFinish(s, c, n)
        = CASE result = "Ok" -> resolvePendingStreamedReset(u)
            [] result = "InvalidMessageCount" -> clearAutoReset(t, TRUE)
            [] OTHER -> t
  BY DEF handleStreamResetFinish
<1> HIDE DEF h, result
<1>4. SoundSession(t)
  BY <1>1, <1>2, StreamChanged
<1>5. t.hist = h
  BY DEF SoundSession, Sound, SessFields
<1> HIDE DEF t
<1>6. CASE result = "Ok"
  <2>1. /\ DOMAIN u = SessFields /\ SameUsers(t, u) /\ u.hist = h
        /\ u.status = t.status /\ DOMAIN u.flags = Clients /\ u.position = t.position
    BY <1>4, <1>5 DEF SoundSession, Sound, SessFields, SameUsers
  <2> HIDE DEF u
  <2>2. Sound(u)
    BY <1>4, <1>5, <2>1 DEF SoundSession, Sound, SameUsers, Present
  <2>3. SoundStream(u)
    BY <1>1, <1>6, <2>1 DEF SoundStream, Streaming
  <2>4. SoundState(u)
    BY <1>4, <1>5, <2>1 DEF SoundSession, SoundState, SameUsers, Present
  <2>5. SoundSession(resolvePendingStreamedReset(u))
    BY <2>2, <2>3, <2>4, ResolvePasses, PassesSound DEF SoundSession
  <2> QED BY <1>3, <1>6, <2>5
<1>7. CASE result = "InvalidMessageCount"
  BY <1>3, <1>4, <1>7, ClearedSession DEF SoundSession
<1>8. CASE result \notin {"Ok", "InvalidMessageCount"}
  BY <1>3, <1>4, <1>8
<1> QED BY <1>6, <1>7, <1>8
=============================================================================
