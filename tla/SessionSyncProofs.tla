--------------------------- MODULE SessionSyncProofs ---------------------------
(***************************************************************************)
(* What holds of the session for any number of clients, any limits and any *)
(* traffic, as long as no full reset is asked for while a streamed one     *)
(* waits to take effect.  That the session is sound does not rely on what  *)
(* the messages of clients hold.  That session and clients agree does: it  *)
(* needs the answers of the clients, and two conditions more, no full      *)
(* reset past a leave that somebody was not sent, and emergency space that *)
(* is not used up.                                                         *)
(***************************************************************************)
EXTENDS SessionSync, ThinSessionProofs

(* A session that has just been hosted.                                    *)
LEMMA NewSessionSound ==
  ASSUME NEW host \in Clients
  PROVE  SoundSession(NewSession(host))
<1> DEFINE s == NewSession(host)
           ms == <<JoinMsg(host), OwnerMsg(0), ImageMsg(<<0>>)>>
           h == NewHistory(ms)
<1>1. IsSequence(ms) /\ Len(ms) = 3
  BY Literals
<1> HIDE DEF ms
<1>2. SoundHist(h) /\ h.lastIndex = 2 /\ h.resetStreamState = "None"
  <2>1. /\ SoundHist(h) /\ h.lastIndex = Len(ms) - 1
        /\ h.resetStreamState = "None"
    BY <1>1, NewHistorySound
  <2> HIDE DEF h
  <2> QED BY <1>1, <2>1
<1> HIDE DEF h
<1>3. /\ DOMAIN s = SessFields /\ s.hist = h /\ s.clients = <<host>>
      /\ s.initUser = NoUser /\ s.state = "Running" /\ s.status = "NotSent"
      /\ s.resetstream = << >> /\ s.ops = {host}
      /\ DOMAIN s.flags = Clients
      /\ s.position = [c \in Clients |-> IF c = host THEN 2 ELSE -1]
  BY DEF NewSession, SessFields, ms, h
<1> HIDE DEF s
<1>4. /\ s.clients \in Seq(Clients) /\ Present(s) = {host}
      /\ \A i, j \in 1 .. Len(s.clients) : s.clients[i] = s.clients[j] => i = j
  BY <1>3 DEF Present, ToSet
<1>5. Sound(s)
  BY <1>2, <1>3, <1>4, Literals DEF Sound, Statuses
<1> QED BY <1>2, <1>3, <1>5 DEF SoundSession, SoundStream, SoundState, Streaming, s

(* Steps that only move messages between the server and a client.          *)
LEMMA MovedSound ==
  ASSUME SoundSession(sv), NEW c
  PROVE  /\ \A x : SoundSession([sv EXCEPT !.uploading[c] = x])
         /\ \A x : SoundSession([sv EXCEPT !.inbox[c] = x])
         /\ \A x : SoundSession([sv EXCEPT !.delayed = x])
<1>1. ASSUME NEW x
      PROVE  /\ Untouched(sv, [sv EXCEPT !.uploading[c] = x])
             /\ Untouched(sv, [sv EXCEPT !.inbox[c] = x])
             /\ Untouched(sv, [sv EXCEPT !.delayed = x])
  BY DEF Untouched, SameUsers, SoundSession, Sound, SessFields
<1> QED BY <1>1, UntouchedSound

(* No full reset is asked for while a streamed one waits.                  *)
LEMMA ResetNotPending ==
  ASSUME "ResetPending" \notin Features, ResetAllowed
  PROVE  sv.hist.resetStreamState # "Prepared"
BY DEF ResetAllowed, isResetStreamPending

(* Whatever a client has sent, the server handles it.                      *)
LEMMA HandleSound ==
  ASSUME SoundSession(sv), "ResetPending" \notin Features,
         NEW c \in Clients, HandleMessage(c)
  PROVE  SoundSession(sv')
<1>1. c \in Present(sv)
  BY DEF HandleMessage, HandleImage, HandleReady, HandleResetSession, HandleInitBegin,
         HandleInitComplete, HandleInitCancel, HandleStart, HandleStream, HandleAbort,
         HandleFinish, Command, Handle
<1>2. ASSUME NEW type, NEW t, Command(c, type, t), c \in sv.ops => SoundSession(t)
      PROVE  SoundSession(sv')
  <2>1. sv' = IF c \in sv.ops THEN t ELSE [sv EXCEPT !.uploading[c] = TRUE]
    BY <1>2 DEF Command, Handle, Become
  <2> QED BY <1>2, <2>1, MovedSound
<1>3. CASE HandleImage(c)
  <2>1. sv' = addClientMessage(sv, c, Head(cl[c].up))
    BY <1>3 DEF HandleImage, Handle, Become
  <2> QED BY <2>1, AddClientMessageSound
<1>4. CASE HandleReady(c)
  BY <1>2, <1>4, ReadySound DEF HandleReady
<1>5. CASE HandleResetSession(c)
  BY <1>1, <1>2, <1>5, ResetNotPending, ResetSessionSound DEF HandleResetSession
<1>6. CASE HandleInitBegin(c)
  BY <1>2, <1>6, InitSound DEF HandleInitBegin
<1>7. CASE HandleInitComplete(c)
  BY <1>2, <1>7, InitSound DEF HandleInitComplete
<1>8. CASE HandleInitCancel(c)
  BY <1>2, <1>8, InitSound DEF HandleInitCancel
<1>9. CASE HandleStart(c)
  BY <1>1, <1>2, <1>9, StreamStartSound DEF HandleStart
<1>10. CASE HandleStream(c)
  <2>1. sv' = onResetStream(sv, c, Head(cl[c].up).image)
    BY <1>10 DEF HandleStream, Handle, Become
  <2> QED BY <2>1, StreamSound
<1>11. CASE HandleAbort(c)
  BY <1>2, <1>11, StreamAbortSound DEF HandleAbort
<1>12. CASE HandleFinish(c)
  BY <1>2, <1>12, StreamFinishSound DEF HandleFinish
<1> QED BY <1>3, <1>4, <1>5, <1>6, <1>7, <1>8, <1>9, <1>10, <1>11, <1>12
        DEF HandleMessage

(* A user leaves.                                                          *)
LEMMA LeaveStepSound ==
  ASSUME SoundSession(sv), NEW c, Leave(c)
  PROVE  SoundSession(sv')
<1>1. sv' = removeUser(sv, c) /\ c \in Present(sv)
  BY DEF Leave, Become
<1>2. StreamUpTo(sv, c) /\ StateUpTo(sv, c) /\ Sound(sv)
  BY DEF SoundSession, SoundStream, SoundState, StreamUpTo, StateUpTo
<1> QED BY <1>1, <1>2, RemoveUserSound

(* A connection has sent all it had, and is given more.                    *)
LEMMA AllSentSound ==
  ASSUME SoundSession(sv), NEW c \in Clients, AllSent(c)
  PROVE  SoundSession(sv')
<1> DEFINE s == [sv EXCEPT !.uploading[c] = FALSE]
<1>1. sv' = sendNextHistoryBatch(s, c)
  BY DEF AllSent, Become
<1>2. SoundSession(s)
  BY MovedSound
<1> QED BY <1>1, <1>2, BatchPasses, PassesSound DEF SoundSession

(* A client reads what has arrived.                                        *)
LEMMA ReadSound ==
  ASSUME SoundSession(sv), NEW c, Read(c)
  PROVE  SoundSession(sv')
<1>1. \E x : sv' = [sv EXCEPT !.inbox[c] = x]
  BY Zenon DEF Read, Become
<1> QED BY <1>1, MovedSound

(* Every step.                                                             *)
LEMMA StepSound ==
  ASSUME SoundSession(sv), "ResetPending" \notin Features, [SyncNext]_vars
  PROVE  SoundSession(sv')
<1>1. CASE UNCHANGED vars
  BY <1>1 DEF vars
<1>2. CASE TimerFires
  BY <1>2, TriggerSound DEF TimerFires, Become
<1>3. CASE DelayExpires
  BY <1>3, MovedSound DEF DelayExpires, Become
<1>4. ASSUME NEW c \in Clients, Join(c) PROVE SoundSession(sv')
  BY <1>4, JoinUserSound DEF Join, Become
<1>5. ASSUME NEW c \in Clients, Leave(c) PROVE SoundSession(sv')
  BY <1>5, LeaveStepSound
<1>6. ASSUME NEW c \in Clients, AllSent(c) PROVE SoundSession(sv')
  BY <1>6, AllSentSound
<1>7. ASSUME NEW c \in Clients, Draw(c) PROVE SoundSession(sv')
  BY <1>7, AddClientMessageSound DEF Draw, Become
<1>8. ASSUME NEW c \in Clients, RequestReset(c) PROVE SoundSession(sv')
  BY <1>8, ResetNotPending, ResetSessionSound DEF RequestReset, Acts, Become
<1>9. ASSUME NEW c \in Clients, SetOwners(c) PROVE SoundSession(sv')
  <2>1. \E ids : sv' = changeOwners(sv, c, ids)
    BY <1>9 DEF SetOwners, Become
  <2> QED BY <2>1, ChangeOwnersSound
<1>10. ASSUME NEW c \in Clients, SendImage(c) PROVE SoundSession(sv')
  BY <1>10 DEF SendImage, Become
<1>11. ASSUME NEW c \in Clients, Read(c) PROVE SoundSession(sv')
  BY <1>11, ReadSound
<1>12. ASSUME NEW c \in Clients, HandleMessage(c) PROVE SoundSession(sv')
  BY <1>12, HandleSound
<1>13. ASSUME NEW c \in Clients, opWord(c) PROVE SoundSession(sv')
  BY <1>13, OpStatusSound DEF opWord, Become
<1> QED BY <1>1, <1>2, <1>3, <1>4, <1>5, <1>6, <1>7, <1>8, <1>9, <1>10, <1>11, <1>12, <1>13
        DEF SyncNext

----------------------------------------------------------------------------
(* The session is sound all the time: the inductive invariant, which each  *)
(* method of session.cpp and thinsession.cpp keeps.                        *)
THEOREM SessionInvariant ==
  ASSUME "ResetPending" \notin Features
  PROVE  SyncSpec => []SoundSession(sv)
<1>1. SyncInit => SoundSession(sv)
  BY NewSessionSound, SessionSyncAssumption DEF SyncInit
<1>2. SoundSession(sv) /\ [SyncNext]_vars => SoundSession(sv)'
  <2>1. SUFFICES ASSUME SoundSession(sv), [SyncNext]_vars PROVE SoundSession(sv')
    BY DEF SoundSession, Sound, SoundStream, SoundState, Streaming, Present
  <2> QED BY <2>1, StepSound
<1> QED BY <1>1, <1>2, PTL DEF SyncSpec

(* Its state and status are among those the code knows, and its operators  *)
(* are in it.                                                              *)
THEOREM SessionTypeCorrect ==
  ASSUME "ResetPending" \notin Features
  PROVE  SyncSpec => []TypeOK
<1>1. SoundSession(sv) => TypeOK
  <2>1. SUFFICES ASSUME SoundSession(sv) PROVE TypeOK
    OBVIOUS
  <2>2. Present(sv) \subseteq Clients
    BY <2>1, LenProperties, ElementOfSeq DEF SoundSession, Sound, Present, ToSet
  <2> QED BY <2>1, <2>2 DEF SoundSession, Sound, SoundHist, TypeOK, Statuses
<1> QED BY <1>1, SessionInvariant, PTL

(* Through resets of both kinds the indices of the history count its       *)
(* messages, and no client has been sent what is not there yet.            *)
THEOREM SessionIndicesExact ==
  ASSUME "ResetPending" \notin Features
  PROVE  SyncSpec => []IndicesExact
<1>1. SoundSession(sv) => IndicesExact
  <2>1. SUFFICES ASSUME SoundSession(sv) PROVE IndicesExact
    OBVIOUS
  <2>2. Present(sv) \subseteq Clients
    BY <2>1, LenProperties, ElementOfSeq DEF SoundSession, Sound, Present, ToSet
  <2> QED BY <2>1, <2>2 DEF SoundSession, Sound, SoundHist, IndicesExact, Size
<1> QED BY <1>1, SessionInvariant, PTL

(* However operators come and go, a stream is that of an operator who is   *)
(* there and was asked for it.                                             *)
THEOREM SessionStreamerAsked ==
  ASSUME "ResetPending" \notin Features
  PROVE  SyncSpec => []StreamerAsked
<1>1. SoundSession(sv) => StreamerAsked
  BY DEF SoundSession, SoundStream, Streaming, StreamerAsked
<1> QED BY <1>1, SessionInvariant, PTL

(* However operators come and go, a session that has stopped waits for an  *)
(* operator who is there, and one that runs for nobody.                    *)
THEOREM SessionResetterPresent ==
  ASSUME "ResetPending" \notin Features
  PROVE  SyncSpec => []ResetterPresent
<1>1. SoundSession(sv) => ResetterPresent
  BY DEF SoundSession, SoundState, ResetterPresent
<1> QED BY <1>1, SessionInvariant, PTL

----------------------------------------------------------------------------
(* What a client reads.                                                    *)

(* The messages of a history, those of the image of a full reset, those    *)
(* of a streamed one, and all that the server sends.                       *)
Recorded ==
  [type : {"Draw"}, user : Clients, n : Nat] \cup [type : {"Join", "Leave"}, user : Clients]
  \cup [type : {"SessionOwner"}, user : Nat] \cup [type : {"SoftReset", "CaughtUp"}]
  \cup [type : {"StreamStart"}, user : Clients, correlator : Nat]
  \cup [type : {"Image"}, canvas : Seq(Nat)]

(* All that the server sends to a client.                                  *)
Messages ==
  Recorded \cup [type : {"Reset", "Init"}]
  \cup [type : {"Query"}, payload : Nat] \cup [type : {"Progress"}, cancel : BOOLEAN]
  \cup [type : {"Request"}, correlator : Nat, stream : BOOLEAN]

(* What a client draws with, and what it says of operators.                *)
Pictures == {m \in Recorded : m.type \in {"Draw", "SessionOwner", "Image"}}

(* What the image of a streamed reset is made of.                          *)
Snapshots == {m \in Recorded : m.type \in {"Join", "SessionOwner", "Image", "CaughtUp"}}

(* Whatever a client sends.                                                *)
Images == [type : {"Image"}, canvas : Seq(Nat)]

Requests ==
  Images \cup [type : {"Ready"}, payload : Nat] \cup [type : {"Start"}, correlator : Nat]
  \cup [type : {"ResetSession", "InitBegin", "InitComplete", "InitCancel", "Abort"}]
  \cup [type : {"Stream"}, image : Images] \cup [type : {"Finish"}, messageCount : {1}]

(* The states of a client.                                                 *)
Views == [canvas : Seq(Nat), users : SUBSET Clients, up : Seq(Requests),
          correlator : Nat, stream : {"None", "Generating", "Streaming"},
          image : Seq(Nat), imageFor : Nat]

(* What counts of a client that reads: what it shows, and for each start   *)
(* of a stream that it may answer the canvas it showed there.              *)
Readers == [canvas : Seq(Nat), users : SUBSET Clients, starts : SUBSET (Nat \X Seq(Nat))]

(* What of a client counts so.                                             *)
Reader(v) == [canvas |-> v.canvas, users |-> v.users, starts |-> {<<v.imageFor, v.image>>}]

(* It sees a message: a start it may answer with the canvas it then shows. *)
Sees(r, m) ==
  IF m.type = "StreamStart" THEN [r EXCEPT !.starts = @ \cup {<<m.correlator, r.canvas>>}]
  ELSE Shows(r, m)

(* It reads messages one after the other.                                  *)
Reading(r, ms) == FoldLeft(Sees, r, ms)

(* A message that shows nothing, nor starts a stream.                      *)
Quiet(m) == m.type \notin {"Draw", "Image", "Reset", "Join", "Leave", "StreamStart"}

(* The fields of the messages that show something.                         *)
LEMMA MessageFields ==
  ASSUME NEW m \in Messages
  PROVE  /\ m.type = "Draw" => m.n \in Nat
         /\ m.type = "Image" => m.canvas \in Seq(Nat)
         /\ m.type \in {"Join", "Leave"} => m.user \in Clients
         /\ m.type = "StreamStart" => m.correlator \in Nat
         /\ m.type = "Request" => m.correlator \in Nat
         /\ m.type = "Query" => m.payload \in Nat
BY DEF Messages, Recorded

(* The sets of messages are sets of messages.                              *)
LEMMA MessageSets ==
  /\ Recorded \subseteq Messages /\ Pictures \subseteq Recorded /\ Snapshots \subseteq Recorded
  /\ \A m \in Recorded : m.type \in {"Draw", "Join", "Leave", "SessionOwner", "SoftReset",
                                     "CaughtUp", "StreamStart", "Image"}
BY DEF Messages, Recorded, Pictures, Snapshots

(* A sequence of some messages is one of more.                             *)
LEMMA SeqOfMore ==
  ASSUME NEW S, NEW T, S \subseteq T, NEW q \in Seq(S)
  PROVE  q \in Seq(T)
<1>1. /\ Len(q) \in Nat /\ DOMAIN q = 1 .. Len(q) /\ q \in [1 .. Len(q) -> S]
  BY LenProperties, SeqDef
<1> QED BY <1>1, SeqDef

(* Who has not read anything.                                              *)
LEMMA NewClientView ==
  /\ NewClient \in Views /\ NewClient.canvas = << >> /\ NewClient.users = {}
  /\ NewClient.up = << >> /\ NewClient.correlator = 0 /\ NewClient.imageFor = 0
<1>1. << >> \in Seq(Nat) /\ << >> \in Seq(Requests)
  OBVIOUS
<1> QED BY <1>1 DEF NewClient, Views, NoCorrelator

(* A client as a reader.                                                   *)
LEMMA ReaderIs ==
  ASSUME NEW v \in Views
  PROVE  /\ Reader(v) \in Readers /\ Reader(v).canvas = v.canvas /\ Reader(v).users = v.users
         /\ Reader(v).starts = {<<v.imageFor, v.image>>}
<1>1. v.canvas \in Seq(Nat) /\ v.users \in SUBSET Clients /\ v.image \in Seq(Nat) /\ v.imageFor \in Nat
  BY DEF Views
<1> QED BY <1>1 DEF Reader, Readers

(* w is v with another canvas and other users.                             *)
Redrawn(v, w, C) ==
  w = [x \in C |-> IF x = "canvas" THEN w.canvas ELSE IF x = "users" THEN w.users ELSE v[x]]

(* What a message changes of what a client shows.                          *)
LEMMA ShowsIs ==
  ASSUME NEW v, NEW C, DOMAIN v = C, {"canvas", "users"} \subseteq C, v = [x \in C |-> v[x]],
         v.canvas \in Seq(Nat), v.users \in SUBSET Clients, NEW m \in Messages
  PROVE  /\ Shows(v, m).canvas \in Seq(Nat) /\ Shows(v, m).users \in SUBSET Clients
         /\ Shows(v, m).canvas = IF m.type = "Draw" THEN Append(v.canvas, m.n)
                                 ELSE IF m.type = "Image" THEN v.canvas \o m.canvas
                                 ELSE IF m.type = "Reset" THEN << >> ELSE v.canvas
         /\ Shows(v, m).users = IF m.type = "Join" THEN v.users \cup {m.user}
                                ELSE IF m.type = "Leave" THEN v.users \ {m.user} ELSE v.users
         /\ Redrawn(v, Shows(v, m), C)
<1>2. ASSUME NEW q
      PROVE  /\ [v EXCEPT !.canvas = q].canvas = q /\ [v EXCEPT !.canvas = q].users = v.users
             /\ Redrawn(v, [v EXCEPT !.canvas = q], C)
  BY DEF Redrawn
<1>3. ASSUME NEW q
      PROVE  /\ [v EXCEPT !.users = q].users = q /\ [v EXCEPT !.users = q].canvas = v.canvas
             /\ Redrawn(v, [v EXCEPT !.users = q], C)
  BY DEF Redrawn
<1>4. CASE m.type = "Draw"
  <2>1. Shows(v, m) = [v EXCEPT !.canvas = Append(v.canvas, m.n)]
    BY <1>4 DEF Shows
  <2>2. Append(v.canvas, m.n) \in Seq(Nat)
    BY <1>4, MessageFields, AppendProperties
  <2> QED BY <1>2, <1>4, <2>1, <2>2
<1>5. CASE m.type = "Image"
  <2>1. Shows(v, m) = [v EXCEPT !.canvas = v.canvas \o m.canvas]
    BY <1>5 DEF Shows
  <2>2. v.canvas \o m.canvas \in Seq(Nat)
    BY <1>5, MessageFields, ConcatProperties
  <2> QED BY <1>2, <1>5, <2>1, <2>2
<1>6. CASE m.type = "Reset"
  <2>1. Shows(v, m) = [v EXCEPT !.canvas = << >>]
    BY <1>6 DEF Shows
  <2>2. << >> \in Seq(Nat)
    OBVIOUS
  <2> QED BY <1>2, <1>6, <2>1, <2>2
<1>7. CASE m.type = "Join"
  <2>1. Shows(v, m) = [v EXCEPT !.users = v.users \cup {m.user}]
    BY <1>7 DEF Shows
  <2>2. v.users \cup {m.user} \in SUBSET Clients
    BY <1>7, MessageFields
  <2> QED BY <1>3, <1>7, <2>1, <2>2
<1>8. CASE m.type = "Leave"
  <2>1. Shows(v, m) = [v EXCEPT !.users = v.users \ {m.user}]
    BY <1>8 DEF Shows
  <2>2. v.users \ {m.user} \in SUBSET Clients
    OBVIOUS
  <2> QED BY <1>3, <1>8, <2>1, <2>2
<1>9. CASE m.type \notin {"Draw", "Image", "Reset", "Join", "Leave"}
  <2>1. Shows(v, m) = v
    BY <1>9 DEF Shows
  <2>2. Redrawn(v, v, C)
    BY DEF Redrawn
  <2> QED BY <1>9, <2>1, <2>2
<1> QED BY <1>4, <1>5, <1>6, <1>7, <1>8, <1>9

(* What a client does with what it reads without noticing it.              *)
LEMMA ViewShows ==
  ASSUME NEW v \in Views, NEW m \in Messages
  PROVE  /\ Shows(v, m) \in Views
         /\ Shows(v, m).up = v.up /\ Shows(v, m).correlator = v.correlator
         /\ Shows(v, m).stream = v.stream
         /\ Shows(v, m).image = v.image /\ Shows(v, m).imageFor = v.imageFor
<1> DEFINE C == {"canvas", "users", "up", "correlator", "stream", "image", "imageFor"}
           w == Shows(v, m)
<1>1. /\ DOMAIN v = C /\ v = [x \in C |-> v[x]] /\ v.canvas \in Seq(Nat) /\ v.users \in SUBSET Clients
      /\ v.up \in Seq(Requests) /\ v.correlator \in Nat
      /\ v.stream \in {"None", "Generating", "Streaming"} /\ v.image \in Seq(Nat) /\ v.imageFor \in Nat
  BY DEF Views
<1>2. {"canvas", "users"} \subseteq C
  OBVIOUS
<1> HIDE DEF C
<1>3. w.canvas \in Seq(Nat) /\ w.users \in SUBSET Clients /\ Redrawn(v, w, C)
  <2>1. /\ DOMAIN v = C /\ {"canvas", "users"} \subseteq C /\ v = [x \in C |-> v[x]]
        /\ v.canvas \in Seq(Nat) /\ v.users \in SUBSET Clients
    BY <1>1, <1>2
  <2> QED BY <2>1, ShowsIs
<1> HIDE DEF w
<1>4. /\ DOMAIN w = C /\ w.up = v.up /\ w.correlator = v.correlator
      /\ w.stream = v.stream /\ w.image = v.image /\ w.imageFor = v.imageFor
  BY <1>3 DEF C, Redrawn
<1>5. w \in Views
  <2>1. w = [canvas |-> w.canvas, users |-> w.users, up |-> v.up, correlator |-> v.correlator,
             stream |-> v.stream, image |-> v.image, imageFor |-> v.imageFor]
    BY <1>3 DEF C, Redrawn
  <2> QED BY <1>1, <1>3, <2>1 DEF Views
<1> QED BY <1>4, <1>5 DEF w

(* What a message changes of a reader.                                     *)
LEMMA SeesIs ==
  ASSUME NEW r \in Readers, NEW m \in Messages
  PROVE  /\ Sees(r, m) \in Readers
         /\ Sees(r, m).canvas = IF m.type = "Draw" THEN Append(r.canvas, m.n)
                                ELSE IF m.type = "Image" THEN r.canvas \o m.canvas
                                ELSE IF m.type = "Reset" THEN << >> ELSE r.canvas
         /\ Sees(r, m).users = IF m.type = "Join" THEN r.users \cup {m.user}
                               ELSE IF m.type = "Leave" THEN r.users \ {m.user} ELSE r.users
         /\ Sees(r, m).starts = IF m.type = "StreamStart"
                                THEN r.starts \cup {<<m.correlator, r.canvas>>} ELSE r.starts
         /\ Quiet(m) => Sees(r, m) = r
<1> DEFINE C == {"canvas", "users", "starts"}
           w == Shows(r, m)
<1>1. /\ DOMAIN r = C /\ {"canvas", "users"} \subseteq C /\ r = [x \in C |-> r[x]]
      /\ r.canvas \in Seq(Nat) /\ r.users \in SUBSET Clients
      /\ r.starts \in SUBSET (Nat \X Seq(Nat))
  BY DEF Readers
<1>2. CASE m.type # "StreamStart"
  <2> HIDE DEF C
  <2>1. /\ w.canvas \in Seq(Nat) /\ w.users \in SUBSET Clients /\ Redrawn(r, w, C)
        /\ w.canvas = IF m.type = "Draw" THEN Append(r.canvas, m.n)
                      ELSE IF m.type = "Image" THEN r.canvas \o m.canvas
                      ELSE IF m.type = "Reset" THEN << >> ELSE r.canvas
        /\ w.users = IF m.type = "Join" THEN r.users \cup {m.user}
                     ELSE IF m.type = "Leave" THEN r.users \ {m.user} ELSE r.users
    BY <1>1, ShowsIs
  <2>2. Sees(r, m) = w
    BY <1>2 DEF Sees
  <2>3. Quiet(m) => w = r
    BY DEF Quiet, Shows
  <2> HIDE DEF w
  <2>4. w.starts = r.starts
    BY <2>1 DEF Redrawn, C
  <2>5. w = [canvas |-> w.canvas, users |-> w.users, starts |-> r.starts]
    BY <2>1 DEF Redrawn, C
  <2>6. w \in Readers
    <3>1. ASSUME NEW q \in Seq(Nat), NEW u \in SUBSET Clients
          PROVE  [canvas |-> q, users |-> u, starts |-> r.starts] \in Readers
      BY <1>1 DEF Readers
    <3> QED BY <2>1, <2>5, <3>1
  <2> QED BY <1>2, <2>1, <2>2, <2>3, <2>4, <2>6
<1>3. CASE m.type = "StreamStart"
  <2>1. Sees(r, m) = [r EXCEPT !.starts = r.starts \cup {<<m.correlator, r.canvas>>}]
    BY <1>3 DEF Sees
  <2>2. r.starts \cup {<<m.correlator, r.canvas>>} \in SUBSET (Nat \X Seq(Nat))
    BY <1>1, <1>3, MessageFields
  <2> QED BY <1>1, <1>3, <2>1, <2>2 DEF Readers, Quiet
<1> QED BY <1>2, <1>3

(* A reader on the way through what it reads.                              *)
Steps(g, r, ms) ==
  /\ g \in [0 .. Len(ms) -> Readers]
  /\ g[0] = r /\ g[Len(ms)] = Reading(r, ms)
  /\ \A i \in 1 .. Len(ms) : g[i] = Sees(g[i - 1], ms[i])

(* There is such a way, whatever is read.                                  *)
LEMMA ReadingOn ==
  ASSUME NEW r \in Readers, NEW ms \in Seq(Messages)
  PROVE  \E g : Steps(g, r, ms)
<1> DEFINE n == Len(ms)
           F == [p \in Readers \X (1 .. n) |-> Sees(p[1], ms[p[2]])]
           Solves(it) ==
             it = [s \in SUBSET (1 .. n) |->
                     IF s = {} THEN r ELSE Sees(it[s \ {Max(s)}], ms[Max(s)])]
           fold == CHOOSE it : Solves(it)
           g == [i \in 0 .. n |-> fold[1 .. i]]
<1>1. n \in Nat /\ DOMAIN ms = 1 .. n /\ \A i \in 1 .. n : ms[i] \in Messages
  BY LenProperties, ElementOfSeq
<1>2. Reading(r, ms) = fold[1 .. n]
  BY <1>1 DEF Reading, FoldLeft, MapThenFoldSet
<1>3. ASSUME NEW b \in Readers, NEW i \in 1 .. n PROVE F[<<b, i>>] = Sees(b, ms[i])
  OBVIOUS
<1>4. \E it : Solves(it)
  <2>1. \A b \in Readers, i \in 1 .. n : F[<<b, i>>] \in Readers
    BY <1>1, <1>3, SeesIs
  <2> HIDE DEF F, n
  <2>2. PICK it : Iterates(it, n, Readers, r, F)
    BY <1>1, <2>1, Iteration
  <2>3. ASSUME NEW s \in SUBSET (1 .. n), s # {}
        PROVE  F[<<it[s \ {Max(s)}], Max(s)>>] = Sees(it[s \ {Max(s)}], ms[Max(s)])
    <3>1. Max(s) \in 1 .. n /\ it[s \ {Max(s)}] \in Readers
      BY <1>1, <2>2, <2>3, GreatestNumber DEF Iterates
    <3> QED BY <1>3, <3>1
  <2>4. it = [s \in SUBSET (1 .. n) |-> it[s]]
    BY <2>2 DEF Iterates
  <2> QED BY <2>2, <2>3, <2>4 DEF Iterates
<1>5. Solves(fold)
  <2> HIDE DEF Solves
  <2> QED BY <1>4
<1> HIDE DEF fold, F
<1>6. g[0] = r
  <2>1. 1 .. 0 = {} /\ {} \in SUBSET (1 .. n)
    OBVIOUS
  <2> QED BY <1>1, <1>5, <2>1
<1>7. ASSUME NEW i \in 1 .. n PROVE g[i] = Sees(g[i - 1], ms[i])
  <2>1. /\ 1 .. i \in SUBSET (1 .. n) /\ 1 .. i # {} /\ Max(1 .. i) = i
        /\ (1 .. i) \ {i} = 1 .. (i - 1) /\ i \in 0 .. n /\ i - 1 \in 0 .. n
    BY <1>1, GreatestOfFirst
  <2>2. fold[1 .. i] = Sees(fold[1 .. (i - 1)], ms[i])
    BY <1>5, <2>1
  <2> QED BY <2>1, <2>2
<1>8. \A i \in 0 .. n : g[i] \in Readers
  <2>1. \A i \in 1 .. n : g[i - 1] \in Readers => g[i] \in Readers
    BY <1>1, <1>7, SeesIs
  <2> HIDE DEF g
  <2> QED BY <1>1, <1>6, <2>1, KeptBySteps
<1>9. g \in [0 .. n -> Readers] /\ g[n] = Reading(r, ms)
  BY <1>1, <1>2, <1>8
<1> QED BY <1>6, <1>7, <1>9 DEF Steps

(* Readers of the same messages stay as they were related, if every        *)
(* message relates them so.                                                *)
LEMMA Related ==
  ASSUME NEW M, M \subseteq Messages, NEW Rel, NEW a \in Readers, NEW b \in Readers, <<a, b>> \in Rel,
         \A x, y \in Readers, m \in M : <<x, y>> \in Rel => <<Sees(x, m), Sees(y, m)>> \in Rel,
         NEW ms \in Seq(M)
  PROVE  <<Reading(a, ms), Reading(b, ms)>> \in Rel
<1> DEFINE n == Len(ms)
<1>1. ms \in Seq(Messages) /\ n \in Nat /\ \A i \in 1 .. n : ms[i] \in M
  BY SeqOfMore, LenProperties, ElementOfSeq
<1>2. PICK f : Steps(f, a, ms)
  BY <1>1, ReadingOn
<1>3. PICK g : Steps(g, b, ms)
  BY <1>1, ReadingOn
<1> DEFINE T == {i \in 0 .. n : <<f[i], g[i]>> \in Rel}
<1>4. 0 \in T
  BY <1>1, <1>2, <1>3, SMTT(30) DEF Steps
<1>5. ASSUME NEW i \in 1 .. n, i - 1 \in T PROVE i \in T
  <2>1. f[i - 1] \in Readers /\ g[i - 1] \in Readers /\ i - 1 \in 0 .. n
    <3>1. f \in [0 .. n -> Readers] /\ g \in [0 .. n -> Readers]
      BY <1>2, <1>3 DEF Steps
    <3>2. i - 1 \in 0 .. n
      BY <1>1
    <3> QED BY <3>1, <3>2
  <2>2. f[i] = Sees(f[i - 1], ms[i]) /\ g[i] = Sees(g[i - 1], ms[i])
    BY <1>2, <1>3 DEF Steps
  <2> QED BY <1>1, <1>5, <2>1, <2>2
<1>6. \A i \in 0 .. n : i \in T
  <2> HIDE DEF T, n
  <2> QED BY <1>1, <1>4, <1>5, Stepwise
<1>7. n \in T
  BY <1>1, <1>6
<1> QED BY <1>2, <1>3, <1>7 DEF Steps

(* Nothing, one message, and two parts.                                    *)
LEMMA ReadingOne ==
  ASSUME NEW r \in Readers
  PROVE  /\ Reading(r, << >>) = r
         /\ \A m \in Messages : Reading(r, <<m>>) = Sees(r, m)
<1>1. << >> \in Seq(Messages) /\ Len(<< >>) = 0
  OBVIOUS
<1>2. PICK a : Steps(a, r, << >>)
  BY <1>1, ReadingOn
<1>3. ASSUME NEW m \in Messages PROVE Reading(r, <<m>>) = Sees(r, m)
  <2>1. <<m>> \in Seq(Messages) /\ Len(<<m>>) = 1 /\ <<m>>[1] = m
    OBVIOUS
  <2>2. PICK b : Steps(b, r, <<m>>)
    BY <2>1, ReadingOn
  <2> QED BY <2>1, <2>2 DEF Steps
<1> QED BY <1>1, <1>2, <1>3 DEF Steps

(* Two ways through the same messages are the same.                        *)
Follows(a, p, n) == \A i \in 1 .. n : a[i] = Sees(a[i - 1], p[i])

(* So they come to the same.                                               *)
LEMMA StepsAlike ==
  ASSUME NEW n \in Nat, NEW a, NEW b, NEW p, a[0] = b[0], Follows(a, p, n), Follows(b, p, n)
  PROVE  \A i \in 0 .. n : a[i] = b[i]
<1> DEFINE T == {i \in 0 .. n : a[i] = b[i]}
<1>1. 0 \in T
  OBVIOUS
<1>2. \A i \in 1 .. n : i - 1 \in T => i \in T
  BY DEF Follows
<1>3. \A i \in 0 .. n : i \in T
  <2> HIDE DEF T
  <2> QED BY <1>1, <1>2, Stepwise
<1> QED BY <1>3

(* Messages may be read in two parts.                                      *)
LEMMA ReadingParts ==
  ASSUME NEW r \in Readers, NEW ms \in Seq(Messages), NEW ns \in Seq(Messages)
  PROVE  /\ Reading(r, ms) \in Readers /\ ms \o ns \in Seq(Messages)
         /\ Reading(r, ms \o ns) = Reading(Reading(r, ms), ns)
<1> DEFINE m == Len(ms)
           n == Len(ns)
           all == ms \o ns
<1>1. /\ m \in Nat /\ n \in Nat /\ all \in Seq(Messages) /\ Len(all) = m + n
      /\ \A i \in 1 .. m : all[i] = ms[i]
      /\ \A j \in 1 .. n : all[j + m] = ns[j]
  BY ConcatIs
<1>2. PICK a : Steps(a, r, ms)
  BY ReadingOn
<1>3. a[m] = Reading(r, ms) /\ a[m] \in Readers
  BY <1>1, <1>2 DEF Steps
<1>4. PICK b : Steps(b, a[m], ns)
  BY <1>3, ReadingOn
<1>5. PICK c : Steps(c, r, all)
  BY <1>1, ReadingOn
<1> HIDE DEF all, m, n
<1>6. c[m] = a[m]
  <2>1. ASSUME NEW i \in 1 .. m
        PROVE  c[i] = Sees(c[i - 1], all[i]) /\ a[i] = Sees(a[i - 1], ms[i]) /\ all[i] = ms[i]
    <3>1. i \in 1 .. Len(all)
      BY <1>1
    <3>2. c[i] = Sees(c[i - 1], all[i])
      BY <1>5, <3>1 DEF Steps
    <3>3. a[i] = Sees(a[i - 1], ms[i])
      BY <1>2 DEF Steps, m
    <3> QED BY <1>1, <3>2, <3>3
  <2>2. c[0] = a[0]
    BY <1>2, <1>5 DEF Steps
  <2>3. \A i \in 0 .. m : c[i] = a[i]
    <3>1. Follows(c, ms, m) /\ Follows(a, ms, m)
      BY <2>1 DEF Follows
    <3> QED BY <1>1, <2>2, <3>1, StepsAlike
  <2> QED BY <1>1, <2>3
<1>7. c[m + n] = b[n]
  <2> DEFINE d == [i \in 0 .. n |-> c[m + i]]
             q == [i \in 1 .. n |-> all[i + m]]
  <2>1. ASSUME NEW i \in 1 .. n
        PROVE  d[i] = Sees(d[i - 1], q[i]) /\ b[i] = Sees(b[i - 1], ns[i]) /\ q[i] = ns[i]
    <3>1. /\ m + i \in 1 .. Len(all) /\ (m + i) - 1 = m + (i - 1) /\ i + m = m + i
          /\ i \in 0 .. n /\ i - 1 \in 0 .. n
      BY <1>1
    <3>2. c[m + i] = Sees(c[(m + i) - 1], all[m + i])
      BY <1>5, <3>1 DEF Steps
    <3>3. b[i] = Sees(b[i - 1], ns[i])
      BY <1>4 DEF Steps, n
    <3>4. q[i] = all[m + i] /\ d[i] = c[m + i] /\ d[i - 1] = c[m + (i - 1)]
      BY <3>1
    <3>5. all[m + i] = ns[i]
      BY <1>1, <3>1
    <3> HIDE DEF d, q
    <3> QED BY <3>1, <3>2, <3>3, <3>4, <3>5
  <2>2. d[0] = b[0] /\ d[n] = c[m + n]
    <3>1. 0 \in 0 .. n /\ n \in 0 .. n /\ m + 0 = m
      BY <1>1
    <3>2. b[0] = a[m]
      BY <1>4 DEF Steps
    <3> QED BY <1>6, <3>1, <3>2
  <2> HIDE DEF d, q
  <2>3. \A i \in 0 .. n : d[i] = b[i]
    <3>1. Follows(d, ns, n) /\ Follows(b, ns, n)
      BY <2>1 DEF Follows
    <3>2. d[0] = b[0]
      BY <2>2
    <3> QED BY <1>1, <3>1, <3>2, StepsAlike
  <2> QED BY <1>1, <2>2, <2>3
<1>8. c[Len(all)] = Reading(r, all) /\ b[Len(ns)] = Reading(a[m], ns)
  BY <1>4, <1>5 DEF Steps
<1> QED BY <1>1, <1>3, <1>7, <1>8 DEF all, n

(* What a reader shows in the end depends on what it showed first, and its *)
(* starts become more.                                                     *)
LEMMA ReadingSame ==
  ASSUME NEW a \in Readers, NEW b \in Readers, NEW ms \in Seq(Messages)
  PROVE  /\ a.canvas = b.canvas => Reading(a, ms).canvas = Reading(b, ms).canvas
         /\ a.users = b.users => Reading(a, ms).users = Reading(b, ms).users
         /\ a.canvas = b.canvas /\ a.starts \subseteq b.starts
              => Reading(a, ms).starts \subseteq Reading(b, ms).starts
         /\ a.starts \subseteq Reading(a, ms).starts
<1> DEFINE C == {p \in Readers \X Readers : p[1].canvas = p[2].canvas}
           U == {p \in Readers \X Readers : p[1].users = p[2].users}
           S == {p \in Readers \X Readers : p[1].canvas = p[2].canvas /\ p[1].starts \subseteq p[2].starts}
           G == {p \in Readers \X Readers : a.starts \subseteq p[1].starts}
<1>1. ASSUME NEW x \in Readers, NEW y \in Readers
      PROVE  /\ <<x, y>> \in C <=> x.canvas = y.canvas
             /\ <<x, y>> \in U <=> x.users = y.users
             /\ <<x, y>> \in S <=> x.canvas = y.canvas /\ x.starts \subseteq y.starts
             /\ <<x, y>> \in G <=> a.starts \subseteq x.starts
  OBVIOUS
<1> HIDE DEF C, U, S, G
<1>2. \A x, y \in Readers, m \in Messages :
        /\ <<x, y>> \in C => <<Sees(x, m), Sees(y, m)>> \in C
        /\ <<x, y>> \in U => <<Sees(x, m), Sees(y, m)>> \in U
        /\ <<x, y>> \in S => <<Sees(x, m), Sees(y, m)>> \in S
        /\ <<x, y>> \in G => <<Sees(x, m), Sees(y, m)>> \in G
  <2> TAKE x \in Readers, y \in Readers, m \in Messages
  <2>1. Sees(x, m) \in Readers /\ Sees(y, m) \in Readers
    BY SeesIs
  <2>2. x.canvas = y.canvas => Sees(x, m).canvas = Sees(y, m).canvas
    <3> DEFINE Canvas(q) == IF m.type = "Draw" THEN Append(q, m.n)
                            ELSE IF m.type = "Image" THEN q \o m.canvas
                            ELSE IF m.type = "Reset" THEN << >> ELSE q
    <3>1. Sees(x, m).canvas = Canvas(x.canvas) /\ Sees(y, m).canvas = Canvas(y.canvas)
      BY SeesIs
    <3> HIDE DEF Canvas
    <3> QED BY <3>1
  <2>3. x.users = y.users => Sees(x, m).users = Sees(y, m).users
    BY SeesIs, ZenonT(30)
  <2>4. x.canvas = y.canvas /\ x.starts \subseteq y.starts => Sees(x, m).starts \subseteq Sees(y, m).starts
    BY SeesIs
  <2>5. x.starts \subseteq Sees(x, m).starts
    BY SeesIs
  <2> QED BY <1>1, <2>1, <2>2, <2>3, <2>4, <2>5
<1>3. Messages \subseteq Messages /\ Reading(a, ms) \in Readers /\ Reading(b, ms) \in Readers
  <2>1. << >> \in Seq(Messages)
    OBVIOUS
  <2> QED BY <2>1, ReadingParts
<1>4. ASSUME a.canvas = b.canvas PROVE <<Reading(a, ms), Reading(b, ms)>> \in C
  <2>1. <<a, b>> \in C
    BY <1>1, <1>4
  <2>2. \A x, y \in Readers, m \in Messages : <<x, y>> \in C => <<Sees(x, m), Sees(y, m)>> \in C
    BY <1>2
  <2> QED BY <1>3, <2>1, <2>2, Related
<1>5. ASSUME a.users = b.users PROVE <<Reading(a, ms), Reading(b, ms)>> \in U
  <2>1. <<a, b>> \in U
    BY <1>1, <1>5
  <2>2. \A x, y \in Readers, m \in Messages : <<x, y>> \in U => <<Sees(x, m), Sees(y, m)>> \in U
    BY <1>2
  <2> QED BY <1>3, <2>1, <2>2, Related
<1>6. ASSUME a.canvas = b.canvas, a.starts \subseteq b.starts
      PROVE  <<Reading(a, ms), Reading(b, ms)>> \in S
  <2>1. <<a, b>> \in S
    BY <1>1, <1>6
  <2>2. \A x, y \in Readers, m \in Messages : <<x, y>> \in S => <<Sees(x, m), Sees(y, m)>> \in S
    BY <1>2
  <2> QED BY <1>3, <2>1, <2>2, Related
<1>7. <<Reading(a, ms), Reading(b, ms)>> \in G
  <2>1. <<a, b>> \in G
    BY <1>1
  <2>2. \A x, y \in Readers, m \in Messages : <<x, y>> \in G => <<Sees(x, m), Sees(y, m)>> \in G
    BY <1>2
  <2> QED BY <1>3, <2>1, <2>2, Related
<1> QED BY <1>1, <1>3, <1>4, <1>5, <1>6, <1>7

(* Messages without a start, without a leave, and quiet ones.              *)
Startless == {m \in Messages : m.type # "StreamStart"}
Leaveless == {m \in Messages : m.type # "Leave"}

(* Where nothing starts no start is seen, and where nobody leaves users    *)
(* are only added.                                                         *)
LEMMA ReadingWithout ==
  ASSUME NEW a \in Readers, NEW b \in Readers
  PROVE  /\ \A ms \in Seq(Startless) : Reading(a, ms).starts = a.starts
         /\ \A ms \in Seq(Leaveless) :
              b.users = {} => Reading(a, ms).users = a.users \cup Reading(b, ms).users
<1> DEFINE S == {p \in Readers \X Readers : p[1].starts = a.starts}
           U == {p \in Readers \X Readers : p[1].users = a.users \cup p[2].users}
<1>1. ASSUME NEW x \in Readers, NEW y \in Readers
      PROVE  /\ <<x, y>> \in S <=> x.starts = a.starts
             /\ <<x, y>> \in U <=> x.users = a.users \cup y.users
  OBVIOUS
<1> HIDE DEF S, U
<1>2. ASSUME NEW ms \in Seq(Messages) PROVE Reading(a, ms) \in Readers /\ Reading(b, ms) \in Readers
  <2>1. << >> \in Seq(Messages)
    OBVIOUS
  <2> QED BY <2>1, ReadingParts
<1>3. ASSUME NEW ms \in Seq(Startless) PROVE Reading(a, ms).starts = a.starts
  <2>1. Startless \subseteq Messages
    BY DEF Startless
  <2>2. ms \in Seq(Messages)
    BY <2>1, SeqOfMore
  <2>3. <<a, b>> \in S
    BY <1>1
  <2>4. \A x, y \in Readers, m \in Startless : <<x, y>> \in S => <<Sees(x, m), Sees(y, m)>> \in S
    <3> TAKE x \in Readers, y \in Readers, m \in Startless
    <3>1. Sees(x, m) \in Readers /\ Sees(y, m) \in Readers /\ Sees(x, m).starts = x.starts
      BY <2>1, SeesIs DEF Startless
    <3> QED BY <1>1, <3>1
  <2>5. <<Reading(a, ms), Reading(b, ms)>> \in S
    BY <2>1, <2>3, <2>4, Related
  <2> QED BY <1>1, <1>2, <2>2, <2>5
<1>4. ASSUME NEW ms \in Seq(Leaveless), b.users = {}
      PROVE  Reading(a, ms).users = a.users \cup Reading(b, ms).users
  <2>1. Leaveless \subseteq Messages
    BY DEF Leaveless
  <2>2. ms \in Seq(Messages)
    BY <2>1, SeqOfMore
  <2>3. <<a, b>> \in U
    BY <1>1, <1>4
  <2>4. \A x, y \in Readers, m \in Leaveless : <<x, y>> \in U => <<Sees(x, m), Sees(y, m)>> \in U
    <3> TAKE x \in Readers, y \in Readers, m \in Leaveless
    <3>1. /\ Sees(x, m) \in Readers /\ Sees(y, m) \in Readers
          /\ Sees(x, m).users = IF m.type = "Join" THEN x.users \cup {m.user} ELSE x.users
          /\ Sees(y, m).users = IF m.type = "Join" THEN y.users \cup {m.user} ELSE y.users
      BY <2>1, SeesIs DEF Leaveless
    <3> QED BY <1>1, <3>1
  <2>5. <<Reading(a, ms), Reading(b, ms)>> \in U
    BY <2>1, <2>3, <2>4, Related
  <2> QED BY <1>1, <1>2, <2>2, <2>5
<1> QED BY <1>3, <1>4

(* What the users of the session are to a reader.                          *)
LEMMA ReadingUsers ==
  ASSUME NEW s, Sound(s), NEW r \in Readers
  PROVE  /\ serverSideStateMessages(s) \in Seq(Snapshots)
         /\ Reading(r, serverSideStateMessages(s)).users = r.users \cup Present(s)
         /\ Reading(r, serverSideStateMessages(s)).canvas = r.canvas
<1> DEFINE n == Len(s.clients)
           joins == [i \in DOMAIN s.clients |-> JoinMsg(s.clients[i])]
<1>1. /\ n \in Nat /\ DOMAIN s.clients = 1 .. n
      /\ \A i \in 1 .. n : s.clients[i] \in Clients
  BY LenProperties, ElementOfSeq DEF Sound
<1>2. \A c \in Clients : JoinMsg(c) \in Snapshots /\ JoinMsg(c).type = "Join" /\ JoinMsg(c).user = c
  BY DEF Snapshots, Recorded, JoinMsg
<1>3. OwnerMsg(0) \in Snapshots /\ Quiet(OwnerMsg(0))
  BY DEF Snapshots, Recorded, OwnerMsg, Quiet
<1>4. joins \in [1 .. n -> Snapshots] /\ \A i \in 1 .. n : joins[i] = JoinMsg(s.clients[i])
  BY <1>1, <1>2
<1>5. serverSideStateMessages(s) = joins \o <<OwnerMsg(0)>>
  BY DEF serverSideStateMessages
<1>6. Present(s) = {s.clients[i] : i \in 1 .. n}
  BY <1>1 DEF Present, ToSet
<1> HIDE DEF joins, n
<1>7. joins \in Seq(Snapshots) /\ Len(joins) = n
  BY <1>1, <1>4, SeqDef, LenProperties
<1>8. joins \in Seq(Messages) /\ <<OwnerMsg(0)>> \in Seq(Snapshots) /\ OwnerMsg(0) \in Messages
      /\ <<OwnerMsg(0)>> \in Seq(Messages)
  BY <1>3, <1>7, MessageSets, SeqOfMore
<1>9. joins \o <<OwnerMsg(0)>> \in Seq(Snapshots)
  BY <1>7, <1>8, ConcatProperties
<1>10. PICK g : Steps(g, r, joins)
  BY <1>8, ReadingOn
<1> DEFINE Joined(i) == {s.clients[j] : j \in 1 .. i}
           T == {i \in 0 .. n : g[i].users = r.users \cup Joined(i) /\ g[i].canvas = r.canvas}
<1>11. g[0] = r /\ g[n] = Reading(r, joins)
       /\ \A i \in 1 .. n : g[i] = Sees(g[i - 1], joins[i]) /\ g[i - 1] \in Readers
  BY <1>1, <1>7, <1>10 DEF Steps
<1>12. 0 \in T
  <2>1. Joined(0) = {} /\ 0 \in 0 .. n
    BY <1>1
  <2> QED BY <1>11, <2>1
<1>13. ASSUME NEW i \in 1 .. n, i - 1 \in T PROVE i \in T
  <2>1. joins[i] = JoinMsg(s.clients[i]) /\ s.clients[i] \in Clients
    BY <1>1, <1>4
  <2>2. g[i].users = g[i - 1].users \cup {s.clients[i]} /\ g[i].canvas = g[i - 1].canvas
    <3>1. JoinMsg(s.clients[i]) \in Messages
      BY <1>2, <2>1, MessageSets
    <3>2. JoinMsg(s.clients[i]).type = "Join" /\ JoinMsg(s.clients[i]).user = s.clients[i]
      BY <1>2, <2>1
    <3>3. g[i] = Sees(g[i - 1], JoinMsg(s.clients[i])) /\ g[i - 1] \in Readers
      BY <1>11, <2>1
    <3> DEFINE m == JoinMsg(s.clients[i])
               x == g[i - 1]
    <3>4. m \in Messages /\ x \in Readers /\ m.type = "Join" /\ m.user = s.clients[i]
      BY <3>1, <3>2, <3>3
    <3> HIDE DEF m, x
    <3>5. Sees(x, m).users = x.users \cup {m.user} /\ Sees(x, m).canvas = x.canvas
      BY <3>4, SeesIs
    <3> QED BY <3>3, <3>4, <3>5 DEF m, x
  <2>3. Joined(i) = Joined(i - 1) \cup {s.clients[i]}
    <3>1. 1 .. i = (1 .. (i - 1)) \cup {i}
      BY <1>1
    <3> QED BY <3>1
  <2>4. g[i - 1].users = r.users \cup Joined(i - 1) /\ g[i - 1].canvas = r.canvas
    BY <1>13
  <2> HIDE DEF Joined
  <2> QED BY <1>1, <2>2, <2>3, <2>4
<1>14. \A i \in 0 .. n : i \in T
  <2> HIDE DEF T
  <2> QED BY <1>1, <1>12, <1>13, Stepwise
<1>15. Reading(r, joins).users = r.users \cup Present(s) /\ Reading(r, joins).canvas = r.canvas
  <2>1. n \in T
    BY <1>1, <1>14
  <2> QED BY <1>6, <1>11, <2>1
<1>16. /\ Reading(r, joins) \in Readers
       /\ Reading(r, joins \o <<OwnerMsg(0)>>) = Reading(Reading(r, joins), <<OwnerMsg(0)>>)
  BY <1>8, ReadingParts
<1>17. Reading(Reading(r, joins), <<OwnerMsg(0)>>) = Reading(r, joins)
  BY <1>3, <1>8, <1>16, ReadingOne, SeesIs
<1> QED BY <1>5, <1>9, <1>15, <1>16, <1>17

(* What is read without noticing it.                                       *)
Shown(g, v, ms) ==
  /\ g \in [0 .. Len(ms) -> Views]
  /\ g[0] = v /\ g[Len(ms)] = ShowsAll(v, ms)
  /\ \A i \in 1 .. Len(ms) : g[i] = Shows(g[i - 1], ms[i])

(* There is such a way too.                                                *)
LEMMA ShownOn ==
  ASSUME NEW v \in Views, NEW ms \in Seq(Messages)
  PROVE  \E g : Shown(g, v, ms)
<1> DEFINE n == Len(ms)
           F == [p \in Views \X (1 .. n) |-> Shows(p[1], ms[p[2]])]
           Solves(it) ==
             it = [s \in SUBSET (1 .. n) |->
                     IF s = {} THEN v ELSE Shows(it[s \ {Max(s)}], ms[Max(s)])]
           fold == CHOOSE it : Solves(it)
           g == [i \in 0 .. n |-> fold[1 .. i]]
<1>1. n \in Nat /\ DOMAIN ms = 1 .. n /\ \A i \in 1 .. n : ms[i] \in Messages
  BY LenProperties, ElementOfSeq
<1>2. ShowsAll(v, ms) = fold[1 .. n]
  BY <1>1 DEF ShowsAll, FoldLeft, MapThenFoldSet
<1>3. ASSUME NEW b \in Views, NEW i \in 1 .. n PROVE F[<<b, i>>] = Shows(b, ms[i])
  OBVIOUS
<1>4. \E it : Solves(it)
  <2>1. \A b \in Views, i \in 1 .. n : F[<<b, i>>] \in Views
    BY <1>1, <1>3, ViewShows
  <2> HIDE DEF F, n
  <2>2. PICK it : Iterates(it, n, Views, v, F)
    BY <1>1, <2>1, Iteration
  <2>3. ASSUME NEW s \in SUBSET (1 .. n), s # {}
        PROVE  F[<<it[s \ {Max(s)}], Max(s)>>] = Shows(it[s \ {Max(s)}], ms[Max(s)])
    <3>1. Max(s) \in 1 .. n /\ it[s \ {Max(s)}] \in Views
      BY <1>1, <2>2, <2>3, GreatestNumber DEF Iterates
    <3> QED BY <1>3, <3>1
  <2>4. it = [s \in SUBSET (1 .. n) |-> it[s]]
    BY <2>2 DEF Iterates
  <2> QED BY <2>2, <2>3, <2>4 DEF Iterates
<1>5. Solves(fold)
  <2> HIDE DEF Solves
  <2> QED BY <1>4
<1> HIDE DEF fold, F
<1>6. g[0] = v
  <2>1. 1 .. 0 = {} /\ {} \in SUBSET (1 .. n)
    OBVIOUS
  <2> QED BY <1>1, <1>5, <2>1
<1>7. ASSUME NEW i \in 1 .. n PROVE g[i] = Shows(g[i - 1], ms[i])
  <2>1. /\ 1 .. i \in SUBSET (1 .. n) /\ 1 .. i # {} /\ Max(1 .. i) = i
        /\ (1 .. i) \ {i} = 1 .. (i - 1) /\ i \in 0 .. n /\ i - 1 \in 0 .. n
    BY <1>1, GreatestOfFirst
  <2>2. fold[1 .. i] = Shows(fold[1 .. (i - 1)], ms[i])
    BY <1>5, <2>1
  <2> QED BY <2>1, <2>2
<1>8. \A i \in 0 .. n : g[i] \in Views
  <2>1. \A i \in 1 .. n : g[i - 1] \in Views => g[i] \in Views
    BY <1>1, <1>7, ViewShows
  <2> HIDE DEF g
  <2> QED BY <1>1, <1>6, <2>1, KeptBySteps
<1>9. g \in [0 .. n -> Views] /\ g[n] = ShowsAll(v, ms)
  BY <1>1, <1>2, <1>8
<1> QED BY <1>6, <1>7, <1>9 DEF Shown

(* A client shows what a reader like it shows.                             *)
LEMMA ShowsReads ==
  ASSUME NEW v \in Views, NEW ms \in Seq(Messages)
  PROVE  /\ ShowsAll(v, ms) \in Views
         /\ ShowsAll(v, ms).canvas = Reading(Reader(v), ms).canvas
         /\ ShowsAll(v, ms).users = Reading(Reader(v), ms).users
         /\ ShowsAll(v, ms).up = v.up /\ ShowsAll(v, ms).correlator = v.correlator
         /\ ShowsAll(v, ms).stream = v.stream
         /\ ShowsAll(v, ms).image = v.image /\ ShowsAll(v, ms).imageFor = v.imageFor
<1> DEFINE n == Len(ms)
<1>1. n \in Nat /\ \A i \in 1 .. n : ms[i] \in Messages
  BY LenProperties, ElementOfSeq
<1>2. Reader(v) \in Readers
  BY ReaderIs
<1>3. PICK f : Shown(f, v, ms)
  BY ShownOn
<1>4. PICK g : Steps(g, Reader(v), ms)
  BY <1>2, ReadingOn
<1> DEFINE Like(w, r) == /\ w.canvas = r.canvas /\ w.users = r.users /\ w.up = v.up
                         /\ w.correlator = v.correlator /\ w.stream = v.stream
                         /\ w.image = v.image /\ w.imageFor = v.imageFor
           T == {i \in 0 .. n : Like(f[i], g[i])}
<1>5. 0 \in T
  BY <1>1, <1>3, <1>4, ReaderIs DEF Shown, Steps
<1>6. ASSUME NEW i \in 1 .. n, i - 1 \in T PROVE i \in T
  <2> DEFINE w == f[i - 1]
             r == g[i - 1]
             m == ms[i]
  <2>1. /\ w \in Views /\ r \in Readers /\ f[i] = Shows(w, m) /\ g[i] = Sees(r, m) /\ Like(w, r)
        /\ m \in Messages
    <3>1. i - 1 \in 0 .. n
      BY <1>1
    <3> QED BY <1>1, <1>3, <1>4, <1>6, <3>1 DEF Shown, Steps
  <2> HIDE DEF w, r, m
  <2>2. w.canvas \in Seq(Nat) /\ w.users \in SUBSET Clients /\ {"canvas", "users"} \subseteq DOMAIN w
        /\ w = [x \in DOMAIN w |-> w[x]]
    BY <2>1 DEF Views
  <2>3. /\ Shows(w, m).canvas = IF m.type = "Draw" THEN Append(w.canvas, m.n)
                                ELSE IF m.type = "Image" THEN w.canvas \o m.canvas
                                ELSE IF m.type = "Reset" THEN << >> ELSE w.canvas
        /\ Shows(w, m).users = IF m.type = "Join" THEN w.users \cup {m.user}
                               ELSE IF m.type = "Leave" THEN w.users \ {m.user} ELSE w.users
    BY <2>1, <2>2, ShowsIs
  <2>4. Shows(w, m).canvas = Sees(r, m).canvas /\ Shows(w, m).users = Sees(r, m).users
    <3> DEFINE Canvas(q) == IF m.type = "Draw" THEN Append(q, m.n)
                            ELSE IF m.type = "Image" THEN q \o m.canvas
                            ELSE IF m.type = "Reset" THEN << >> ELSE q
               Users(u) == IF m.type = "Join" THEN u \cup {m.user}
                           ELSE IF m.type = "Leave" THEN u \ {m.user} ELSE u
    <3>1. w.canvas = r.canvas /\ w.users = r.users
      BY <2>1
    <3>2. Shows(w, m).canvas = Canvas(w.canvas) /\ Shows(w, m).users = Users(w.users)
      BY <2>3
    <3>3. Sees(r, m).canvas = Canvas(r.canvas) /\ Sees(r, m).users = Users(r.users)
      BY <2>1, SeesIs
    <3> HIDE DEF Canvas, Users
    <3> QED BY <3>1, <3>2, <3>3
  <2>5. Like(Shows(w, m), Sees(r, m))
    BY <2>1, <2>4, ViewShows
  <2> QED BY <1>1, <2>1, <2>5
<1>7. \A i \in 0 .. n : i \in T
  <2> HIDE DEF T, n
  <2> QED BY <1>1, <1>5, <1>6, Stepwise
<1>8. n \in T /\ f[n] = ShowsAll(v, ms) /\ g[n] = Reading(Reader(v), ms) /\ f[n] \in Views
  BY <1>1, <1>3, <1>4, <1>7 DEF Shown, Steps
<1> QED BY <1>8

----------------------------------------------------------------------------
(* What is on its way to a client.                                         *)

(* How many messages of the history somebody at position p has been sent.  *)
SentOf(h, p) == IF p < h.firstIndex THEN 0 ELSE p - h.firstIndex + 1

(* A batch is the rest of the history.                                     *)
LEMMA BatchIs ==
  ASSUME NEW h, SoundHist(h), NEW S, h.messages \in Seq(S), NEW p \in Int, p <= h.lastIndex
  PROVE  /\ SentOf(h, p) \in 0 .. Len(h.messages)
         /\ getBatch(h, p) = SubSeq(h.messages, SentOf(h, p) + 1, Len(h.messages))
         /\ getBatch(h, p) \in Seq(S)
<1> DEFINE ms == h.messages
           n == Len(ms)
           k == SentOf(h, p)
<1>1. /\ h.firstIndex \in Nat /\ h.lastIndex \in Int /\ h.lastIndex - h.firstIndex + 1 = n
      /\ n \in Nat /\ ms \in Seq(S)
  BY LenProperties DEF SoundHist
<1>2. k \in 0 .. n
  <2>1. CASE p < h.firstIndex
    BY <1>1, <2>1 DEF SentOf
  <2>2. CASE ~(p < h.firstIndex)
    <3>1. k = p - h.firstIndex + 1
      BY <2>2 DEF SentOf
    <3> HIDE DEF k, n
    <3> QED BY <1>1, <2>2, <3>1
  <2> QED BY <2>1, <2>2
<1>3. getBatch(h, p) = SubSeq(ms, k + 1, n)
  <2>1. CASE p >= h.lastIndex
    <3>1. k = n
      <4>1. p = h.lastIndex
        BY <1>1, <2>1
      <4>2. CASE p < h.firstIndex
        <5>1. k = 0
          BY <4>2 DEF SentOf
        <5> HIDE DEF k, n
        <5> QED BY <1>1, <4>1, <4>2, <5>1
      <4>3. CASE ~(p < h.firstIndex)
        <5>1. k = p - h.firstIndex + 1
          BY <4>3 DEF SentOf
        <5> HIDE DEF k, n
        <5> QED BY <1>1, <4>1, <5>1
      <4> QED BY <4>2, <4>3
    <3>2. getBatch(h, p) = << >>
      BY <2>1 DEF getBatch
    <3> HIDE DEF k, n
    <3>3. SubSeq(ms, n + 1, n) = << >>
      BY <1>1, EmptySeq, SubSeqProperties
    <3> QED BY <3>1, <3>2, <3>3
  <2>2. CASE ~(p >= h.lastIndex)
    BY <1>1, <2>2 DEF getBatch, SentOf
  <2> QED BY <2>1, <2>2
<1> HIDE DEF k, n, ms
<1>4. SubSeq(ms, k + 1, n) \in Seq(S)
  <2>1. k + 1 \in Nat /\ 1 <= k + 1 /\ k + 1 <= n + 1 /\ n <= Len(ms)
    BY <1>1, <1>2 DEF n
  <2> QED BY <1>1, <2>1, Slice
<1> QED BY <1>2, <1>3, <1>4 DEF k, n, ms

(* Who has got nothing is sent all, and who has got all is sent nothing.   *)
LEMMA BatchEnds ==
  ASSUME NEW h, SoundHist(h), NEW S, h.messages \in Seq(S), NEW p \in Int
  PROVE  /\ p < h.firstIndex /\ p <= h.lastIndex => getBatch(h, p) = h.messages
         /\ p = -1 => getBatch(h, p) = h.messages
         /\ p = h.lastIndex => getBatch(h, p) = << >>
<1>1. /\ h.firstIndex \in Nat /\ h.lastIndex \in Int
      /\ h.lastIndex - h.firstIndex + 1 = Len(h.messages) /\ Len(h.messages) \in Nat
  BY LenProperties DEF SoundHist
<1>2. ASSUME p < h.firstIndex, p <= h.lastIndex PROVE getBatch(h, p) = h.messages
  <2>1. getBatch(h, p) = SubSeq(h.messages, 1, Len(h.messages))
    <3>1. SentOf(h, p) = 0
      BY <1>2 DEF SentOf
    <3>2. getBatch(h, p) = SubSeq(h.messages, SentOf(h, p) + 1, Len(h.messages))
      BY <1>2, BatchIs
    <3> QED BY <3>1, <3>2
  <2>2. SubSeq(h.messages, 1, Len(h.messages)) = h.messages
    BY <1>1, SubSeqProperties, LenProperties
  <2> QED BY <2>1, <2>2
<1>3. p = -1 => p < h.firstIndex /\ p <= h.lastIndex
  BY <1>1
<1>4. p = h.lastIndex => getBatch(h, p) = << >>
  BY <1>1 DEF getBatch
<1> QED BY <1>2, <1>3, <1>4

(* What is added comes after what is there.                                *)
LEMMA BatchAdded ==
  ASSUME NEW h, SoundHist(h), NEW S, h.messages \in Seq(S), NEW ms \in Seq(S),
         NEW p \in Int, p <= h.lastIndex
  PROVE  getBatch(addMessageInternal(h, ms), p) = getBatch(h, p) \o ms
<1> DEFINE g == addMessageInternal(h, ms)
           k == SentOf(h, p)
<1>1. IsSequence(ms) /\ Len(ms) \in Nat /\ Len(h.messages) \in Nat
  BY InSequence, LenProperties
<1>2. /\ SoundHist(g) /\ g.lastIndex = h.lastIndex + Len(ms) /\ g.firstIndex = h.firstIndex
      /\ Len(g.messages) = Len(h.messages) + Len(ms)
  BY <1>1, AddSound
<1>3. g.messages = h.messages \o ms
  BY DEF addMessageInternal, SoundHist, HistFields
<1>4. g.messages \in Seq(S)
  BY <1>3, ConcatProperties
<1> HIDE DEF g
<1>5. p <= g.lastIndex
  <2>1. h.lastIndex \in Int
    BY DEF SoundHist
  <2> QED BY <1>1, <1>2, <2>1
<1>6. SentOf(g, p) = k
  BY <1>2 DEF SentOf
<1>7. getBatch(g, p) = SubSeq(g.messages, k + 1, Len(g.messages))
  BY <1>2, <1>4, <1>5, <1>6, BatchIs
<1>8. k \in 0 .. Len(h.messages) /\ getBatch(h, p) = SubSeq(h.messages, k + 1, Len(h.messages))
  BY BatchIs
<1> HIDE DEF k
<1>9. SubSeq(h.messages \o ms, k + 1, Len(h.messages) + Len(ms))
        = SubSeq(h.messages, k + 1, Len(h.messages)) \o ms
  <2>1. k + 1 \in Nat /\ 1 <= k + 1 /\ k + 1 <= Len(h.messages) + 1
    BY <1>1, <1>8
  <2> QED BY <2>1, SliceAcross
<1> QED BY <1>2, <1>3, <1>7, <1>8, <1>9 DEF g

(* Who is past the start of a stream is sent the same when it takes effect. *)
LEMMA BatchResolved ==
  ASSUME NEW h, SoundHist(h), NEW S, h.messages \in Seq(S), h.resetStream \in Seq(S),
         h.resetStreamState = "Prepared", resolveOk(h),
         NEW p \in Int, p <= h.lastIndex, p >= h.resetStreamStartIndex
  PROVE  getBatch(resolveStreamedReset(h), p + Size(ResolvedMessages(h))) = getBatch(h, p)
<1> DEFINE g == resolveStreamedReset(h)
           i == h.resetStreamIndex
           first == h.resetStream
           a == Len(first)
           n == Len(h.messages)
           rest == SubSeq(h.messages, i + 1, n)
           q == p + Size(ResolvedMessages(h))
           k == SentOf(h, p)
<1>1. /\ SoundHist(g) /\ Size(ResolvedMessages(h)) \in Nat
      /\ g.lastIndex = h.lastIndex + Size(ResolvedMessages(h))
  BY ResolveSound
<1>2. /\ g.messages = ResolvedMessages(h) /\ g.firstIndex = h.lastIndex + 1
  BY DEF resolveStreamedReset, SoundHist, HistFields
<1>3. /\ i \in 0 .. n /\ n \in Nat /\ a \in Nat /\ h.firstIndex \in Nat /\ h.lastIndex \in Int
      /\ h.lastIndex - h.firstIndex + 1 = n /\ h.resetStreamStartIndex - h.firstIndex = i
      /\ h.resetStreamStartIndex \in Int
  BY LenProperties DEF SoundHist
<1>4. /\ rest \in Seq(S) /\ Len(rest) = n - i
      /\ ResolvedMessages(h) = first \o rest
  <2>1. i + 1 \in Nat /\ 1 <= i + 1 /\ i + 1 <= n + 1 /\ n <= Len(h.messages)
    BY <1>3
  <2>2. rest \in Seq(S) /\ Len(rest) = n - (i + 1) + 1
    <3> DEFINE q0 == h.messages
               u == i + 1
    <3>1. q0 \in Seq(S) /\ u \in Nat /\ n \in Nat /\ 1 <= u /\ u <= n + 1 /\ n <= Len(q0)
      BY <1>3, <2>1
    <3> HIDE DEF q0, u, n
    <3>2. SubSeq(q0, u, n) \in Seq(S) /\ Len(SubSeq(q0, u, n)) = n - u + 1
      BY <3>1, Slice
    <3> QED BY <3>2 DEF q0, u
  <2>3. n - (i + 1) + 1 = n - i
    BY <1>3
  <2> QED BY <2>2, <2>3 DEF ResolvedMessages
<1>5. /\ g.messages \in Seq(S) /\ Len(g.messages) = a + Len(rest)
      /\ Size(ResolvedMessages(h)) = a + Len(rest)
  BY <1>2, <1>4, ConcatIs DEF Size
<1>6. getBatch(h, p) = SubSeq(h.messages, k + 1, n) /\ k \in 0 .. n
  BY BatchIs
<1>7. k = p - h.firstIndex + 1
  <2>1. ~(p < h.firstIndex)
    BY <1>3
  <2> QED BY <2>1 DEF SentOf
<1> HIDE DEF g, i, a, n, rest, k
<1>8. q \in Int /\ q <= g.lastIndex
  BY <1>1, <1>3
<1>9. SentOf(g, q) = a + (k - i) /\ k - i \in Nat /\ k - i <= n - i
  <2> DEFINE f == h.firstIndex
             l == h.lastIndex
             b == h.resetStreamStartIndex
  <2>1. q = p + (a + (n - i))
    BY <1>4, <1>5
  <2> HIDE DEF q
  <2>2. /\ p \in Int /\ a \in Nat /\ n \in Nat /\ i \in Int /\ k \in Int /\ f \in Int /\ l \in Int
        /\ b \in Int /\ i <= n /\ l - f + 1 = n /\ b - f = i /\ k = p - f + 1 /\ p >= b
        /\ p <= l /\ k <= n /\ g.firstIndex = l + 1
    BY <1>2, <1>3, <1>6, <1>7
  <2> HIDE DEF f, l, b
  <2>3. ~(q < l + 1) /\ q - (l + 1) + 1 = a + (k - i) /\ k - i >= 0 /\ k - i <= n - i
    BY <2>1, <2>2
  <2>4. SentOf(g, q) = q - (l + 1) + 1
    BY <2>2, <2>3 DEF SentOf
  <2> QED BY <2>2, <2>3, <2>4
<1>10. getBatch(g, q) = SubSeq(g.messages, a + (k - i) + 1, Len(g.messages))
  <2> HIDE DEF q
  <2>1. getBatch(g, q) = SubSeq(g.messages, SentOf(g, q) + 1, Len(g.messages))
    BY <1>1, <1>5, <1>8, BatchIs
  <2> QED BY <1>9, <2>1
<1>11. SubSeq(first \o rest, a + ((k - i) + 1), a + Len(rest)) = SubSeq(rest, (k - i) + 1, Len(rest))
  <2>1. /\ (k - i) + 1 \in Nat /\ 1 <= (k - i) + 1 /\ Len(rest) \in Nat
        /\ (k - i) + 1 <= Len(rest) + 1 /\ Len(rest) <= Len(rest)
    <3> DEFINE e == k - i
               l == Len(rest)
    <3>1. e \in Nat /\ e <= l /\ l \in Nat
      BY <1>4, <1>9, LenProperties
    <3> HIDE DEF e, l
    <3>2. e + 1 \in Nat /\ 1 <= e + 1 /\ e + 1 <= l + 1 /\ l <= l
      BY <3>1
    <3> QED BY <3>1, <3>2 DEF e, l
  <2> DEFINE u == (k - i) + 1
             v == Len(rest)
  <2>2. u \in Nat /\ v \in Nat /\ 1 <= u /\ u <= v + 1 /\ v <= Len(rest)
    BY <2>1
  <2> HIDE DEF u
  <2>3. SubSeq(first \o rest, Len(first) + u, Len(first) + v) = SubSeq(rest, u, v)
    BY <1>4, <2>2, SliceOfSecond
  <2> QED BY <2>3 DEF u, a
<1>12. SubSeq(rest, (k - i) + 1, Len(rest)) = SubSeq(h.messages, k + 1, n)
  <2> DEFINE u == (k - i) + 1
             v == n - i
             x == i + 1
  <2>1. /\ x \in Nat /\ n \in Nat /\ 1 <= x /\ x <= n + 1 /\ n <= Len(h.messages)
        /\ u \in Nat /\ v \in Nat /\ 1 <= u /\ u <= v + 1 /\ v <= n - x + 1
    BY <1>3, <1>9, SMTT(30) DEF n
  <2>2. x + u - 1 = k + 1 /\ x + v - 1 = n
    BY <1>3, <1>6
  <2> HIDE DEF u, v, x
  <2>3. SubSeq(SubSeq(h.messages, x, n), u, v)
          = SubSeq(h.messages, x + u - 1, x + v - 1)
    BY <2>1, SliceOfSlice
  <2> QED BY <1>4, <2>2, <2>3 DEF u, v, x, rest
<1>13. a + (k - i) + 1 = a + ((k - i) + 1)
  BY <1>3, <1>9
<1> QED BY <1>2, <1>4, <1>5, <1>6, <1>10, <1>11, <1>12, <1>13 DEF g

----------------------------------------------------------------------------
(* What holds between the steps of a session and inside of them.           *)

(* What is on its way to c, and what c shows when it has read that, or     *)
(* only what the server has already sent it.                               *)
Flow(s, c) == s.inbox[c] \o getBatch(s.hist, s.position[c])
End(s, k, c) == Reading(Reader(k[c]), Flow(s, c))
Arrived(s, k, c) == Reading(Reader(k[c]), s.inbox[c])

(* What somebody shows who reads the history, the history up to the fork   *)
(* of a streamed reset, or the image that is to take the place of that.    *)
Blank == Reader(NewClient)
Late(s) == Reading(Blank, s.hist.messages)
ForkView(s) == Reading(Blank, SubSeq(s.hist.messages, 1, s.hist.resetStreamIndex))
ImageView(s) == Reading(Blank, s.hist.resetStream)

(* They show the same.                                                     *)
Alike(a, b) == a.canvas = b.canvas /\ a.users = b.users

(* The kinds of what a session holds; who is not in it is sent nothing.    *)
Fits(s) ==
  /\ s.hist.messages \in Seq(Recorded) /\ s.hist.resetStream \in Seq(Snapshots)
  /\ s.hist.resetStreamMessageCount \in Nat /\ s.resetstream \in Seq(Pictures)
  /\ s.inbox \in [Clients -> Seq(Messages)] /\ s.candidates \in Seq(Int)
  /\ s.payload \in Nat /\ (s.status # "NotSent" => s.payload > 0)
  /\ \A c \in Clients \ Present(s) : s.inbox[c] = << >> /\ s.position[c] = -1

(* All end up with what a newcomer gets, and the users are P.  In a full   *)
(* reset nobody has been sent a user who is not among them.                *)
Agreed(s, k, P) ==
  /\ Late(s).users = P
  /\ \A c \in Present(s) : Alike(End(s, k, c), Late(s))
  /\ s.state = "Reset" => \A c \in Present(s) : Arrived(s, k, c).users \subseteq P

(* The image of a streamed reset shows what the history shows at its fork. *)
Forked(s) ==
  /\ s.hist.resetStreamState # "None" => ImageView(s).users = ForkView(s).users
  /\ s.hist.resetStreamState = "Prepared" => ImageView(s).canvas = ForkView(s).canvas
  /\ Streaming(s) =>
       /\ s.hist.resetStreamMessageCount = 0 => ImageView(s).canvas = << >>
       /\ s.hist.resetStreamMessageCount = 1 => ImageView(s).canvas = ForkView(s).canvas

(* Who is asked to reset, and has not started it.                          *)
Armed(s, c) == {"Awaiting", "Streaming"} \subseteq s.flags[c]
Asked(s) == s.status \in {"Queried", "QueriedWaiting"}
Unstarted(s) == ~Streaming(s) /\ (Asked(s) \/ \E c \in Clients : Armed(s, c))

(* The starts of streams that are or will be read: the one the server has  *)
(* asked for stands where the fork is, and there is none before its start. *)
OfFork(s, S) == \A x \in S : x[1] = s.payload => x[2] = ForkView(s).canvas
Below(n, S) == \A x \in S : x[1] < n

(* In a stream, whoever sees the start the server has asked for shows      *)
(* there what the history shows at the fork.                               *)
Marked(s, k) ==
  Streaming(s) => /\ OfFork(s, Late(s).starts)
                  /\ \A c \in Present(s) : OfFork(s, End(s, k, c).starts)

(* All that start, read now or later, are answers to requests before n.    *)
StartsBelow(s, k, n) ==
  /\ Below(n, Late(s).starts)
  /\ \A c \in Present(s) : Below(n, End(s, k, c).starts)

(* No start answers a request that was not made yet, nor, before the       *)
(* stream starts, the last one.                                            *)
Dated(s, k) ==
  /\ StartsBelow(s, k, s.payload + 1)
  /\ Unstarted(s) => StartsBelow(s, k, s.payload)

(* The requests of the server and the answers: of q, which is sent to a    *)
(* client v, and of what v has sent and remembers.                         *)
Asks(m) == m.type \in {"Query", "Request"}
NoAsks(q) == \A i \in 1 .. Len(q) : ~Asks(q[i])

(* Neither what v has been asked nor what it answers is of n or later.     *)
AskedBelow(q, v, n) ==
  /\ v.correlator < n
  /\ \A i \in 1 .. Len(q) : q[i].type = "Request" => q[i].correlator < n
  /\ \A i \in 1 .. Len(v.up) : v.up[i].type = "Start" => v.up[i].correlator < n

(* After the request n nothing more is asked.                              *)
AskedLast(q, n) ==
  \A i, j \in 1 .. Len(q) : i < j /\ q[i].type = "Request" /\ q[i].correlator = n => ~Asks(q[j])

(* Who has answered the request n has not been asked since, and if the     *)
(* server still waits for that start has sent no image after it.           *)
Answered(q, v, n, armed) ==
  \A i \in 1 .. Len(v.up) : v.up[i].type = "Start" /\ v.up[i].correlator = n =>
    /\ v.correlator = n /\ NoAsks(q)
    /\ armed => \A j \in i .. Len(v.up) : v.up[j].type # "Stream"

(* How far c and the server are with their questions and answers.          *)
AskingOne(s, v, c) ==
  /\ AskedBelow(s.inbox[c], v, s.payload + 1)
  /\ Asked(s) => AskedBelow(s.inbox[c], v, s.payload)
  /\ AskedLast(s.inbox[c], s.payload)
  /\ Answered(s.inbox[c], v, s.payload, Armed(s, c))

(* That is so for every client.                                            *)
Asking(s, k) == \A c \in Clients : AskingOne(s, k[c], c)

(* One client at most has been asked and not started.                      *)
Armings(s) ==
  /\ Streaming(s) => s.status = "Requested" /\ \A c \in Clients : Armed(s, c) => c = s.hist.ctxId
  /\ \A c, d \in Clients : Armed(s, c) => s.status = "Requested" /\ (Armed(s, d) => c = d)

(* Who streams has been asked last, and streams the canvas of the fork.    *)
Streams(v, canvas) ==
  \A i \in 1 .. Len(v.up) : v.up[i].type = "Stream" => v.up[i].image.canvas = canvas

(* It does so until its stream is over.                                    *)
Streamer(s, k) ==
  Streaming(s) =>
    /\ s.hist.ctxId \in Clients /\ k[s.hist.ctxId].correlator = s.payload
    /\ NoAsks(s.inbox[s.hist.ctxId])
    /\ Streams(k[s.hist.ctxId], ForkView(s).canvas)

(* There is emergency space for n more messages.                           *)
Room(s, n) ==
  SizeLimit = 0 \/ /\ s.hist.sizeInBytes + n <= SizeLimit + EmergencySpace
                   /\ n <= EmergencySpace

(* The session s is in step with its clients k: who has read all that is   *)
(* under way shows the users P and the canvas of the history, and what a   *)
(* streamed reset would put in place of the history shows the same. All    *)
(* that it takes to keep this is part of it, and room for n more messages. *)
InStep(s, k, P, n) ==
  /\ Sound(s) /\ Fits(s) /\ k \in [Clients -> Views] /\ P \subseteq Clients /\ n \in Nat
  /\ Agreed(s, k, P) /\ Forked(s) /\ Marked(s, k) /\ Dated(s, k)
  /\ Asking(s, k) /\ Armings(s) /\ Streamer(s, k) /\ Room(s, n)

----------------------------------------------------------------------------
(* Who is in the session is a client.                                      *)
LEMMA PresentClients ==
  ASSUME NEW s, Sound(s)
  PROVE  Present(s) \subseteq Clients
BY LenProperties, ElementOfSeq DEF Sound, Present, ToSet

(* What is on its way is messages, and all who read it are readers.        *)
LEMMA Reached ==
  ASSUME NEW s, Sound(s), Fits(s), NEW k \in [Clients -> Views]
  PROVE  /\ Blank \in Readers /\ Late(s) \in Readers /\ ImageView(s) \in Readers
         /\ s.hist.resetStreamState # "None" =>
              /\ SubSeq(s.hist.messages, 1, s.hist.resetStreamIndex) \in Seq(Messages)
              /\ ForkView(s) \in Readers
         /\ \A c \in Clients : /\ Reader(k[c]) \in Readers /\ s.inbox[c] \in Seq(Messages)
                               /\ getBatch(s.hist, s.position[c]) \in Seq(Recorded)
                               /\ getBatch(s.hist, s.position[c]) \in Seq(Messages)
                               /\ Flow(s, c) \in Seq(Messages)
                               /\ Arrived(s, k, c) \in Readers /\ End(s, k, c) \in Readers
                               /\ End(s, k, c) = Reading(Arrived(s, k, c), getBatch(s.hist, s.position[c]))
<1>1. /\ SoundHist(s.hist) /\ s.hist.messages \in Seq(Recorded) /\ s.hist.resetStream \in Seq(Snapshots)
      /\ s.position \in [Clients -> Int] /\ \A c \in Clients : s.position[c] <= s.hist.lastIndex
      /\ s.inbox \in [Clients -> Seq(Messages)]
  BY DEF Sound, Fits
<1>2. Recorded \subseteq Messages /\ Snapshots \subseteq Messages
  BY DEF Messages, Snapshots
<1>3. Seq(Recorded) \subseteq Seq(Messages) /\ Seq(Snapshots) \subseteq Seq(Messages)
  BY <1>2, SeqOfMore
<1>4. Blank \in Readers
  BY NewClientView, ReaderIs DEF Blank
<1>5. Late(s) \in Readers /\ ImageView(s) \in Readers
  BY <1>1, <1>3, <1>4, ReadingParts DEF Late, ImageView
<1>6. ASSUME s.hist.resetStreamState # "None"
      PROVE  /\ SubSeq(s.hist.messages, 1, s.hist.resetStreamIndex) \in Seq(Messages)
             /\ ForkView(s) \in Readers
  <2> DEFINE q == s.hist.messages
             b == s.hist.resetStreamIndex
  <2>1. q \in Seq(Messages) /\ 1 \in Nat /\ b \in Nat /\ 1 <= 1 /\ 1 <= b + 1 /\ b <= Len(q)
    BY <1>1, <1>3, <1>6, LenProperties DEF SoundHist
  <2> HIDE DEF q, b
  <2>2. SubSeq(q, 1, b) \in Seq(Messages)
    BY <2>1, Slice
  <2> QED BY <1>4, <2>2, ReadingParts DEF ForkView, q, b
<1>7. ASSUME NEW c \in Clients
      PROVE  /\ Reader(k[c]) \in Readers /\ s.inbox[c] \in Seq(Messages)
             /\ getBatch(s.hist, s.position[c]) \in Seq(Recorded)
             /\ getBatch(s.hist, s.position[c]) \in Seq(Messages)
             /\ Flow(s, c) \in Seq(Messages)
             /\ Arrived(s, k, c) \in Readers /\ End(s, k, c) \in Readers
             /\ End(s, k, c) = Reading(Arrived(s, k, c), getBatch(s.hist, s.position[c]))
  <2>1. Reader(k[c]) \in Readers /\ s.inbox[c] \in Seq(Messages)
    BY <1>1, ReaderIs
  <2>2. getBatch(s.hist, s.position[c]) \in Seq(Recorded)
    BY <1>1, BatchIs
  <2>3. getBatch(s.hist, s.position[c]) \in Seq(Messages)
    BY <1>3, <2>2
  <2> DEFINE q == s.inbox[c]
             b == getBatch(s.hist, s.position[c])
             r == Reader(k[c])
  <2> HIDE DEF q, b, r
  <2>4. Reading(r, q) \in Readers /\ q \o b \in Seq(Messages) /\ Reading(r, q \o b) = Reading(Reading(r, q), b)
    BY <2>1, <2>3, ReadingParts DEF q, b, r
  <2>5. Reading(r, q \o b) \in Readers
    BY <2>1, <2>4, ReadingParts DEF r
  <2> QED BY <2>1, <2>2, <2>3, <2>4, <2>5 DEF Flow, End, Arrived, q, b, r
<1> QED BY <1>4, <1>5, <1>6, <1>7

----------------------------------------------------------------------------
(* Steps that ask nothing new.                                             *)

(* More than q is sent, but no question, or there is nobody to send to.    *)
Grown(q, r) == r = << >> \/ \E x \in Seq(Messages) : NoAsks(x) /\ r = q \o x

(* What is asked stays as it is when more is sent that asks nothing.       *)
LEMMA GrownAsks ==
  ASSUME NEW q \in Seq(Messages), NEW r, Grown(q, r), NEW v, NEW n, NEW a, NEW b, b => a
  PROVE  /\ NoAsks(q) => NoAsks(r)
         /\ AskedBelow(q, v, n) => AskedBelow(r, v, n)
         /\ AskedLast(q, n) => AskedLast(r, n)
         /\ Answered(q, v, n, a) => Answered(r, v, n, b)
<1>1. CASE r = << >>
  <2>1. Len(r) = 0
    BY <1>1
  <2>2. NoAsks(r) /\ AskedLast(r, n)
    BY <2>1 DEF NoAsks, AskedLast
  <2>3. AskedBelow(q, v, n) => AskedBelow(r, v, n)
    BY <2>1 DEF AskedBelow
  <2>4. Answered(q, v, n, a) => Answered(r, v, n, b)
    BY <2>2 DEF Answered
  <2> QED BY <2>2, <2>3, <2>4
<1>2. CASE \E x \in Seq(Messages) : NoAsks(x) /\ r = q \o x
  <2>1. PICK x \in Seq(Messages) : NoAsks(x) /\ r = q \o x
    BY <1>2
  <2> DEFINE lq == Len(q)
             lx == Len(x)
  <2>2. /\ lq \in Nat /\ lx \in Nat /\ Len(r) = lq + lx
        /\ \A i \in 1 .. lq : r[i] = q[i]
        /\ \A i \in 1 .. lx : r[i + lq] = x[i]
    <3>1. /\ Len(q \o x) = Len(q) + Len(x) /\ Len(q) \in Nat /\ Len(x) \in Nat
          /\ \A i \in 1 .. Len(q) : (q \o x)[i] = q[i]
          /\ \A i \in 1 .. Len(x) : (q \o x)[i + Len(q)] = x[i]
      BY ConcatIs
    <3>2. r = q \o x
      BY <2>1
    <3> QED BY <3>1, <3>2
  <2>3. ASSUME NEW i \in 1 .. Len(r) PROVE (i \in 1 .. lq /\ r[i] = q[i]) \/ ~Asks(r[i])
    <3>1. CASE i \in 1 .. lq
      BY <2>2, <3>1
    <3>2. CASE i \notin 1 .. lq
      <4> DEFINE j == i - lq
      <4> HIDE DEF lq, lx
      <4>1. j \in 1 .. lx /\ j + lq = i
        BY <2>2, <3>2
      <4> HIDE DEF j
      <4>2. r[i] = x[j]
        BY <2>2, <4>1
      <4> QED BY <2>1, <4>1, <4>2 DEF NoAsks, lx
    <3> QED BY <3>1, <3>2
  <2>4. NoAsks(q) => NoAsks(r)
    BY <2>3 DEF NoAsks
  <2>5. AskedBelow(q, v, n) => AskedBelow(r, v, n)
    BY <2>3 DEF AskedBelow, Asks
  <2>6. ASSUME AskedLast(q, n) PROVE AskedLast(r, n)
    <3>1. SUFFICES ASSUME NEW i \in 1 .. Len(r), NEW j \in 1 .. Len(r), i < j,
                          r[i].type = "Request", r[i].correlator = n
                   PROVE  ~Asks(r[j])
      BY DEF AskedLast
    <3>2. i \in 1 .. lq /\ r[i] = q[i]
      BY <2>3, <3>1 DEF Asks
    <3>3. CASE j \in 1 .. lq /\ r[j] = q[j]
      BY <2>6, <3>1, <3>2, <3>3 DEF AskedLast
    <3> QED BY <2>3, <3>3
  <2>7. Answered(q, v, n, a) => Answered(r, v, n, b)
    BY <2>4 DEF Answered
  <2> QED BY <2>4, <2>5, <2>6, <2>7
<1> QED BY <1>1, <1>2 DEF Grown

(* Nothing sent and a message that asks nothing.                           *)
LEMMA GrownBy ==
  ASSUME NEW q \in Seq(Messages)
  PROVE  /\ Grown(q, q)
         /\ \A m \in Messages : ~Asks(m) => Grown(q, q \o <<m>>) /\ Grown(q, Append(q, m))
         /\ \A x \in Seq(Recorded) : Grown(q, q \o x)
<1>1. NoAsks(<< >>) /\ << >> \in Seq(Messages) /\ q \o << >> = q
  BY Literals, ConcatProperties DEF NoAsks
<1>2. Grown(q, q)
  BY <1>1 DEF Grown
<1>3. ASSUME NEW m \in Messages, ~Asks(m) PROVE Grown(q, q \o <<m>>) /\ Grown(q, Append(q, m))
  <2>1. NoAsks(<<m>>) /\ <<m>> \in Seq(Messages)
    BY <1>3 DEF NoAsks
  <2>2. Append(q, m) = q \o <<m>>
    BY AppendIsConcat
  <2> QED BY <2>1, <2>2 DEF Grown
<1>4. ASSUME NEW x \in Seq(Recorded) PROVE Grown(q, q \o x)
  <2>1. Recorded \subseteq Messages
    BY DEF Messages
  <2>2. x \in Seq(Messages)
    BY <2>1, SeqOfMore
  <2>3. \A m \in Recorded : ~Asks(m)
    BY DEF Recorded, Asks
  <2>4. NoAsks(x)
    BY <2>3, LenProperties, ElementOfSeq DEF NoAsks
  <2> QED BY <2>2, <2>4 DEF Grown
<1> QED BY <1>2, <1>3, <1>4

(* b shows what a shows, and is past no other starts.                      *)
Less(b, a) == Alike(b, a) /\ b.starts \subseteq a.starts

(* A stream goes on as it was, and its fork and image show the same.       *)
SameFork(s, t) ==
  t.hist.resetStreamState # "None" =>
    /\ t.hist.resetStreamState = s.hist.resetStreamState /\ t.hist.ctxId = s.hist.ctxId
    /\ t.hist.resetStreamMessageCount = s.hist.resetStreamMessageCount
    /\ ImageView(t) = ImageView(s) /\ ForkView(t) = ForkView(s)

(* Nobody is asked who was not, and what is asked lets the status be.      *)
Meek(s, t) ==
  /\ Asked(t) => Asked(s)
  /\ Streaming(t) => t.status = s.status
  /\ \A c \in Clients : Armed(t, c) => Armed(s, c) /\ t.status = s.status
  /\ Unstarted(t) => Unstarted(s)

(* All end up with the same.                                               *)
Ends(s, t, k) == \A c \in Present(s) : Less(End(t, k, c), End(s, k, c))

(* In a full reset nobody has been sent a user more.                       *)
Arrives(s, t, k) ==
  t.state = "Reset" =>
    /\ s.state = "Reset"
    /\ \A c \in Present(s) : Arrived(t, k, c).users \subseteq Arrived(s, k, c).users

(* Nobody has been asked anything.                                         *)
Sent(s, t) == \A c \in Clients : Grown(s.inbox[c], t.inbox[c])

(* In t all that is shown is as in s, and no more is asked.                *)
Calmer(s, t, k) ==
  /\ t.clients = s.clients /\ t.payload = s.payload
  /\ Less(Late(t), Late(s)) /\ Ends(s, t, k) /\ Arrives(s, t, k)
  /\ SameFork(s, t) /\ Meek(s, t) /\ Sent(s, t)

(* No start of a stream is read that was not to be read before.            *)
NoNewStarts(s, t, k) ==
  /\ Late(t).starts \subseteq Late(s).starts
  /\ \A c \in Present(t) : \/ End(t, k, c).starts \subseteq Late(s).starts
                           \/ c \in Present(s) /\ End(t, k, c).starts \subseteq End(s, k, c).starts

(* Steps that keep all but what is shown, and that if it agrees.           *)
LEMMA GentleKeeps ==
  ASSUME NEW s, NEW t, NEW k, NEW P, NEW n, InStep(s, k, P, n), NEW Q, Q \subseteq Clients,
         Agreed(t, k, Q), t.payload = s.payload, SameFork(s, t), Meek(s, t), Sent(s, t),
         NoNewStarts(s, t, k), Sound(t), Fits(t), NEW m \in Nat, Room(t, m)
  PROVE  InStep(t, k, Q, m)
<1>1. /\ Sound(s) /\ Fits(s) /\ k \in [Clients -> Views]
      /\ Agreed(s, k, P) /\ Forked(s) /\ Marked(s, k) /\ Dated(s, k)
      /\ Asking(s, k) /\ Armings(s) /\ Streamer(s, k)
  BY DEF InStep
<1>5. Forked(t)
  BY <1>1 DEF Forked, SameFork, Streaming
<1>6. Streaming(t) => Streaming(s) /\ ForkView(t) = ForkView(s) /\ t.hist.ctxId = s.hist.ctxId
  BY DEF SameFork, Streaming
<1>7. Marked(t, k)
  BY <1>1, <1>6 DEF Marked, OfFork, NoNewStarts
<1>8. Dated(t, k)
  <2>1. \A j : StartsBelow(s, k, j) => StartsBelow(t, k, j)
    BY DEF StartsBelow, Below, NoNewStarts
  <2>2. Unstarted(t) => Unstarted(s)
    BY DEF Meek
  <2> QED BY <1>1, <2>1, <2>2 DEF Dated
<1>9. ASSUME NEW c \in Clients PROVE AskingOne(t, k[c], c)
  <2>1. /\ Grown(s.inbox[c], t.inbox[c]) /\ s.inbox[c] \in Seq(Messages)
        /\ AskingOne(s, k[c], c) /\ Armed(t, c) \in BOOLEAN
        /\ Armed(t, c) => Armed(s, c)
        /\ Asked(t) => Asked(s)
    BY <1>1 DEF Sent, Meek, Asking, Fits, Armed
  <2> DEFINE q == s.inbox[c]
             r == t.inbox[c]
             v == k[c]
             a == Armed(s, c)
             b == Armed(t, c)
             j == s.payload
             l == s.payload + 1
  <2>2. /\ AskedBelow(q, v, l)
        /\ Asked(s) => AskedBelow(q, v, j)
        /\ AskedLast(q, j) /\ Answered(q, v, j, a)
    BY <2>1 DEF AskingOne
  <2>3. q \in Seq(Messages) /\ Grown(q, r) /\ (b => a)
    BY <2>1
  <2> HIDE DEF q, r, v, a, b, j, l
  <2>4. AskedBelow(r, v, l)
    BY <2>2, <2>3, GrownAsks
  <2>5. Asked(t) => AskedBelow(r, v, j)
    <3>1. AskedBelow(q, v, j) => AskedBelow(r, v, j)
      BY <2>3, GrownAsks
    <3> QED BY <2>1, <2>2, <3>1
  <2>6. AskedLast(r, j)
    BY <2>2, <2>3, GrownAsks
  <2>7. Answered(r, v, j, b)
    BY <2>2, <2>3, GrownAsks
  <2> QED BY <2>4, <2>5, <2>6, <2>7 DEF AskingOne, q, r, v, a, b, j, l
<1>10. Asking(t, k)
  BY <1>9 DEF Asking
<1>11. Armings(t)
  BY <1>1, <1>6 DEF Armings, Meek
<1>12. Streamer(t, k)
  <2>1. SUFFICES ASSUME Streaming(t) PROVE Streamer(t, k)
    BY DEF Streamer
  <2> DEFINE c == s.hist.ctxId
  <2>2. /\ c \in Clients /\ k[c].correlator = s.payload /\ NoAsks(s.inbox[c])
        /\ Streams(k[c], ForkView(s).canvas)
    BY <1>1, <1>6, <2>1 DEF Streamer
  <2>3. Grown(s.inbox[c], t.inbox[c]) /\ s.inbox[c] \in Seq(Messages)
    BY <1>1, <2>2 DEF Sent, Fits
  <2>4. NoAsks(t.inbox[c])
    BY <2>2, <2>3, GrownAsks
  <2> QED BY <1>6, <2>1, <2>2, <2>4 DEF Streamer
<1> QED BY <1>1, <1>5, <1>7, <1>8, <1>10, <1>11, <1>12 DEF InStep

(* Steps that also keep what is shown.                                     *)
LEMMA CalmerKeeps ==
  ASSUME NEW s, NEW t, NEW k, NEW P, NEW n, InStep(s, k, P, n), NEW m \in Nat,
         Calmer(s, t, k), Sound(t), Fits(t), Room(t, m)
  PROVE  InStep(t, k, P, m)
<1>1. /\ Sound(s) /\ P \subseteq Clients /\ Agreed(s, k, P)
  BY DEF InStep
<1>2. /\ t.clients = s.clients /\ t.payload = s.payload
      /\ Less(Late(t), Late(s)) /\ Ends(s, t, k) /\ Arrives(s, t, k)
      /\ SameFork(s, t) /\ Meek(s, t) /\ Sent(s, t)
  BY DEF Calmer
<1>3. Present(t) = Present(s)
  BY <1>2 DEF Present
<1>4. Agreed(t, k, P)
  BY <1>1, <1>2, <1>3 DEF Agreed, Less, Alike, Ends, Arrives
<1>5. NoNewStarts(s, t, k)
  BY <1>2, <1>3 DEF NoNewStarts, Less, Ends
<1> QED BY <1>1, <1>2, <1>4, <1>5, GentleKeeps

----------------------------------------------------------------------------
(* Steps that let the messages be.                                         *)

(* The messages and what is sent are the same, and a stream that goes on.  *)
Quieter(s, t) ==
  /\ t.clients = s.clients /\ t.payload = s.payload /\ t.inbox = s.inbox /\ t.position = s.position
  /\ t.hist.messages = s.hist.messages /\ t.hist.firstIndex = s.hist.firstIndex
  /\ t.hist.lastIndex = s.hist.lastIndex /\ t.hist.sizeInBytes = s.hist.sizeInBytes
  /\ t.hist.resetStreamState # "None" => t.hist = s.hist
  /\ t.state = "Reset" => s.state = "Reset"
  /\ Meek(s, t)

(* That keeps the session in step.                                         *)
LEMMA QuieterKeeps ==
  ASSUME NEW s, NEW t, NEW k, NEW P, NEW n, InStep(s, k, P, n), Quieter(s, t), Sound(t), Fits(t)
  PROVE  InStep(t, k, P, n)
<1>1. Sound(s) /\ Fits(s) /\ n \in Nat /\ Room(s, n)
  BY DEF InStep
<1>2. \A p : getBatch(t.hist, p) = getBatch(s.hist, p)
  BY DEF Quieter, getBatch
<1>3. /\ Late(t) = Late(s)
      /\ \A c : End(t, k, c) = End(s, k, c)
      /\ \A c : Arrived(t, k, c) = Arrived(s, k, c)
  BY <1>2 DEF Quieter, Late, End, Arrived, Flow
<1>4. Ends(s, t, k) /\ Arrives(s, t, k) /\ Less(Late(t), Late(s))
  BY <1>3 DEF Ends, Arrives, Less, Alike, Quieter
<1>5. SameFork(s, t)
  BY DEF SameFork, Quieter, ImageView, ForkView
<1>6. Sent(s, t)
  BY <1>1, GrownBy DEF Sent, Quieter, Fits
<1>7. Calmer(s, t, k)
  BY <1>4, <1>5, <1>6 DEF Calmer, Quieter
<1>8. Room(t, n)
  BY <1>1 DEF Room, Quieter
<1> QED BY <1>1, <1>7, <1>8, CalmerKeeps

(* Only what is not asked about is changed.                                *)
Plain(s, t) ==
  /\ t.hist = s.hist /\ t.clients = s.clients /\ t.payload = s.payload /\ t.inbox = s.inbox
  /\ t.position = s.position /\ t.flags = s.flags /\ t.status = s.status
  /\ t.state = "Reset" => s.state = "Reset"
  /\ t.resetstream \in Seq(Pictures) /\ t.candidates \in Seq(Int)

(* So does that.                                                           *)
LEMMA PlainKeeps ==
  ASSUME NEW s, NEW t, NEW k, NEW P, NEW n, InStep(s, k, P, n), Plain(s, t), Sound(t)
  PROVE  InStep(t, k, P, n)
<1>1. Fits(t)
  BY DEF InStep, Fits, Plain, Present
<1>2. Meek(s, t)
  BY DEF Meek, Plain, Asked, Armed, Streaming, Unstarted
<1>3. Quieter(s, t)
  BY <1>2 DEF Quieter, Plain
<1> QED BY <1>1, <1>3, QuieterKeeps

(* Alerts keep it in step.                                                 *)
LEMMA NotifyKeeps ==
  ASSUME NEW s, NEW k, NEW P, NEW n, InStep(s, k, P, n)
  PROVE  InStep(notifyAll(s), k, P, n)
<1>1. Sound(s) /\ Fits(s)
  BY DEF InStep
<1>2. Sound(notifyAll(s))
  BY <1>1, NotifyUntouched, UntouchedPasses DEF Passes
<1>3. Plain(s, notifyAll(s))
  BY <1>1 DEF Plain, notifyAll, Sound, SessFields, Fits
<1> QED BY <1>2, <1>3, PlainKeeps

(* So do candidates who are none any more.                                 *)
LEMMA InvalidateKeeps ==
  ASSUME NEW s, NEW k, NEW P, NEW n, InStep(s, k, P, n), NEW cs
  PROVE  InStep(invalidateAutoResetCandidates(s, cs), k, P, n)
<1> DEFINE t == invalidateAutoResetCandidates(s, cs)
           q == s.candidates
           r == [i \in DOMAIN q |-> IF q[i] \in cs THEN NoUser ELSE q[i]]
<1>1. Sound(s) /\ Fits(s) /\ q \in Seq(Int)
  BY DEF InStep, Fits
<1>2. Sound(t)
  BY <1>1, InvalidateUntouched, UntouchedPasses DEF Passes
<1>3. r \in Seq(Int)
  <2>1. DOMAIN q = 1 .. Len(q) /\ Len(q) \in Nat /\ \A i \in 1 .. Len(q) : q[i] \in Int
    BY <1>1, LenProperties, ElementOfSeq
  <2>2. NoUser \in Int
    BY DEF NoUser
  <2>3. r \in [1 .. Len(q) -> Int]
    BY <2>1, <2>2
  <2> HIDE DEF r
  <2> QED BY <2>1, <2>3, IsASeq
<1>4. t = [s EXCEPT !.candidates = r]
  BY DEF invalidateAutoResetCandidates
<1> HIDE DEF r, t
<1>5. Plain(s, t)
  BY <1>1, <1>3, <1>4 DEF Plain, Sound, SessFields, Fits
<1> QED BY <1>2, <1>5, PlainKeeps DEF t

(* A history that is the same but for its stream, which may be gone.       *)
Unstreamed(h, g) ==
  /\ SoundHist(g) /\ g.messages = h.messages /\ g.firstIndex = h.firstIndex
  /\ g.lastIndex = h.lastIndex /\ g.sizeInBytes = h.sizeInBytes
  /\ g.resetStreamMessageCount = h.resetStreamMessageCount
  /\ g.resetStream = h.resetStream \/ g.resetStream = << >>
  /\ g.resetStreamState # "None" => g = h

(* Streams that are given up leave such a history.                         *)
LEMMA AbortUnstreamed ==
  ASSUME NEW h, SoundHist(h), NEW c
  PROVE  Unstreamed(h, abortStreamedReset(h, c)) /\ Unstreamed(h, h) /\ Unstreamed(h, abortActiveStreamedReset(h))
<1>1. Unstreamed(h, h)
  BY DEF Unstreamed
<1>2. Unstreamed(h, abortActiveStreamedReset(h))
  BY AbortActiveSound DEF Unstreamed, abortActiveStreamedReset, discardResetStream, SoundHist, HistFields
<1> QED BY <1>1, <1>2 DEF abortStreamedReset

(* And so on.                                                              *)
LEMMA UnstreamedOn ==
  ASSUME NEW h, NEW g, Unstreamed(h, g), NEW f, Unstreamed(g, f)
  PROVE  Unstreamed(h, f)
BY DEF Unstreamed

(* A sound session is so with another sound history that has no less.      *)
LEMMA HistSound ==
  ASSUME NEW s, Sound(s), NEW h, SoundHist(h), h.lastIndex >= s.hist.lastIndex
  PROVE  Sound([s EXCEPT !.hist = h])
<1> DEFINE t == [s EXCEPT !.hist = h]
<1>1. /\ DOMAIN t = SessFields /\ t.hist = h /\ \A x \in SessFields \ {"hist"} : t[x] = s[x]
  BY DEF Sound, SessFields
<1>2. /\ t.clients = s.clients /\ t.state = s.state /\ t.status = s.status
      /\ t.resetstream = s.resetstream /\ t.ops = s.ops /\ t.flags = s.flags /\ t.position = s.position
  BY <1>1 DEF SessFields
<1>3. \A c \in Clients : t.position[c] <= h.lastIndex
  <2>1. SUFFICES ASSUME NEW c \in Clients PROVE s.position[c] <= h.lastIndex
    BY <1>2
  <2>2. /\ s.position[c] \in Int /\ s.position[c] <= s.hist.lastIndex
        /\ h.lastIndex \in Int /\ s.hist.lastIndex \in Int
    BY DEF Sound, SoundHist
  <2> QED BY <2>2
<1> HIDE DEF t
<1> QED BY <1>1, <1>2, <1>3 DEF Sound, Present, t

(* The reset is given up or done: nobody is asked any more.                *)
LEMMA ClearKeeps ==
  ASSUME NEW s, NEW k, NEW P, NEW n, InStep(s, k, P, n), NEW h, Unstreamed(s.hist, h), NEW retry
  PROVE  InStep(clearAutoReset([s EXCEPT !.hist = h], retry), k, P, n)
<1> DEFINE u == [s EXCEPT !.hist = h]
           t == clearAutoReset(u, retry)
           g == abortStreamedReset(h, -1)
<1>1. Sound(s) /\ Fits(s) /\ SoundHist(h) /\ h.lastIndex >= s.hist.lastIndex
  BY DEF InStep, Unstreamed, Sound, SoundHist
<1>2. Sound(u) /\ DOMAIN u = SessFields
  BY <1>1, HistSound DEF Sound
<1>3. Sound(t)
  BY <1>2, ClearSound
<1>4. Unstreamed(s.hist, g)
  BY <1>1, AbortUnstreamed, UnstreamedOn
<1>5. g.resetStreamState # "Streaming"
  BY <1>1, AbortSound DEF StreamedResetBy
<1>6. /\ t.hist = g /\ t.clients = s.clients /\ t.payload = s.payload /\ t.inbox = s.inbox
      /\ t.position = s.position /\ t.flags = [c \in Clients |-> {}] /\ t.status = "NotSent"
      /\ t.state = s.state /\ t.resetstream = s.resetstream /\ t.candidates = s.candidates
  BY <1>1 DEF clearAutoReset, Sound, SessFields
<1> HIDE DEF t, g, u
<1>7. Fits(t)
  <2>1. << >> \in Seq(Snapshots)
    OBVIOUS
  <2> QED BY <1>1, <1>4, <1>6, <2>1 DEF Fits, Unstreamed, Present
<1>8. ~Asked(t) /\ ~Streaming(t) /\ \A c \in Clients : ~Armed(t, c)
  BY <1>5, <1>6 DEF Asked, Streaming, Armed
<1>9. Meek(s, t)
  BY <1>8 DEF Meek, Unstarted
<1>10. Quieter(s, t)
  BY <1>4, <1>6, <1>9 DEF Quieter, Unstreamed
<1> QED BY <1>3, <1>7, <1>10, QuieterKeeps DEF t, u

(* The dialogue of automatic resets starts over.                           *)
LEMMA ClearedKeeps ==
  ASSUME NEW s, NEW k, NEW P, NEW n, InStep(s, k, P, n), NEW retry
  PROVE  InStep(clearAutoReset(s, retry), k, P, n)
<1>1. Sound(s) /\ SoundHist(s.hist)
  BY DEF InStep, Sound
<1>2. clearAutoReset([s EXCEPT !.hist = s.hist], retry) = clearAutoReset(s, retry)
  BY <1>1 DEF Sound, SessFields, clearAutoReset
<1>3. Unstreamed(s.hist, s.hist)
  BY <1>1, AbortUnstreamed
<1> QED BY <1>2, <1>3, ClearKeeps

----------------------------------------------------------------------------
(* Steps that send.                                                        *)

(* A quiet message shows nothing.                                          *)
LEMMA ReadingQuiet ==
  ASSUME NEW r \in Readers, NEW q \in Seq(Messages), NEW m \in Messages, Quiet(m)
  PROVE  Append(q, m) \in Seq(Messages) /\ Reading(r, Append(q, m)) = Reading(r, q)
<1>1. <<m>> \in Seq(Messages) /\ Append(q, m) = q \o <<m>>
  BY AppendIsConcat
<1>2. /\ q \o <<m>> \in Seq(Messages) /\ Reading(r, q) \in Readers
      /\ Reading(r, q \o <<m>>) = Reading(Reading(r, q), <<m>>)
  BY <1>1, ReadingParts
<1>3. Reading(Reading(r, q), <<m>>) = Sees(Reading(r, q), m)
  BY <1>2, ReadingOne
<1>4. Sees(Reading(r, q), m) = Reading(r, q)
  BY <1>2, SeesIs
<1> QED BY <1>1, <1>2, <1>3, <1>4

(* What a direct message changes.                                          *)
LEMMA DirectIs ==
  ASSUME NEW s, Sound(s), Fits(s), NEW cs, cs \subseteq Present(s), NEW m \in Messages
  PROVE  LET t == sendDirectMessages(s, cs, m)
         IN  /\ Sound(t) /\ Fits(t)
             /\ t.hist = s.hist /\ t.clients = s.clients /\ t.payload = s.payload
             /\ t.position = s.position /\ t.flags = s.flags /\ t.status = s.status
             /\ t.state = s.state
             /\ \A c \in Clients : t.inbox[c] = s.inbox[c] \/ (c \in cs /\ t.inbox[c] = Append(s.inbox[c], m))
             /\ isControl(m) => \A c \in Clients \cap cs : t.inbox[c] = Append(s.inbox[c], m)
<1> DEFINE t == sendDirectMessages(s, cs, m)
<1>1. /\ t.hist = s.hist /\ t.clients = s.clients /\ t.payload = s.payload
      /\ t.position = s.position /\ t.flags = s.flags /\ t.status = s.status
      /\ t.state = s.state /\ t.resetstream = s.resetstream /\ t.candidates = s.candidates
      /\ DOMAIN t.inbox = Clients /\ t.inbox = [c \in Clients |-> t.inbox[c]]
      /\ \A c \in Clients : t.inbox[c] = IF c \in cs /\ (isControl(m) \/ ~isAwaitingReset(s, c))
                                         THEN Append(s.inbox[c], m) ELSE s.inbox[c]
  BY DEF sendDirectMessages, Sound, SessFields
<1>2. Sound(t)
  BY DirectUntouched, UntouchedPasses DEF Passes
<1> HIDE DEF t
<1>3. \A c \in Clients : t.inbox[c] = s.inbox[c] \/ (c \in cs /\ t.inbox[c] = Append(s.inbox[c], m))
  BY <1>1
<1>4. isControl(m) => \A c \in Clients \cap cs : t.inbox[c] = Append(s.inbox[c], m)
  BY <1>1
<1>5. \A c \in Clients : t.inbox[c] \in Seq(Messages)
  <2>1. SUFFICES ASSUME NEW c \in Clients PROVE t.inbox[c] \in Seq(Messages)
    OBVIOUS
  <2>2. s.inbox[c] \in Seq(Messages)
    BY DEF Fits
  <2>3. Append(s.inbox[c], m) \in Seq(Messages)
    BY <2>2, AppendProperties
  <2> QED BY <1>3, <2>2, <2>3
<1>6. t.inbox \in [Clients -> Seq(Messages)]
  BY <1>1, <1>5
<1>7. Fits(t)
  BY <1>1, <1>3, <1>6 DEF Fits, Present
<1> QED BY <1>1, <1>2, <1>3, <1>4, <1>7 DEF t

(* What a message to cs changes.                                           *)
Directed(s, t, cs, m) ==
  /\ Sound(t) /\ Fits(t)
  /\ t.hist = s.hist /\ t.clients = s.clients /\ t.payload = s.payload
  /\ t.position = s.position /\ t.flags = s.flags /\ t.status = s.status
  /\ t.state = s.state
  /\ \A c \in Clients : t.inbox[c] = s.inbox[c] \/ (c \in cs /\ t.inbox[c] = Append(s.inbox[c], m))
  /\ isControl(m) => \A c \in Clients \cap cs : t.inbox[c] = Append(s.inbox[c], m)

(* Members of cs get it.                                                   *)
LEMMA DirectGets ==
  ASSUME NEW s, Sound(s), Fits(s), NEW cs, cs \subseteq Present(s), NEW m \in Messages
  PROVE  Directed(s, sendDirectMessages(s, cs, m), cs, m)
BY DirectIs DEF Directed

(* Progress of a streamed reset, and the request to send a canvas.         *)
LEMMA DirectKeeps ==
  ASSUME NEW s, NEW k, NEW P, NEW n, InStep(s, k, P, n), NEW cs, cs \subseteq Present(s),
         NEW m \in Messages, Quiet(m), ~Asks(m)
  PROVE  InStep(sendDirectMessages(s, cs, m), k, P, n)
<1> DEFINE t == sendDirectMessages(s, cs, m)
<1>1. Sound(s) /\ Fits(s) /\ n \in Nat /\ Room(s, n) /\ k \in [Clients -> Views]
  BY DEF InStep
<1>2. /\ Sound(t) /\ Fits(t)
      /\ t.hist = s.hist /\ t.clients = s.clients /\ t.payload = s.payload
      /\ t.position = s.position /\ t.flags = s.flags /\ t.status = s.status
      /\ t.state = s.state
      /\ \A c \in Clients : t.inbox[c] = s.inbox[c] \/ t.inbox[c] = Append(s.inbox[c], m)
  <2>1. Directed(s, t, cs, m)
    BY <1>1, DirectGets
  <2> HIDE DEF t
  <2> QED BY <2>1 DEF Directed
<1> HIDE DEF t
<1>3. ASSUME NEW c \in Clients
      PROVE  Arrived(t, k, c) = Arrived(s, k, c) /\ End(t, k, c) = End(s, k, c) /\ Grown(s.inbox[c], t.inbox[c])
  <2>1. s.inbox[c] \in Seq(Messages) /\ Reader(k[c]) \in Readers
    BY <1>1, Reached
  <2>2. Arrived(t, k, c) = Arrived(s, k, c)
    BY <1>2, <2>1, ReadingQuiet DEF Arrived
  <2>3. End(t, k, c) = End(s, k, c)
    <3>1. End(t, k, c) = Reading(Arrived(t, k, c), getBatch(t.hist, t.position[c]))
      BY <1>1, <1>2, Reached
    <3>2. End(s, k, c) = Reading(Arrived(s, k, c), getBatch(s.hist, s.position[c]))
      BY <1>1, Reached
    <3> QED BY <1>2, <2>2, <3>1, <3>2
  <2>4. Grown(s.inbox[c], t.inbox[c])
    BY <1>2, <2>1, GrownBy
  <2> QED BY <2>2, <2>3, <2>4
<1>4. Present(s) \subseteq Clients
  BY <1>1, PresentClients
<1>5. Late(t) = Late(s)
  BY <1>2 DEF Late
<1>6. Ends(s, t, k) /\ Arrives(s, t, k) /\ Less(Late(t), Late(s)) /\ Sent(s, t)
  BY <1>2, <1>3, <1>4, <1>5 DEF Ends, Arrives, Less, Alike, Sent
<1>7. SameFork(s, t) /\ Meek(s, t)
  BY <1>2 DEF SameFork, Meek, ImageView, ForkView, Asked, Armed, Streaming, Unstarted
<1>8. Calmer(s, t, k)
  BY <1>2, <1>6, <1>7 DEF Calmer
<1>9. Room(t, n)
  BY <1>1, <1>2 DEF Room
<1> QED BY <1>1, <1>2, <1>8, <1>9, CalmerKeeps DEF t

(* Where the image takes the place of what it shows.                       *)
LEMMA ResolvedView ==
  ASSUME NEW s, Sound(s), Fits(s), Forked(s), s.hist.resetStreamState = "Prepared"
  PROVE  /\ ResolvedMessages(s.hist) \in Seq(Recorded)
         /\ Less(Reading(Blank, ResolvedMessages(s.hist)), Late(s))
<1> DEFINE h == s.hist
           ms == h.messages
           i == h.resetStreamIndex
           x == i + 1
           l == Len(ms)
           first == SubSeq(ms, 1, i)
           rest == SubSeq(ms, x, l)
           image == h.resetStream
           R == Reading(Blank, image \o rest)
<1>1. /\ ms \in Seq(Recorded) /\ image \in Seq(Snapshots) /\ i \in 0 .. l /\ l \in Nat
  BY LenProperties DEF Fits, Sound, SoundHist
<1>2. Recorded \subseteq Messages /\ Snapshots \subseteq Messages /\ Snapshots \subseteq Recorded
      /\ Snapshots \subseteq Startless
  BY DEF Messages, Snapshots, Startless
<1>3. ms \in Seq(Messages) /\ image \in Seq(Messages) /\ image \in Seq(Recorded) /\ image \in Seq(Startless)
  BY <1>1, <1>2, SeqOfMore
<1>4. /\ i \in Nat /\ x \in Nat /\ 1 <= x /\ x <= l + 1 /\ l <= Len(ms) /\ 1 <= 1 /\ 1 <= i + 1
      /\ i <= l /\ i <= Len(ms)
  BY <1>1
<1> HIDE DEF x, l, i, ms, image
<1>5. rest \in Seq(Recorded) /\ first \in Seq(Recorded)
  BY <1>1, <1>4, Slice
<1>6. rest \in Seq(Messages) /\ first \in Seq(Messages)
  BY <1>2, <1>5, SeqOfMore
<1>7. first \o rest = ms
  <2>1. first \o rest = SubSeq(ms, 1, l)
    BY <1>1, <1>4, SlicesJoin DEF x
  <2>2. SubSeq(ms, 1, l) = ms
    BY <1>1, LenProperties, SubSeqProperties DEF l
  <2> QED BY <2>1, <2>2
<1>8. ResolvedMessages(h) = image \o rest
  BY DEF ResolvedMessages, x, l, i, ms, image
<1>9. image \o rest \in Seq(Recorded)
  BY <1>3, <1>5, ConcatProperties
<1> HIDE DEF first, rest
<1>10. Blank \in Readers
  BY NewClientView, ReaderIs DEF Blank
<1> DEFINE a == Reading(Blank, image)
           b == Reading(Blank, first)
<1>11. /\ a \in Readers /\ b \in Readers /\ R = Reading(a, rest)
       /\ Reading(Blank, first \o rest) = Reading(b, rest)
  BY <1>3, <1>6, <1>10, ReadingParts
<1>12. a.canvas = b.canvas /\ a.users = b.users
  BY DEF Forked, ImageView, ForkView, image, first, ms, i
<1>13. a.starts = Blank.starts
  BY <1>3, <1>10, ReadingWithout
<1>14. Blank.starts \subseteq b.starts
  BY <1>6, <1>10, ReadingSame
<1>15. Late(s) = Reading(b, rest)
  BY <1>7, <1>11 DEF Late, ms
<1> HIDE DEF a, b, R
<1>16. /\ Reading(a, rest).canvas = Reading(b, rest).canvas
       /\ Reading(a, rest).users = Reading(b, rest).users
       /\ Reading(a, rest).starts \subseteq Reading(b, rest).starts
  <2>1. a \in Readers /\ b \in Readers /\ rest \in Seq(Messages)
    BY <1>6, <1>11
  <2>2. a.canvas = b.canvas /\ a.users = b.users /\ a.starts \subseteq b.starts
    BY <1>12, <1>13, <1>14
  <2> QED BY <2>1, <2>2, ReadingSame
<1>17. Less(R, Late(s))
  BY <1>11, <1>15, <1>16 DEF Less, Alike
<1> QED BY <1>8, <1>9, <1>17 DEF R

(* Everybody is sent what they would have been sent.                       *)
LEMMA ResolvedIs ==
  ASSUME NEW s, Sound(s), Fits(s), NEW k, Forked(s), checkStreamedResetStart(s), resolveOk(s.hist)
  PROVE  LET u == addToHistoryPosition([s EXCEPT !.hist = resolveStreamedReset(@)],
                                       Size(ResolvedMessages(s.hist)))
         IN  /\ Sound(u) /\ Fits(u)
             /\ u.hist = resolveStreamedReset(s.hist) /\ u.clients = s.clients /\ u.payload = s.payload
             /\ u.inbox = s.inbox /\ u.flags = s.flags /\ u.status = s.status /\ u.state = s.state
             /\ \A c \in Present(s) : Flow(u, c) = Flow(s, c)
<1> DEFINE h == s.hist
           a == Size(ResolvedMessages(h))
           g == resolveStreamedReset(h)
           u == addToHistoryPosition([s EXCEPT !.hist = resolveStreamedReset(@)], a)
<1>1. /\ SoundHist(h) /\ h.resetStreamState = "Prepared" /\ DOMAIN s = SessFields
      /\ \A c \in Present(s) : s.position[c] >= h.resetStreamStartIndex
      /\ h.messages \in Seq(Recorded) /\ h.resetStream \in Seq(Snapshots)
  BY DEF Sound, Fits, checkStreamedResetStart, isResetStreamPending
<1>2. /\ SoundHist(g) /\ a \in Nat /\ g.lastIndex = h.lastIndex + a
  BY <1>1, ResolveSound
<1>3. /\ u.hist = g /\ u.clients = s.clients /\ u.payload = s.payload /\ DOMAIN u = SessFields
      /\ u.inbox = s.inbox /\ u.flags = s.flags /\ u.status = s.status /\ u.state = s.state
      /\ u.resetstream = s.resetstream /\ u.candidates = s.candidates /\ u.ops = s.ops
      /\ u.position = [c \in Clients |-> IF c \in Present(s) THEN s.position[c] + a ELSE s.position[c]]
  BY <1>1 DEF addToHistoryPosition, SessFields, Present
<1>4. /\ g.messages = ResolvedMessages(h) /\ g.resetStream = << >>
      /\ g.resetStreamMessageCount = h.resetStreamMessageCount
  BY <1>1 DEF resolveStreamedReset, SoundHist, HistFields
<1>5. ResolvedMessages(h) \in Seq(Recorded)
  BY <1>1, ResolvedView
<1>6. Present(s) \subseteq Clients /\ Present(u) = Present(s)
  BY <1>3, PresentClients DEF Present
<1>7. ASSUME NEW c \in Clients
      PROVE  /\ u.position[c] \in Int /\ u.position[c] <= g.lastIndex
             /\ c \in Present(s) => u.position[c] = s.position[c] + a
             /\ c \notin Present(s) => u.position[c] = s.position[c]
  <2>1. /\ s.position[c] \in Int /\ s.position[c] <= h.lastIndex /\ h.lastIndex \in Int
    BY <1>1 DEF Sound, SoundHist
  <2>2. u.position[c] = IF c \in Present(s) THEN s.position[c] + a ELSE s.position[c]
    BY <1>3
  <2> HIDE DEF u, g, a, h
  <2> QED BY <1>2, <2>1, <2>2
<1> HIDE DEF u, g, a
<1>8. DOMAIN u.position = Clients /\ u.position \in [Clients -> Int]
  BY <1>3, <1>7
<1>9. Sound(u)
  BY <1>2, <1>3, <1>6, <1>7, <1>8 DEF Sound
<1>10. Fits(u)
  <2>1. << >> \in Seq(Snapshots)
    OBVIOUS
  <2>2. \A c \in Clients \ Present(u) : u.inbox[c] = << >> /\ u.position[c] = -1
    BY <1>3, <1>6, <1>7 DEF Fits
  <2> QED BY <1>3, <1>4, <1>5, <2>1, <2>2 DEF Fits
<1>11. ASSUME NEW c \in Present(s) PROVE Flow(u, c) = Flow(s, c)
  <2> DEFINE p == s.position[c]
  <2>1. /\ p \in Int /\ p <= h.lastIndex /\ p >= h.resetStreamStartIndex /\ u.position[c] = p + a
    BY <1>1, <1>6, <1>7 DEF Sound
  <2>2. h.resetStream \in Seq(Recorded)
    <3>1. Snapshots \subseteq Recorded
      BY DEF Snapshots
    <3> QED BY <1>1, <3>1, SeqOfMore
  <2> HIDE DEF p, h
  <2>3. getBatch(g, p + a) = getBatch(h, p)
    BY <1>1, <2>1, <2>2, BatchResolved DEF g, a, h
  <2> QED BY <1>3, <2>1, <2>3 DEF Flow, p, h
<1> QED BY <1>3, <1>9, <1>10, <1>11 DEF u, g, a

(* A streamed reset takes effect when nobody is behind its start.          *)
LEMMA ResolveKeeps ==
  ASSUME NEW s, NEW k, NEW P, NEW n, InStep(s, k, P, n)
  PROVE  InStep(resolvePendingStreamedReset(s), k, P, n)
<1> DEFINE h == s.hist
           a == Size(ResolvedMessages(h))
           u == addToHistoryPosition([s EXCEPT !.hist = resolveStreamedReset(@)], a)
<1>1. Sound(s) /\ Fits(s) /\ Forked(s) /\ n \in Nat /\ Room(s, n) /\ SoundHist(h)
  BY DEF InStep, Sound
<1>2. CASE ~checkStreamedResetStart(s)
  BY <1>2 DEF resolvePendingStreamedReset
<1>3. CASE checkStreamedResetStart(s) /\ ~resolveOk(h)
  <2>1. resolveStreamedReset(h) = [h EXCEPT !.resetStreamState = "None", !.ctxId = 0]
    BY <1>3 DEF resolveStreamedReset
  <2>2. Unstreamed(h, resolveStreamedReset(h))
    <3>1. SoundHist(resolveStreamedReset(h)) /\ resolveStreamedReset(h).resetStreamState = "None"
      BY <1>1, <1>3, ResolveSound DEF checkStreamedResetStart, isResetStreamPending
    <3> QED BY <1>1, <2>1, <3>1 DEF Unstreamed, SoundHist, HistFields
  <2>3. resolvePendingStreamedReset(s) = clearAutoReset([s EXCEPT !.hist = resolveStreamedReset(h)], TRUE)
    BY <1>3 DEF resolvePendingStreamedReset
  <2> DEFINE g == resolveStreamedReset(h)
             r == TRUE
  <2> HIDE DEF g, h, r
  <2>4. InStep(clearAutoReset([s EXCEPT !.hist = g], r), k, P, n)
    <3>1. InStep(s, k, P, n) /\ Unstreamed(s.hist, g)
      BY <2>2 DEF g, h
    <3> QED BY <3>1, ClearKeeps, Zenon
  <2> QED BY <2>3, <2>4 DEF g, r
<1>4. CASE checkStreamedResetStart(s) /\ resolveOk(h)
  <2>1. resolvePendingStreamedReset(s) = notifyAll(clearAutoReset(u, FALSE))
    BY <1>4 DEF resolvePendingStreamedReset
  <2>2. /\ Sound(u) /\ Fits(u)
        /\ u.hist = resolveStreamedReset(h) /\ u.clients = s.clients /\ u.payload = s.payload
        /\ u.inbox = s.inbox /\ u.flags = s.flags /\ u.status = s.status /\ u.state = s.state
        /\ \A c \in Present(s) : Flow(u, c) = Flow(s, c)
    BY <1>1, <1>4, ResolvedIs
  <2>3. h.resetStreamState = "Prepared"
    BY <1>4 DEF checkStreamedResetStart, isResetStreamPending
  <2>4. /\ u.hist.messages = ResolvedMessages(h) /\ u.hist.resetStreamState = "None"
        /\ u.hist.sizeInBytes = a
    BY <1>1, <1>4, <2>2 DEF resolveStreamedReset, SoundHist, HistFields
  <2> HIDE DEF u, a
  <2>5. Less(Late(u), Late(s))
    BY <1>1, <2>3, <2>4, ResolvedView DEF Late
  <2>6. Ends(s, u, k) /\ Arrives(s, u, k)
    BY <2>2 DEF Ends, Arrives, Less, Alike, End, Arrived
  <2>7. SameFork(s, u) /\ Sent(s, u)
    BY <1>1, <2>2, <2>4, GrownBy DEF SameFork, Sent, Fits
  <2>8. Meek(s, u)
    BY <2>2, <2>3, <2>4 DEF Meek, Asked, Armed, Streaming, Unstarted
  <2>9. Calmer(s, u, k)
    BY <2>2, <2>5, <2>6, <2>7, <2>8 DEF Calmer
  <2>10. Room(u, n)
    <3>1. SizeLimit = 0 \/ a <= SizeLimit
      BY <1>4 DEF resolveOk, a
    <3>2. a \in Nat
      BY <1>1, <2>3, ResolveSound DEF a
    <3> QED BY <1>1, <2>4, <3>1, <3>2, SessionHistoryAssumption DEF Room
  <2>11. InStep(u, k, P, n)
    BY <1>1, <2>2, <2>9, <2>10, CalmerKeeps
  <2> QED BY <2>1, <2>11, ClearedKeeps, NotifyKeeps
<1> QED BY <1>2, <1>3, <1>4

(* The rest of the history goes to a client.                               *)
LEMMA SendKeeps ==
  ASSUME NEW s, NEW k, NEW P, NEW n, InStep(s, k, P, n), NEW c \in Present(s), s.state = "Running"
  PROVE  InStep(Send([s EXCEPT !.position[c] = s.hist.lastIndex], c,
                     getBatch(s.hist, s.position[c])), k, P, n)
<1> DEFINE h == s.hist
           b == getBatch(h, s.position[c])
           u == [s EXCEPT !.position[c] = h.lastIndex]
           t == Send(u, c, b)
<1>1. /\ Sound(s) /\ Fits(s) /\ n \in Nat /\ Room(s, n) /\ k \in [Clients -> Views]
      /\ SoundHist(h) /\ h.messages \in Seq(Recorded) /\ h.lastIndex \in Int
      /\ s.position \in [Clients -> Int] /\ s.inbox \in [Clients -> Seq(Messages)] /\ DOMAIN s = SessFields
  BY DEF InStep, Sound, SoundHist, Fits
<1>2. c \in Clients /\ Present(s) \subseteq Clients
  BY <1>1, PresentClients
<1>3. /\ t.hist = h /\ t.clients = s.clients /\ t.payload = s.payload /\ DOMAIN t = SessFields
      /\ t.flags = s.flags /\ t.status = s.status /\ t.state = s.state
      /\ t.resetstream = s.resetstream /\ t.candidates = s.candidates /\ t.ops = s.ops
      /\ t.position = [s.position EXCEPT ![c] = h.lastIndex]
      /\ t.inbox = [s.inbox EXCEPT ![c] = s.inbox[c] \o b]
  BY <1>1 DEF Send, SessFields
<1>4. b \in Seq(Recorded) /\ b \in Seq(Messages) /\ s.inbox[c] \in Seq(Messages)
  BY <1>1, <1>2, Reached
<1>5. s.inbox[c] \o b \in Seq(Messages)
  BY <1>4, ConcatProperties
<1>6. /\ t.position \in [Clients -> Int] /\ t.position[c] = h.lastIndex
      /\ \A d \in Clients : t.position[d] <= h.lastIndex
      /\ \A d \in Clients \ {c} : t.position[d] = s.position[d] /\ t.inbox[d] = s.inbox[d]
      /\ t.inbox[c] = s.inbox[c] \o b /\ t.inbox \in [Clients -> Seq(Messages)]
  <2>1. /\ t.position \in [Clients -> Int] /\ t.position[c] = h.lastIndex
        /\ \A d \in Clients \ {c} : t.position[d] = s.position[d] /\ t.inbox[d] = s.inbox[d]
        /\ t.inbox[c] = s.inbox[c] \o b /\ t.inbox \in [Clients -> Seq(Messages)]
    BY <1>1, <1>2, <1>3, <1>5, ZenonT(30)
  <2>2. \A d \in Clients \ {c} : s.position[d] <= h.lastIndex
    BY <1>1 DEF Sound
  <2>3. h.lastIndex <= h.lastIndex
    BY <1>1
  <2> HIDE DEF t, u, b, h
  <2> QED BY <2>1, <2>2, <2>3, SMTT(30)
<1> HIDE DEF t, u, b
<1>7. Present(t) = Present(s)
  BY <1>3 DEF Present
<1>8. Sound(t)
  BY <1>1, <1>3, <1>6, <1>7 DEF Sound
<1>9. Fits(t)
  BY <1>1, <1>3, <1>6, <1>7 DEF Fits
<1>10. Flow(t, c) = Flow(s, c)
  <2>1. getBatch(h, h.lastIndex) = << >>
    BY <1>1, BatchEnds
  <2>2. (s.inbox[c] \o b) \o << >> = s.inbox[c] \o b
    BY <1>5, ConcatProperties
  <2> QED BY <1>3, <1>6, <2>1, <2>2 DEF Flow, b
<1>11. \A d \in Clients \ {c} : Flow(t, d) = Flow(s, d)
  BY <1>3, <1>6 DEF Flow
<1>12. Ends(s, t, k)
  BY <1>2, <1>10, <1>11 DEF Ends, Less, Alike, End
<1>13. Less(Late(t), Late(s)) /\ Arrives(s, t, k)
  BY <1>3 DEF Less, Alike, Late, Arrives
<1>14. SameFork(s, t) /\ Meek(s, t)
  BY <1>3 DEF SameFork, Meek, ImageView, ForkView, Asked, Armed, Streaming, Unstarted
<1>15. Sent(s, t)
  <2>1. SUFFICES ASSUME NEW d \in Clients PROVE Grown(s.inbox[d], t.inbox[d])
    BY DEF Sent
  <2>2. s.inbox[d] \in Seq(Messages)
    BY <1>1
  <2> QED BY <1>4, <1>6, <2>2, GrownBy
<1>16. Calmer(s, t, k)
  BY <1>3, <1>12, <1>13, <1>14, <1>15 DEF Calmer
<1>17. Room(t, n)
  BY <1>1, <1>3 DEF Room
<1> QED BY <1>1, <1>8, <1>9, <1>16, <1>17, CalmerKeeps DEF t, u, b

(* A client is sent what it has not got.                                   *)
LEMMA BatchKeeps ==
  ASSUME NEW s, NEW k, NEW P, NEW n, InStep(s, k, P, n), NEW c \in Present(s)
  PROVE  InStep(sendNextHistoryBatch(s, c), k, P, n)
<1> DEFINE r == resolvePendingStreamedReset(s)
<1>1. CASE s.uploading[c] \/ s.state # "Running"
  BY <1>1 DEF sendNextHistoryBatch
<1>2. CASE ~(s.uploading[c] \/ s.state # "Running")
  <2>1. sendNextHistoryBatch(s, c)
          = Send([r EXCEPT !.position[c] = r.hist.lastIndex], c, getBatch(r.hist, r.position[c]))
    BY <1>2 DEF sendNextHistoryBatch
  <2>2. InStep(r, k, P, n)
    BY ResolveKeeps
  <2>3. Passes(s, r)
    BY ResolvePasses DEF InStep
  <2>4. c \in Present(r) /\ r.state = "Running"
    BY <1>2, <2>3 DEF Passes, SameUsers, Present
  <2> HIDE DEF r
  <2> QED BY <2>1, <2>2, <2>4, SendKeeps
<1> QED BY <1>1, <1>2

(* All clients are.                                                        *)
LEMMA NewMessagesKeeps ==
  ASSUME NEW s, NEW k, NEW P, NEW n, InStep(s, k, P, n)
  PROVE  InStep(newMessagesAvailable(s), k, P, n)
<1> DEFINE l == Len(s.clients)
           run == CHOOSE f : SentTo(f, s, l)
           T == {i \in 0 .. l : Passes(s, run[i]) /\ InStep(run[i], k, P, n)}
<1>1. /\ Sound(s) /\ l \in Nat /\ \A i \in 1 .. l : s.clients[i] \in Clients
      /\ \A i \in 1 .. l : s.clients[i] \in Present(s)
  <2>1. Sound(s)
    BY DEF InStep
  <2> QED BY <2>1, LenProperties, ElementOfSeq DEF Sound, Present, ToSet
<1>2. newMessagesAvailable(s) = run[l]
  BY DEF newMessagesAvailable, SentTo
<1>3. SentTo(run, s, l)
  BY <1>1, SentRuns
<1> HIDE DEF run, l
<1>4. \A i \in 0 .. l : run[i] = IF i = 0 THEN s
                                 ELSE sendNextHistoryBatch(run[i - 1], s.clients[i])
  BY <1>3 DEF SentTo
<1>5. 0 \in T
  BY <1>1, <1>4, PassesItself
<1>6. ASSUME NEW i \in 1 .. l, i - 1 \in T PROVE i \in T
  <2> DEFINE a == run[i - 1]
             c == s.clients[i]
             b == sendNextHistoryBatch(a, c)
  <2>1. Passes(s, a) /\ InStep(a, k, P, n)
    BY <1>6
  <2>2. run[i] = b
    BY <1>1, <1>4
  <2>3. c \in Clients /\ c \in Present(a)
    BY <1>1, <2>1 DEF Passes, SameUsers, Present
  <2> HIDE DEF a, c
  <2>4. Sound(a)
    BY <2>1 DEF Passes
  <2>5. Passes(a, b)
    BY <2>3, <2>4, BatchPasses
  <2>6. Passes(s, b)
    BY <1>1, <2>1, <2>5, PassesOn
  <2>7. InStep(b, k, P, n)
    BY <2>1, <2>3, BatchKeeps
  <2> QED BY <1>1, <2>2, <2>6, <2>7
<1>7. \A i \in 0 .. l : i \in T
  <2> HIDE DEF T
  <2> QED BY <1>1, <1>5, <1>6, Stepwise
<1>8. l \in 0 .. l
  BY <1>1
<1> QED BY <1>2, <1>7, <1>8

----------------------------------------------------------------------------
(* Adding to the history.                                                  *)

(* In t the history has one message more.                                  *)
Added(s, t, m) ==
  /\ t.hist.messages = s.hist.messages \o <<m>> /\ t.hist.firstIndex = s.hist.firstIndex
  /\ t.hist.lastIndex = s.hist.lastIndex + 1
  /\ t.inbox = s.inbox /\ t.position = s.position

(* Everybody sees it last, and what has been sent is the same.             *)
LEMMA AddedReads ==
  ASSUME NEW s, Sound(s), Fits(s), NEW k \in [Clients -> Views],
         NEW m \in Recorded, NEW t, Added(s, t, m)
  PROVE  /\ t.hist.messages \in Seq(Recorded) /\ m \in Messages
         /\ Late(t) = Sees(Late(s), m)
         /\ \A c \in Clients : /\ End(t, k, c) = Sees(End(s, k, c), m)
                               /\ Arrived(t, k, c) = Arrived(s, k, c)
         /\ s.hist.resetStreamState # "None" =>
              SubSeq(t.hist.messages, 1, s.hist.resetStreamIndex)
                = SubSeq(s.hist.messages, 1, s.hist.resetStreamIndex)
<1> DEFINE h == s.hist
           g == t.hist
           f == addMessageInternal(h, <<m>>)
<1>1. /\ SoundHist(h) /\ h.messages \in Seq(Recorded) /\ <<m>> \in Seq(Recorded)
      /\ s.position \in [Clients -> Int] /\ \A c \in Clients : s.position[c] <= h.lastIndex
  BY DEF Sound, Fits
<1>2. /\ f.messages = h.messages \o <<m>> /\ f.firstIndex = h.firstIndex /\ f.lastIndex = h.lastIndex + 1
  BY <1>1 DEF addMessageInternal, SoundHist, HistFields
<1>3. \A p : getBatch(g, p) = getBatch(f, p)
  BY <1>2 DEF Added, getBatch
<1> HIDE DEF f
<1>4. ASSUME NEW c \in Clients
      PROVE  getBatch(g, t.position[c]) = getBatch(h, s.position[c]) \o <<m>>
  <2> DEFINE p == s.position[c]
  <2>1. p \in Int /\ p <= h.lastIndex
    BY <1>1
  <2> HIDE DEF p
  <2>2. getBatch(f, p) = getBatch(h, p) \o <<m>>
    BY <1>1, <2>1, BatchAdded DEF f
  <2> QED BY <1>3, <2>2 DEF Added, p
<1>5. m \in Messages /\ <<m>> \in Seq(Messages)
  BY DEF Messages
<1>6. h.messages \in Seq(Messages)
  <2>1. Recorded \subseteq Messages
    BY DEF Messages
  <2> QED BY <1>1, <2>1, SeqOfMore
<1>7. ASSUME NEW r \in Readers, NEW q \in Seq(Messages)
      PROVE  Reading(r, q \o <<m>>) = Sees(Reading(r, q), m)
  <2>1. Reading(r, q) \in Readers /\ Reading(r, q \o <<m>>) = Reading(Reading(r, q), <<m>>)
    BY <1>5, ReadingParts
  <2> QED BY <1>5, <2>1, ReadingOne
<1>8. Late(t) = Sees(Late(s), m)
  <2>1. Blank \in Readers
    BY Reached
  <2> QED BY <1>6, <1>7, <2>1 DEF Late, Added
<1>9. ASSUME NEW c \in Clients
      PROVE  /\ End(t, k, c) = Sees(End(s, k, c), m) /\ Arrived(t, k, c) = Arrived(s, k, c)
  <2> DEFINE q == s.inbox[c]
             b == getBatch(h, s.position[c])
             r == Reader(k[c])
  <2>1. /\ r \in Readers /\ q \in Seq(Messages) /\ b \in Seq(Messages) /\ q \o b \in Seq(Messages)
    BY Reached DEF Flow
  <2>2. Arrived(t, k, c) = Arrived(s, k, c)
    BY DEF Arrived, Added
  <2>3. Flow(t, c) = q \o (b \o <<m>>)
    BY <1>4 DEF Flow, Added
  <2> HIDE DEF q, b, r
  <2>4. q \o (b \o <<m>>) = (q \o b) \o <<m>>
    BY <1>5, <2>1, ConcatAssociative
  <2>5. Reading(r, (q \o b) \o <<m>>) = Sees(Reading(r, q \o b), m)
    BY <1>7, <2>1
  <2> QED BY <2>2, <2>3, <2>4, <2>5 DEF End, Flow, q, b, r
<1>10. ASSUME h.resetStreamState # "None"
       PROVE  SubSeq(g.messages, 1, h.resetStreamIndex) = SubSeq(h.messages, 1, h.resetStreamIndex)
  <2> DEFINE q == h.messages
             i == h.resetStreamIndex
  <2>1. q \in Seq(Recorded) /\ i \in Nat /\ 1 \in Nat /\ 1 <= 1 /\ 1 <= i + 1 /\ i <= Len(q)
    BY <1>1, <1>10, LenProperties DEF SoundHist
  <2> HIDE DEF q, i
  <2>2. SubSeq(q \o <<m>>, 1, i) = SubSeq(q, 1, i)
    BY <1>1, <2>1, SliceOfFirst
  <2> QED BY <2>2 DEF Added, q, i
<1>11. g.messages \in Seq(Recorded)
  BY <1>1, ConcatProperties DEF Added
<1> QED BY <1>5, <1>8, <1>9, <1>10, <1>11

(* What is read when m has been added.                                     *)
SeenMore(s, t, k, m) ==
  /\ t.hist.messages \in Seq(Recorded)
  /\ Late(t) = Sees(Late(s), m)
  /\ \A d \in Clients : /\ End(t, k, d) = Sees(End(s, k, d), m)
                        /\ Arrived(t, k, d) = Arrived(s, k, d)

(* Those who get it see it.                                                *)
LEMMA AddedSees ==
  ASSUME NEW s, Sound(s), Fits(s), NEW k \in [Clients -> Views],
         NEW m \in Recorded, NEW t, Added(s, t, m)
  PROVE  SeenMore(s, t, k, m)
BY AddedReads DEF SeenMore

(* Whom a message leaves of the users.                                     *)
Amid(P, m) ==
  IF m.type = "Join" THEN P \cup {m.user} ELSE IF m.type = "Leave" THEN P \ {m.user} ELSE P

(* The users a message brings, and the canvas, are the same for all.       *)
LEMMA AlikeOn ==
  ASSUME NEW a \in Readers, NEW b \in Readers, NEW m \in Recorded, Alike(a, b)
  PROVE  /\ Alike(Sees(a, m), Sees(b, m)) /\ Sees(a, m).users = Amid(a.users, m)
         /\ m.type # "StreamStart" => Sees(a, m).starts = a.starts
<1>1. m \in Messages
  BY DEF Messages
<1>2. ASSUME NEW r \in Readers
      PROVE  /\ Sees(r, m).canvas = IF m.type = "Draw" THEN Append(r.canvas, m.n)
                                    ELSE IF m.type = "Image" THEN r.canvas \o m.canvas
                                    ELSE IF m.type = "Reset" THEN << >> ELSE r.canvas
             /\ Sees(r, m).users = Amid(r.users, m)
             /\ m.type # "StreamStart" => Sees(r, m).starts = r.starts
  <2>1. /\ Sees(r, m).users = IF m.type = "Join" THEN r.users \cup {m.user}
                              ELSE IF m.type = "Leave" THEN r.users \ {m.user} ELSE r.users
        /\ Sees(r, m).starts = IF m.type = "StreamStart"
                               THEN r.starts \cup {<<m.correlator, r.canvas>>} ELSE r.starts
    BY <1>1, SeesIs
  <2> QED BY <1>1, <2>1, SeesIs DEF Amid
<1>3. a.canvas = b.canvas /\ a.users = b.users
  BY DEF Alike
<1>4. Sees(a, m).canvas = Sees(b, m).canvas
  BY <1>2, <1>3
<1>5. Sees(a, m).users = Sees(b, m).users
  BY <1>2, <1>3
<1> QED BY <1>2, <1>4, <1>5 DEF Alike

(* A message that is added to the history keeps the session in step.       *)
LEMMA AddedKeeps ==
  ASSUME NEW s, NEW k, NEW P, NEW n, InStep(s, k, P, n), NEW m \in Recorded, m.type # "StreamStart",
         m.type = "Leave" => s.state = "Running",
         NEW t, t = [s EXCEPT !.hist = addMessageInternal(@, <<m>>)], NEW j \in Nat, Room(t, j)
  PROVE  InStep(t, k, Amid(P, m), j)
<1> DEFINE h == s.hist
           g == addMessageInternal(h, <<m>>)
           Q == Amid(P, m)
<1>1. /\ Sound(s) /\ Fits(s) /\ k \in [Clients -> Views] /\ P \subseteq Clients /\ SoundHist(h)
      /\ Agreed(s, k, P) /\ Forked(s) /\ Marked(s, k) /\ Dated(s, k)
      /\ Asking(s, k) /\ Armings(s) /\ Streamer(s, k)
  BY DEF InStep, Sound
<1>2. /\ SoundHist(g) /\ g.lastIndex = h.lastIndex + 1 /\ g.firstIndex = h.firstIndex
  <2>1. IsSequence(<<m>>) /\ Len(<<m>>) = 1
    BY Literals
  <2> DEFINE q == <<m>>
  <2> HIDE DEF q
  <2>2. IsSequence(q) /\ Len(q) = 1
    BY <2>1 DEF q
  <2>3. /\ SoundHist(addMessageInternal(h, q)) /\ addMessageInternal(h, q).firstIndex = h.firstIndex
        /\ addMessageInternal(h, q).lastIndex = h.lastIndex + 1
    <3>1. SoundHist(h)
      BY <1>1
    <3> HIDE DEF h, g
    <3> QED BY <2>2, <3>1, AddSound
  <2> QED BY <2>3 DEF q
<1>3. /\ g.messages = h.messages \o <<m>> /\ g.resetStream = h.resetStream
      /\ g.resetStreamState = h.resetStreamState /\ g.ctxId = h.ctxId
      /\ g.resetStreamIndex = h.resetStreamIndex
      /\ g.resetStreamMessageCount = h.resetStreamMessageCount
  BY <1>1 DEF addMessageInternal, SoundHist, HistFields
<1>4. /\ t.hist = g /\ t.clients = s.clients /\ t.payload = s.payload /\ t.inbox = s.inbox
      /\ t.position = s.position /\ t.flags = s.flags /\ t.status = s.status
      /\ t.state = s.state /\ t.resetstream = s.resetstream /\ t.candidates = s.candidates
  BY <1>1 DEF Sound, SessFields
<1>5. Sound(t)
  <2>1. g.lastIndex >= h.lastIndex
    BY <1>1, <1>2 DEF SoundHist
  <2> HIDE DEF g
  <2> QED BY <1>1, <1>2, <2>1, HistSound DEF g
<1> HIDE DEF g
<1>6. Added(s, t, m)
  BY <1>2, <1>3, <1>4 DEF Added
<1>7. /\ g.messages \in Seq(Recorded)
      /\ Late(t) = Sees(Late(s), m)
      /\ \A c \in Clients : /\ End(t, k, c) = Sees(End(s, k, c), m)
                            /\ Arrived(t, k, c) = Arrived(s, k, c)
      /\ h.resetStreamState # "None" =>
           SubSeq(g.messages, 1, h.resetStreamIndex) = SubSeq(h.messages, 1, h.resetStreamIndex)
  <2>1. /\ t.hist.messages \in Seq(Recorded)
        /\ Late(t) = Sees(Late(s), m)
        /\ \A c \in Clients : /\ End(t, k, c) = Sees(End(s, k, c), m)
                              /\ Arrived(t, k, c) = Arrived(s, k, c)
        /\ s.hist.resetStreamState # "None" =>
             SubSeq(t.hist.messages, 1, s.hist.resetStreamIndex)
               = SubSeq(s.hist.messages, 1, s.hist.resetStreamIndex)
    <3>1. Sound(s) /\ Fits(s) /\ k \in [Clients -> Views]
      BY <1>1
    <3>2. SeenMore(s, t, k, m)
      BY <1>6, <3>1, AddedSees
    <3> QED BY <1>1, <1>6, AddedReads, <3>2 DEF SeenMore
  <2> QED BY <1>4, <2>1
<1>8. Present(t) = Present(s) /\ Present(s) \subseteq Clients
  BY <1>1, <1>4, PresentClients DEF Present
<1>9. Fits(t)
  BY <1>1, <1>3, <1>4, <1>7, <1>8 DEF Fits
<1>10. Late(s) \in Readers /\ \A c \in Clients : End(s, k, c) \in Readers
  BY <1>1, Reached
<1>11. Late(t).users = Q /\ Late(t).starts = Late(s).starts
  BY <1>1, <1>7, <1>10, AlikeOn DEF Agreed, Alike
<1>12. ASSUME NEW c \in Present(s)
       PROVE  Alike(End(t, k, c), Late(t)) /\ End(t, k, c).starts = End(s, k, c).starts
  <2>1. c \in Clients /\ Alike(End(s, k, c), Late(s)) /\ End(s, k, c) \in Readers
    BY <1>1, <1>8, <1>10 DEF Agreed
  <2> QED BY <1>7, <1>10, <2>1, AlikeOn
<1>13. Q \subseteq Clients
  BY <1>1, MessageFields DEF Amid, Messages
<1>14. Agreed(t, k, Q)
  <2>1. t.state = "Reset" => P \subseteq Q
    BY <1>4 DEF Amid
  <2>2. t.state = "Reset" => \A c \in Present(s) : Arrived(t, k, c).users \subseteq P
    BY <1>1, <1>4, <1>7, <1>8 DEF Agreed
  <2> HIDE DEF Q
  <2> QED BY <1>8, <1>11, <1>12, <2>1, <2>2 DEF Agreed
<1>15. h.resetStreamState # "None" => ForkView(t) = ForkView(s) /\ ImageView(t) = ImageView(s)
  BY <1>3, <1>4, <1>7 DEF ForkView, ImageView
<1>16. Streaming(t) = Streaming(s) /\ (Streaming(s) => ForkView(t) = ForkView(s))
  BY <1>3, <1>4, <1>15 DEF Streaming
<1>17. Forked(t)
  <2>1. /\ t.hist.resetStreamState = h.resetStreamState
        /\ t.hist.resetStreamMessageCount = h.resetStreamMessageCount
    BY <1>3, <1>4
  <2>2. h.resetStreamState # "None" => ForkView(t) = ForkView(s) /\ ImageView(t) = ImageView(s)
    BY <1>15
  <2> QED BY <1>1, <2>1, <2>2 DEF Forked, Streaming
<1>18. Marked(t, k)
  BY <1>1, <1>4, <1>8, <1>11, <1>12, <1>16 DEF Marked, OfFork
<1>19. Dated(t, k)
  <2>1. \A i : StartsBelow(s, k, i) => StartsBelow(t, k, i)
    BY <1>8, <1>11, <1>12 DEF StartsBelow
  <2>2. Unstarted(t) => Unstarted(s)
    BY <1>4, <1>16 DEF Unstarted, Asked, Armed
  <2> QED BY <1>1, <1>4, <2>1, <2>2 DEF Dated
<1>20. Asking(t, k)
  BY <1>1, <1>4 DEF Asking, AskingOne, Asked, Armed
<1>21. Armings(t)
  <2>1. t.hist.ctxId = s.hist.ctxId
    BY <1>3, <1>4
  <2> QED BY <1>1, <1>4, <1>16, <2>1 DEF Armings, Armed
<1>22. Streamer(t, k)
  BY <1>1, <1>3, <1>4, <1>16 DEF Streamer
<1> QED BY <1>1, <1>5, <1>9, <1>13, <1>14, <1>17, <1>18, <1>19, <1>20, <1>21, <1>22 DEF InStep

----------------------------------------------------------------------------
(* New questions.                                                          *)

(* Nothing is known yet of a number that is above all the others.          *)
LEMMA AskedHigher ==
  ASSUME NEW q \in Seq(Messages), NEW v \in Views, NEW n \in Nat, AskedBelow(q, v, n)
  PROVE  /\ AskedBelow(q, v, n + 1) /\ AskedLast(q, n)
         /\ \A a : Answered(q, v, n, a)
<1>1. \A i \in 1 .. Len(q) : q[i].type = "Request" => q[i].correlator \in Nat /\ q[i].correlator < n
  <2>1. SUFFICES ASSUME NEW i \in 1 .. Len(q), q[i].type = "Request" PROVE q[i].correlator \in Nat
    BY DEF AskedBelow
  <2>2. q[i] \in Messages
    BY LenProperties, ElementOfSeq
  <2> QED BY <2>1, <2>2 DEF Messages, Recorded
<1>2. \A i \in 1 .. Len(v.up) : v.up[i].type = "Start" => v.up[i].correlator \in Nat /\ v.up[i].correlator < n
  <2>1. SUFFICES ASSUME NEW i \in 1 .. Len(v.up), v.up[i].type = "Start" PROVE v.up[i].correlator \in Nat
    BY DEF AskedBelow
  <2>2. v.up \in Seq(Requests)
    BY DEF Views
  <2>3. v.up[i] \in Requests
    BY <2>2, LenProperties, ElementOfSeq
  <2> QED BY <2>1, <2>3 DEF Requests, Images
<1>3. v.correlator \in Nat /\ v.correlator < n
  BY DEF AskedBelow, Views
<1>4. \A x \in Nat : x < n => x < n + 1 /\ x # n
  OBVIOUS
<1>5. AskedBelow(q, v, n + 1)
  BY <1>1, <1>2, <1>3, <1>4 DEF AskedBelow
<1>6. AskedLast(q, n)
  BY <1>1, <1>4 DEF AskedLast
<1>7. \A a : Answered(q, v, n, a)
  BY <1>2, <1>4 DEF Answered
<1> QED BY <1>5, <1>6, <1>7

(* A client is sent a question.                                            *)
LEMMA AskedOn ==
  ASSUME NEW q \in Seq(Messages), NEW v \in Views, NEW n \in Nat, AskedBelow(q, v, n), NEW m \in Messages
  PROVE  /\ Append(q, m) \in Seq(Messages)
         /\ m.type # "Request" => AskedBelow(Append(q, m), v, n)
         /\ m.type = "Request" /\ m.correlator = n =>
              AskedBelow(Append(q, m), v, n + 1) /\ AskedLast(Append(q, m), n)
              /\ \A a : Answered(Append(q, m), v, n, a)
<1> DEFINE r == Append(q, m)
           l == Len(q)
<1>1. /\ l \in Nat /\ Len(r) = l + 1 /\ r[l + 1] = m /\ \A i \in 1 .. l : r[i] = q[i]
  BY LenProperties, AppendProperties
<1>2. r \in Seq(Messages)
  BY AppendProperties
<1> HIDE DEF r, l
<1>3. \A i \in 1 .. Len(r) : i \in 1 .. l \/ i = l + 1
  BY <1>1
<1>4. AskedBelow(q, v, n) /\ AskedBelow(q, v, n + 1) /\ AskedLast(q, n)
  BY AskedHigher
<1>5. m.type # "Request" => AskedBelow(r, v, n)
  BY <1>1, <1>3, <1>4 DEF AskedBelow, l
<1>6. ASSUME m.type = "Request", m.correlator = n
      PROVE  AskedBelow(r, v, n + 1) /\ AskedLast(r, n) /\ \A a : Answered(r, v, n, a)
  <2>1. n < n + 1
    OBVIOUS
  <2>2. AskedBelow(r, v, n + 1)
    BY <1>1, <1>3, <1>4, <1>6, <2>1 DEF AskedBelow, l
  <2>3. AskedLast(r, n)
    <3>1. SUFFICES ASSUME NEW i \in 1 .. Len(r), NEW j \in 1 .. Len(r), i < j,
                          r[i].type = "Request", r[i].correlator = n
                   PROVE  FALSE
      BY DEF AskedLast
    <3>2. i \in 1 .. l
      BY <1>1, <3>1
    <3>3. q[i].type = "Request" /\ q[i].correlator = n
      BY <1>1, <3>1, <3>2
    <3>4. q[i].correlator < n
      BY <3>2, <3>3 DEF AskedBelow, l
    <3> QED BY <3>3, <3>4
  <2>4. \A a : Answered(r, v, n, a)
    <3>1. \A i \in 1 .. Len(v.up) : v.up[i].type = "Start" => v.up[i].correlator # n
      BY DEF AskedBelow
    <3> QED BY <3>1 DEF Answered
  <2> QED BY <2>2, <2>3, <2>4
<1> QED BY <1>2, <1>5, <1>6 DEF r

(* Nobody has read the start of a stream that there is not.                *)
LEMMA BelowMore ==
  ASSUME NEW r \in Readers, NEW n \in Nat, Below(n, r.starts)
  PROVE  Below(n + 1, r.starts)
<1>1. r.starts \subseteq Nat \X Seq(Nat)
  BY DEF Readers
<1>2. \A x \in r.starts : x[1] \in Nat
  BY <1>1
<1>3. \A x \in Nat : x < n => x < n + 1
  OBVIOUS
<1> QED BY <1>2, <1>3 DEF Below

(* What is before n is before n + 1.                                       *)
LEMMA StartsBelowMore ==
  ASSUME NEW s, Sound(s), Fits(s), NEW k \in [Clients -> Views], NEW n \in Nat, StartsBelow(s, k, n)
  PROVE  StartsBelow(s, k, n + 1)
<1>1. Late(s) \in Readers /\ \A c \in Present(s) : End(s, k, c) \in Readers
  BY Reached, PresentClients
<1> QED BY <1>1, BelowMore DEF StartsBelow

(* A question to some, which shows nothing.                                *)
AskedSome(s, t, m) ==
  /\ t.hist = s.hist /\ t.clients = s.clients /\ t.position = s.position /\ t.state = s.state
  /\ \A c \in Clients : t.inbox[c] = s.inbox[c] \/ t.inbox[c] = Append(s.inbox[c], m)

(* So all that is shown is the same.                                       *)
LEMMA AskedShows ==
  ASSUME NEW s, NEW k, NEW P, NEW n, InStep(s, k, P, n), ~Streaming(s),
         NEW t, Sound(t), Fits(t), NEW m \in Messages, Quiet(m), AskedSome(s, t, m)
  PROVE  /\ Agreed(t, k, P) /\ Forked(t) /\ Marked(t, k) /\ Streamer(t, k) /\ Room(t, n)
         /\ \A j : StartsBelow(s, k, j) => StartsBelow(t, k, j)
<1>1. /\ Sound(s) /\ Fits(s) /\ k \in [Clients -> Views] /\ n \in Nat /\ Room(s, n)
      /\ Agreed(s, k, P) /\ Forked(s)
  BY DEF InStep
<1>2. /\ t.hist = s.hist /\ t.clients = s.clients /\ t.position = s.position /\ t.state = s.state
      /\ \A c \in Clients : t.inbox[c] = s.inbox[c] \/ t.inbox[c] = Append(s.inbox[c], m)
  BY DEF AskedSome
<1>3. ASSUME NEW c \in Clients
      PROVE  Arrived(t, k, c) = Arrived(s, k, c) /\ End(t, k, c) = End(s, k, c)
  <2>1. s.inbox[c] \in Seq(Messages) /\ Reader(k[c]) \in Readers
    BY <1>1, Reached
  <2>2. Arrived(t, k, c) = Arrived(s, k, c)
    BY <1>2, <2>1, ReadingQuiet DEF Arrived
  <2>3. End(t, k, c) = Reading(Arrived(t, k, c), getBatch(t.hist, t.position[c]))
    BY <1>1, Reached
  <2>4. End(s, k, c) = Reading(Arrived(s, k, c), getBatch(s.hist, s.position[c]))
    BY <1>1, Reached
  <2> QED BY <1>2, <2>2, <2>3, <2>4
<1>4. Present(t) = Present(s) /\ Present(s) \subseteq Clients
  BY <1>1, <1>2, PresentClients DEF Present
<1>5. Late(t) = Late(s) /\ ForkView(t) = ForkView(s) /\ ImageView(t) = ImageView(s) /\ ~Streaming(t)
  BY <1>2 DEF Late, ForkView, ImageView, Streaming
<1>6. Agreed(t, k, P)
  BY <1>1, <1>2, <1>3, <1>4, <1>5 DEF Agreed
<1>7. Forked(t) /\ Marked(t, k) /\ Streamer(t, k)
  BY <1>1, <1>2, <1>5 DEF Forked, Marked, Streamer
<1>8. Room(t, n)
  BY <1>1, <1>2 DEF Room
<1>9. \A j : StartsBelow(s, k, j) => StartsBelow(t, k, j)
  BY <1>3, <1>4, <1>5 DEF StartsBelow
<1> QED BY <1>6, <1>7, <1>8, <1>9

(* The query of the operators who might reset.                             *)
LEMMA QueryKeeps ==
  ASSUME NEW s, NEW k, NEW P, NEW n, InStep(s, k, P, n)
  PROVE  InStep(checkAutoResetQuery(s), k, P, n)
<1> DEFINE p == s.payload + 1
           q == [s EXCEPT !.payload = @ + 1, !.candidates = << >>,
                          !.status = "Queried", !.timer = TRUE,
                          !.flags = [c \in Clients |->
                             IF c \in Present(s) \cap s.ops THEN {"Queried"} ELSE {}]]
           m == QueryMsg(p)
           cs == Present(s) \cap s.ops
           u == notifyAll(q)
           t == sendDirectMessages(u, cs, m)
<1>1. /\ Sound(s) /\ Fits(s) /\ k \in [Clients -> Views] /\ P \subseteq Clients /\ n \in Nat
      /\ Dated(s, k) /\ Asking(s, k) /\ Armings(s) /\ s.payload \in Nat /\ DOMAIN s = SessFields
  BY DEF InStep, Fits, Sound
<1>2. SUFFICES ASSUME s.status = "NotSent", checkAutoResetQuery(s) = t
               PROVE  InStep(t, k, P, n)
  <2>1. CASE checkAutoResetQuery(s) = s
    BY <2>1
  <2>2. CASE checkAutoResetQuery(s) # s
    <3>1. s.status = "NotSent" /\ checkAutoResetQuery(s) = sendDirectMessages(notifyAll(q), Present(q) \cap q.ops, QueryMsg(q.payload))
      BY <2>2 DEF checkAutoResetQuery
    <3>2. Present(q) = Present(s) /\ q.ops = s.ops /\ q.payload = p
      BY <1>1 DEF Present, SessFields
    <3> HIDE DEF q
    <3> QED BY <1>2, <3>1, <3>2
  <2> QED BY <2>1, <2>2
<1>3. p \in Nat /\ p > 0
  BY <1>1
<1>4. /\ u.hist = s.hist /\ u.clients = s.clients /\ u.payload = p /\ DOMAIN u = SessFields
      /\ u.position = s.position /\ u.status = "Queried" /\ u.state = s.state
      /\ u.resetstream = s.resetstream /\ u.candidates = << >> /\ u.ops = s.ops /\ u.inbox = s.inbox
      /\ u.flags = [c \in Clients |-> IF c \in cs THEN {"Queried"} ELSE {}]
  BY <1>1 DEF notifyAll, SessFields
<1> HIDE DEF u, p, q, cs
<1>5. Present(u) = Present(s)
  BY <1>4 DEF Present
<1>6. Sound(u)
  BY <1>1, <1>4, <1>5 DEF Sound, Statuses
<1>7. Fits(u)
  <2>1. << >> \in Seq(Int)
    OBVIOUS
  <2> QED BY <1>1, <1>3, <1>4, <1>5, <2>1 DEF Fits
<1>8. m \in Messages /\ Quiet(m) /\ m.type = "Query" /\ isControl(m)
  BY <1>3 DEF QueryMsg, Messages, Quiet, isControl
<1> HIDE DEF m
<1>9. cs \subseteq Present(u)
  BY <1>5 DEF cs
<1>10. /\ Sound(t) /\ Fits(t)
       /\ t.hist = u.hist /\ t.clients = u.clients /\ t.payload = u.payload
       /\ t.position = u.position /\ t.flags = u.flags /\ t.status = u.status
       /\ t.state = u.state
       /\ \A c \in Clients : t.inbox[c] = u.inbox[c] \/ t.inbox[c] = Append(u.inbox[c], m)
  BY <1>6, <1>7, <1>8, <1>9, DirectIs
<1> HIDE DEF t
<1>11. ~Streaming(s) /\ \A c \in Clients : ~Armed(s, c)
  BY <1>1, <1>2 DEF Armings
<1>12. AskedSome(s, t, m)
  BY <1>4, <1>10 DEF AskedSome
<1>13. /\ Agreed(t, k, P) /\ Forked(t) /\ Marked(t, k) /\ Streamer(t, k) /\ Room(t, n)
       /\ \A j : StartsBelow(s, k, j) => StartsBelow(t, k, j)
  BY <1>8, <1>10, <1>11, <1>12, AskedShows
<1>14. \A c \in Clients : ~Armed(t, c)
  <2>1. SUFFICES ASSUME NEW c \in Clients PROVE ~Armed(t, c)
    OBVIOUS
  <2>2. t.flags[c] = IF c \in cs THEN {"Queried"} ELSE {}
    BY <1>4, <1>10
  <2>3. "Awaiting" \notin t.flags[c]
    BY <2>2
  <2> QED BY <2>3 DEF Armed
<1>15. t.payload = p /\ t.status = "Queried" /\ ~Streaming(t)
  BY <1>4, <1>10, <1>11 DEF Streaming
<1>16. Armings(t)
  BY <1>14, <1>15 DEF Armings
<1>17. Dated(t, k)
  <2>1. StartsBelow(t, k, p)
    BY <1>1, <1>13 DEF Dated, p
  <2>2. StartsBelow(t, k, p + 1)
    BY <1>1, <1>3, <1>10, <2>1, StartsBelowMore
  <2> QED BY <1>15, <2>1, <2>2 DEF Dated
<1>18. ASSUME NEW c \in Clients PROVE AskingOne(t, k[c], c)
  <2> DEFINE o == s.inbox[c]
             r == t.inbox[c]
             v == k[c]
  <2>1. o \in Seq(Messages) /\ v \in Views /\ AskedBelow(o, v, p) /\ r \in Seq(Messages)
    BY <1>1, <1>10 DEF Asking, AskingOne, Fits, p
  <2>2. r = o \/ r = Append(o, m)
    BY <1>4, <1>10
  <2> HIDE DEF o, r, v
  <2>3. AskedBelow(r, v, p)
    <3>1. AskedBelow(Append(o, m), v, p)
      BY <1>3, <1>8, <2>1, AskedOn
    <3> QED BY <2>1, <2>2, <3>1
  <2>4. AskedBelow(r, v, p + 1) /\ AskedLast(r, p) /\ \A a : Answered(r, v, p, a)
    BY <1>3, <2>1, <2>3, AskedHigher
  <2> QED BY <1>15, <2>3, <2>4 DEF AskingOne, r, v
<1>19. Asking(t, k)
  BY <1>18 DEF Asking
<1> QED BY <1>1, <1>10, <1>13, <1>16, <1>17, <1>19 DEF InStep

----------------------------------------------------------------------------
(* Messages that are added.                                                *)

(* Less room is needed.                                                    *)
LEMMA LessRoom ==
  ASSUME NEW s, NEW k, NEW P, NEW n, InStep(s, k, P, n), NEW j \in Nat, j <= n
  PROVE  InStep(s, k, P, j)
<1>1. Room(s, n) /\ n \in Nat /\ s.hist.sizeInBytes \in Nat
  BY LenProperties DEF InStep, Sound, SoundHist, IsSequence
<1>2. Room(s, j)
  BY <1>1, SessionHistoryAssumption DEF Room
<1> QED BY <1>2 DEF InStep

(* A message that finds room.                                              *)
LEMMA RegularRoom ==
  ASSUME NEW s, Sound(s), NEW n \in Nat, Room(s, n), NEW m
  PROVE  LET t == [s EXCEPT !.hist = addMessageInternal(@, <<m>>)]
         IN  /\ hasRegularSpaceFor(s.hist, 1) => Room(t, n)
             /\ n >= 1 => Room(t, n - 1)
<1> DEFINE t == [s EXCEPT !.hist = addMessageInternal(@, <<m>>)]
           z == s.hist.sizeInBytes
<1>1. z \in Nat /\ SoundHist(s.hist)
  BY DEF Sound, SoundHist, IsSequence
<1>2. t.hist.sizeInBytes = z + 1
  <2>1. Len(<<m>>) = 1
    BY Literals
  <2>2. t.hist = addMessageInternal(s.hist, <<m>>)
    BY DEF Sound, SessFields
  <2>3. t.hist.sizeInBytes = z + Len(<<m>>)
    <3>1. \A h, q : SoundHist(h) => addMessageInternal(h, q).sizeInBytes = h.sizeInBytes + Len(q)
      BY DEF addMessageInternal, Size, SoundHist, HistFields
    <3> QED BY <1>1, <2>2, <3>1
  <2> QED BY <2>1, <2>3
<1> HIDE DEF t
<1>3. hasRegularSpaceFor(s.hist, 1) => SizeLimit = 0 \/ z + 1 <= SizeLimit
  BY SessionHistoryAssumption DEF hasRegularSpaceFor, hasSpaceFor
<1>4. SizeLimit = 0 \/ (z + n <= SizeLimit + EmergencySpace /\ n <= EmergencySpace)
  BY DEF Room
<1> HIDE DEF z
<1>5. SizeLimit \in Nat /\ EmergencySpace \in Nat
  BY SessionHistoryAssumption
<1>6. ASSUME hasRegularSpaceFor(s.hist, 1) PROVE Room(t, n)
  BY <1>1, <1>2, <1>3, <1>4, <1>5, <1>6 DEF Room
<1>7. ASSUME n >= 1 PROVE Room(t, n - 1)
  BY <1>1, <1>2, <1>4, <1>5, <1>7 DEF Room
<1> QED BY <1>6, <1>7 DEF t

(* A message is added if there is space, and the clients are sent it.      *)
LEMMA AddMessageKeeps ==
  ASSUME NEW s, NEW k, NEW P, NEW n, InStep(s, k, P, n), NEW m \in Recorded, m.type # "StreamStart",
         m.type = "Leave" => s.state = "Running"
  PROVE  /\ hasRegularSpaceFor(s.hist, 1) => InStep(addMessage(s, m), k, Amid(P, m), n)
         /\ ~IsEmergency(m) => InStep(addMessage(s, m), k, P, n)
         /\ n >= 1 => InStep(addEmergencyMessage(s, m), k, Amid(P, m), n - 1)
<1> DEFINE t == [s EXCEPT !.hist = addMessageInternal(@, <<m>>)]
<1>1. Sound(s) /\ n \in Nat /\ Room(s, n)
  BY DEF InStep
<1>2. /\ hasRegularSpaceFor(s.hist, 1) => Room(t, n)
      /\ n >= 1 => Room(t, n - 1)
  BY <1>1, RegularRoom
<1>3. ASSUME NEW j \in Nat, Room(t, j) PROVE InStep(newMessagesAvailable(t), k, Amid(P, m), j)
  <2>1. InStep(t, k, Amid(P, m), j)
    BY <1>3, AddedKeeps
  <2> HIDE DEF t
  <2> QED BY <2>1, NewMessagesKeeps
<1>4. ASSUME hasRegularSpaceFor(s.hist, 1) PROVE InStep(addMessage(s, m), k, Amid(P, m), n)
  <2>1. addMessage(s, m) = newMessagesAvailable(t)
    BY <1>4 DEF addMessage
  <2> QED BY <1>1, <1>2, <1>3, <1>4, <2>1
<1>5. ASSUME ~IsEmergency(m) PROVE InStep(addMessage(s, m), k, P, n)
  <2>1. Amid(P, m) = P
    BY <1>5 DEF IsEmergency, Amid
  <2>2. ~hasRegularSpaceFor(s.hist, 1) => addMessage(s, m) = s
    BY DEF addMessage
  <2> QED BY <1>4, <2>1, <2>2
<1>6. ASSUME n >= 1 PROVE InStep(addEmergencyMessage(s, m), k, Amid(P, m), n - 1)
  <2>1. addEmergencyMessage(s, m) = newMessagesAvailable(t)
    BY DEF addEmergencyMessage
  <2>2. n - 1 \in Nat
    BY <1>1, <1>6
  <2> QED BY <1>2, <1>3, <1>6, <2>1, <2>2
<1> QED BY <1>4, <1>5, <1>6

(* What is important is not lost while there is emergency space.           *)
LEMMA AddToHistoryKeeps ==
  ASSUME NEW s, NEW k, NEW P, NEW n, InStep(s, k, P, n), NEW m \in Recorded, m.type # "StreamStart",
         m.type = "Leave" => s.state = "Running"
  PROVE  /\ ~IsEmergency(m) => InStep(addToHistory(s, m), k, P, n)
         /\ n >= 1 => InStep(addToHistory(s, m), k, Amid(P, m), n - 1)
<1>1. n \in Nat /\ Room(s, n) /\ (n >= 1 => n - 1 \in Nat /\ n - 1 <= n)
  BY DEF InStep
<1>2. /\ hasRegularSpaceFor(s.hist, 1) => InStep(addMessage(s, m), k, Amid(P, m), n)
      /\ ~IsEmergency(m) => InStep(addMessage(s, m), k, P, n)
      /\ n >= 1 => InStep(addEmergencyMessage(s, m), k, Amid(P, m), n - 1)
  BY AddMessageKeeps
<1>3. ~IsEmergency(m) => Amid(P, m) = P
  BY DEF IsEmergency, Amid
<1>4. CASE hasRegularSpaceFor(s.hist, 1)
  <2>1. addToHistory(s, m) = checkAutoResetQuery(addMessage(s, m))
    BY <1>4 DEF addToHistory
  <2>2. InStep(addToHistory(s, m), k, Amid(P, m), n)
    BY <1>2, <1>4, <2>1, QueryKeeps
  <2>3. n >= 1 => InStep(addToHistory(s, m), k, Amid(P, m), n - 1)
    BY <1>1, <2>2, LessRoom
  <2> QED BY <1>3, <2>2, <2>3
<1>5. CASE ~hasRegularSpaceFor(s.hist, 1) /\ ~IsEmergency(m)
  <2>1. addToHistory(s, m) = notifyAll(s)
    BY <1>5 DEF addToHistory
  <2>2. InStep(notifyAll(s), k, P, n)
    BY NotifyKeeps
  <2> QED BY <1>1, <1>3, <1>5, <2>1, <2>2, LessRoom
<1>6. CASE ~hasRegularSpaceFor(s.hist, 1) /\ IsEmergency(m)
  <2>1. n >= 1 => hasEmergencySpaceFor(s.hist, 1)
    <3>1. s.hist.sizeInBytes \in Nat
      BY DEF InStep, Sound, SoundHist, IsSequence
    <3> QED BY <1>1, <3>1, SessionHistoryAssumption DEF Room, hasEmergencySpaceFor, hasSpaceFor
  <2> DEFINE t == addEmergencyMessage(s, m)
             Q == Amid(P, m)
             j == n - 1
  <2>2. n >= 1 => addToHistory(s, m) = notifyAll(t)
    BY <1>6, <2>1 DEF addToHistory
  <2>3. n >= 1 => InStep(t, k, Q, j)
    BY <1>2
  <2> HIDE DEF t, Q, j
  <2>4. n >= 1 => InStep(notifyAll(t), k, Q, j)
    BY <2>3, NotifyKeeps
  <2> QED BY <1>6, <2>2, <2>4 DEF Q, j
<1> QED BY <1>4, <1>5, <1>6

----------------------------------------------------------------------------
(* Full resets.                                                            *)

(* Pictures bring no users and no starts.                                  *)
LEMMA ReadingPictures ==
  ASSUME NEW r \in Readers, NEW ms \in Seq(Pictures)
  PROVE  Reading(r, ms).users = r.users
<1> DEFINE Rel == {z \in Readers \X Readers : z[1].users = r.users}
<1>1. Pictures \subseteq Messages /\ <<r, r>> \in Rel
  BY MessageSets
<1>2. ASSUME NEW x \in Readers, NEW y \in Readers, NEW m \in Pictures, <<x, y>> \in Rel
      PROVE  <<Sees(x, m), Sees(y, m)>> \in Rel
  <2>1. m \in Messages /\ m.type \notin {"Join", "Leave"}
    BY <1>1 DEF Pictures
  <2>2. Sees(x, m) \in Readers /\ Sees(y, m) \in Readers /\ Sees(x, m).users = x.users
    BY <2>1, SeesIs
  <2> QED BY <1>2, <2>2
<1> HIDE DEF Rel
<1>3. <<Reading(r, ms), Reading(r, ms)>> \in Rel
  BY <1>1, <1>2, Related
<1> QED BY <1>3 DEF Rel

(* What the image of a full reset shows.                                   *)
LEMMA ImageShows ==
  ASSUME NEW s, Sound(s), Fits(s), NEW r \in Readers
  PROVE  LET image == serverSideStateMessages(s) \o s.resetstream
         IN  /\ image \in Seq(Recorded) /\ image \in Seq(Messages)
             /\ Reading(r, image).users = r.users \cup Present(s)
             /\ Reading(r, image).starts = r.starts
<1> DEFINE a == serverSideStateMessages(s)
           b == s.resetstream
<1>1. a \in Seq(Snapshots) /\ b \in Seq(Pictures) /\ Reading(r, a).users = r.users \cup Present(s)
  BY ReadingUsers DEF Fits
<1>2. /\ Snapshots \subseteq Recorded /\ Pictures \subseteq Recorded
      /\ Recorded \subseteq Messages /\ Snapshots \subseteq Startless /\ Pictures \subseteq Startless
      /\ Startless \subseteq Messages
  BY DEF Messages, Snapshots, Pictures, Startless
<1>3. a \in Seq(Recorded) /\ b \in Seq(Recorded) /\ a \in Seq(Startless) /\ b \in Seq(Startless)
  BY <1>1, <1>2, SeqOfMore
<1>4. a \in Seq(Messages) /\ b \in Seq(Messages)
  BY <1>2, <1>3, SeqOfMore
<1> HIDE DEF a, b
<1>5. a \o b \in Seq(Recorded) /\ a \o b \in Seq(Startless) /\ a \o b \in Seq(Messages)
  BY <1>3, <1>4, ConcatProperties
<1>6. Reading(r, a) \in Readers /\ Reading(r, a \o b) = Reading(Reading(r, a), b)
  BY <1>4, ReadingParts
<1>7. Reading(Reading(r, a), b).users = Reading(r, a).users
  BY <1>1, <1>6, ReadingPictures
<1>8. Reading(r, a \o b).starts = r.starts
  BY <1>5, ReadingWithout
<1> QED BY <1>1, <1>5, <1>6, <1>7, <1>8 DEF a, b

(* The image takes the place of the history, and all blank their canvas.   *)
LEMMA ImageKeeps ==
  ASSUME NEW s, NEW k, NEW n, InStep(s, k, Present(s), n), s.state = "Reset",
         s.hist.resetStreamState = "None",
         NEW image, image = serverSideStateMessages(s) \o s.resetstream, resetOk(image)
  PROVE  InStep(directToAll([s EXCEPT !.hist = reset(@, image)], ResetMsg), k, Present(s), n)
<1> DEFINE h == s.hist
           g == reset(h, image)
           u == [s EXCEPT !.hist = reset(@, image)]
           t == directToAll(u, ResetMsg)
           P == Present(s)
           m == ResetMsg
<1>1. /\ Sound(s) /\ Fits(s) /\ k \in [Clients -> Views] /\ P \subseteq Clients /\ n \in Nat /\ Room(s, n)
      /\ SoundHist(h) /\ Agreed(s, k, P)
      /\ s.position \in [Clients -> Int] /\ \A c \in Clients : s.position[c] <= h.lastIndex
  BY DEF InStep, Sound
<1>2. /\ image \in Seq(Recorded) /\ image \in Seq(Messages)
      /\ \A r \in Readers : /\ Reading(r, image).users = r.users \cup P
                            /\ Reading(r, image).starts = r.starts
  <2>1. ASSUME NEW r \in Readers
        PROVE  /\ image \in Seq(Recorded) /\ image \in Seq(Messages)
               /\ Reading(r, image).users = r.users \cup P
               /\ Reading(r, image).starts = r.starts
    BY <1>1, ImageShows
  <2>2. Blank \in Readers
    BY NewClientView, ReaderIs DEF Blank
  <2> QED BY <2>1, <2>2
<1>3. /\ SoundHist(g) /\ g.resetStreamState = "None" /\ g.lastIndex >= h.lastIndex
  BY <1>1, <1>2, InSequence, ResetSound
<1>4. /\ g.messages = image /\ g.resetStream = h.resetStream /\ g.firstIndex = h.lastIndex + 1
      /\ g.resetStreamMessageCount = h.resetStreamMessageCount /\ g.sizeInBytes = Size(image)
  <2>1. abortStreamedReset(h, -1) = h
    BY DEF abortStreamedReset, StreamedResetBy
  <2> QED BY <1>1, <2>1 DEF reset, SoundHist, HistFields
<1>5. /\ u.hist = g /\ u.clients = s.clients /\ u.payload = s.payload /\ u.inbox = s.inbox
      /\ u.position = s.position /\ u.flags = s.flags /\ u.status = s.status
      /\ u.state = s.state /\ u.resetstream = s.resetstream /\ u.candidates = s.candidates
  BY <1>1 DEF Sound, SessFields
<1>6. Sound(u)
  BY <1>1, <1>3, HistSound DEF g
<1> HIDE DEF u, g
<1>7. Present(u) = P
  BY <1>5 DEF Present
<1>8. Fits(u)
  BY <1>1, <1>2, <1>4, <1>5, <1>7 DEF Fits
<1>9. m \in Messages /\ m.type = "Reset" /\ isControl(m)
  BY DEF ResetMsg, Messages, isControl
<1> HIDE DEF m
<1>10. t = sendDirectMessages(u, Present(u), m)
  BY DEF directToAll, m
<1> HIDE DEF t
<1>11. /\ Sound(t) /\ Fits(t)
       /\ t.hist = g /\ t.clients = s.clients /\ t.payload = s.payload
       /\ t.position = s.position /\ t.flags = s.flags /\ t.status = s.status
       /\ t.state = s.state
       /\ \A c \in Clients : t.inbox[c] = s.inbox[c] \/ t.inbox[c] = Append(s.inbox[c], m)
       /\ \A c \in P : t.inbox[c] = Append(s.inbox[c], m)
  <2>1. LET v == sendDirectMessages(u, Present(u), m)
        IN  /\ Sound(v) /\ Fits(v)
            /\ v.hist = u.hist /\ v.clients = u.clients /\ v.payload = u.payload
            /\ v.position = u.position /\ v.flags = u.flags /\ v.status = u.status
            /\ v.state = u.state
            /\ \A c \in Clients : v.inbox[c] = u.inbox[c] \/ (c \in Present(u) /\ v.inbox[c] = Append(u.inbox[c], m))
            /\ isControl(m) => \A c \in Clients \cap Present(u) : v.inbox[c] = Append(u.inbox[c], m)
    <3> DEFINE cs == Present(u)
    <3>1. cs \subseteq Present(u)
      OBVIOUS
    <3> HIDE DEF cs
    <3>2. LET v == sendDirectMessages(u, cs, m)
          IN  /\ Sound(v) /\ Fits(v)
              /\ v.hist = u.hist /\ v.clients = u.clients /\ v.payload = u.payload
              /\ v.position = u.position /\ v.flags = u.flags /\ v.status = u.status
              /\ v.state = u.state
              /\ \A c \in Clients : v.inbox[c] = u.inbox[c] \/ (c \in cs /\ v.inbox[c] = Append(u.inbox[c], m))
              /\ isControl(m) => \A c \in Clients \cap cs : v.inbox[c] = Append(u.inbox[c], m)
      <4>1. Sound(u) /\ Fits(u) /\ m \in Messages
        BY <1>6, <1>8, <1>9
      <4>2. Directed(u, sendDirectMessages(u, cs, m), cs, m)
        BY <3>1, <4>1, DirectGets
      <4> QED BY <4>2 DEF Directed
    <3> QED BY <3>2 DEF cs
  <2>2. /\ Sound(t) /\ Fits(t)
        /\ t.hist = u.hist /\ t.clients = u.clients /\ t.payload = u.payload
        /\ t.position = u.position /\ t.flags = u.flags /\ t.status = u.status
        /\ t.state = u.state
        /\ \A c \in Clients : t.inbox[c] = u.inbox[c] \/ (c \in Present(u) /\ t.inbox[c] = Append(u.inbox[c], m))
        /\ \A c \in Clients \cap Present(u) : t.inbox[c] = Append(u.inbox[c], m)
    BY <1>9, <1>10, <2>1
  <2> QED BY <1>1, <1>5, <1>7, <2>2
<1>12. /\ Late(s) \in Readers /\ Blank \in Readers /\ Blank.canvas = << >> /\ Blank.users = {}
  BY <1>1, Reached, NewClientView, ReaderIs DEF Blank
<1>13. Late(t) = Reading(Blank, image) /\ Late(t).users = P /\ Late(t).starts = Blank.starts
  BY <1>2, <1>4, <1>11, <1>12 DEF Late
<1>14. Blank.starts \subseteq Late(s).starts
  <2>1. s.hist.messages \in Seq(Messages)
    BY <1>1, MessageSets, SeqOfMore DEF Fits
  <2> QED BY <1>12, <2>1, ReadingSame DEF Late
<1>15. ASSUME NEW c \in P
       PROVE  /\ Alike(End(t, k, c), Late(t)) /\ Arrived(t, k, c).users \subseteq P
              /\ End(t, k, c).starts \subseteq End(s, k, c).starts
  <2> DEFINE q == s.inbox[c]
             r == Reader(k[c])
             x == Arrived(s, k, c)
             y == Arrived(t, k, c)
             b == getBatch(h, s.position[c])
  <2>1. /\ c \in Clients /\ q \in Seq(Messages) /\ r \in Readers /\ x \in Readers /\ x = Reading(r, q)
        /\ b \in Seq(Messages) /\ End(s, k, c) = Reading(x, b)
    BY <1>1, Reached DEF Arrived
  <2>2. y = Sees(x, m)
    <3>2. y = Reading(r, Append(q, m))
      BY <1>11 DEF Arrived
    <3> HIDE DEF q, r, x, y
    <3>1. <<m>> \in Seq(Messages) /\ Append(q, m) = q \o <<m>>
      BY <1>9, <2>1, AppendIsConcat
    <3>3. Reading(r, q \o <<m>>) = Reading(x, <<m>>)
      BY <2>1, <3>1, ReadingParts
    <3>4. Reading(x, <<m>>) = Sees(x, m)
      BY <1>9, <2>1, ReadingOne
    <3> QED BY <3>1, <3>2, <3>3, <3>4
  <2>3. y \in Readers /\ y.canvas = << >> /\ y.users = x.users /\ y.starts = x.starts
    <3> HIDE DEF x, y
    <3> QED BY <1>9, <2>1, <2>2, SeesIs
  <2>4. End(t, k, c) = Reading(y, image)
    <3>1. End(t, k, c) = Reading(y, getBatch(g, s.position[c]))
      BY <1>1, <1>11, <2>1, Reached
    <3>2. getBatch(g, s.position[c]) = g.messages
      <4> DEFINE p == s.position[c]
      <4>1. p \in Int /\ p <= h.lastIndex /\ h.lastIndex \in Int /\ g.lastIndex \in Int
        BY <1>1, <1>3, <2>1 DEF SoundHist
      <4> HIDE DEF p, h
      <4>2. p < g.firstIndex /\ p <= g.lastIndex
        BY <1>3, <1>4, <4>1
      <4>3. g.messages \in Seq(Recorded)
        BY <1>2, <1>4
      <4>4. getBatch(g, p) = g.messages
        BY <1>3, <4>1, <4>2, <4>3, BatchEnds
      <4> QED BY <4>4 DEF p
    <3> QED BY <1>4, <3>1, <3>2
  <2>5. x.users \subseteq P
    BY <1>1 DEF Agreed
  <2>6. x.starts \subseteq End(s, k, c).starts
    <3> HIDE DEF x
    <3> QED BY <2>1, ReadingSame
  <2> HIDE DEF x, y
  <2>7. Reading(y, image).canvas = Reading(Blank, image).canvas
    <3>1. y \in Readers /\ Blank \in Readers /\ image \in Seq(Messages) /\ y.canvas = Blank.canvas
      BY <1>2, <1>12, <2>3
    <3> QED BY <3>1, ReadingSame
  <2>8. Reading(y, image).users = P /\ Reading(y, image).starts = y.starts
    BY <1>2, <2>3, <2>5
  <2> QED BY <1>13, <2>3, <2>4, <2>5, <2>6, <2>7, <2>8 DEF Alike, y
<1>16. Present(t) = P
  BY <1>11 DEF Present
<1>17. Agreed(t, k, P)
  BY <1>13, <1>15, <1>16 DEF Agreed
<1>18. NoNewStarts(s, t, k)
  BY <1>13, <1>14, <1>15, <1>16 DEF NoNewStarts
<1>19. SameFork(s, t) /\ Meek(s, t)
  BY <1>3, <1>11 DEF SameFork, Meek, Asked, Armed, Streaming, Unstarted
<1>20. Sent(s, t)
  <2>1. ~Asks(m)
    BY <1>9 DEF Asks
  <2>2. \A c \in Clients : s.inbox[c] \in Seq(Messages)
    BY <1>1 DEF Fits
  <2> QED BY <1>9, <1>11, <2>1, <2>2, GrownBy DEF Sent
<1>21. Room(t, n)
  <2>1. Size(image) \in Nat /\ (SizeLimit = 0 \/ Size(image) <= SizeLimit)
    BY <1>2, LenProperties DEF resetOk, Size
  <2> QED BY <1>1, <1>4, <1>11, <2>1, SessionHistoryAssumption DEF Room
<1> QED BY <1>1, <1>11, <1>17, <1>18, <1>19, <1>20, <1>21, GentleKeeps DEF t, u, m

(* The session, with the image as its history.                             *)
LEMMA PerformResetKeeps ==
  ASSUME NEW s, NEW k, NEW n, InStep(s, k, Present(s), n), s.state = "Reset",
         s.hist.resetStreamState = "None"
  PROVE  InStep(performReset(s), k, Present(s), n)
<1> DEFINE image == serverSideStateMessages(s) \o s.resetstream
           P == Present(s)
           t == directToAll([s EXCEPT !.hist = reset(@, image)], ResetMsg)
           u == notifyAll(clearAutoReset(t, FALSE))
<1>1. CASE s.resetstream = << >>
  BY <1>1 DEF performReset
<1>2. CASE s.resetstream # << >> /\ ~resetOk(image)
  <2>1. performReset(s) = notifyAll(s)
    BY <1>2 DEF performReset
  <2> QED BY <2>1, NotifyKeeps
<1>3. CASE s.resetstream # << >> /\ resetOk(image)
  <2>1. performReset(s) = addMessage(u, CaughtUpMsg)
    BY <1>3 DEF performReset, onSessionReset
  <2>2. InStep(t, k, P, n)
    BY <1>3, ImageKeeps
  <2> HIDE DEF t, P
  <2>3. InStep(u, k, P, n)
    BY <2>2, ClearedKeeps, NotifyKeeps
  <2> DEFINE m == CaughtUpMsg
  <2>4. m \in Recorded /\ m.type # "StreamStart" /\ m.type # "Leave" /\ ~IsEmergency(m)
    BY DEF CaughtUpMsg, Recorded, IsEmergency
  <2> HIDE DEF u, m
  <2>5. InStep(addMessage(u, m), k, P, n)
    BY <2>3, <2>4, AddMessageKeeps
  <2> QED BY <2>1, <2>5 DEF m, P
<1> QED BY <1>1, <1>2, <1>3

(* The session goes on, with the image or without one.                     *)
LEMMA RunningKeeps ==
  ASSUME NEW s, NEW k, NEW P, NEW n, InStep(s, k, P, n), s.hist.resetStreamState = "None",
         s.resetstream # << >> => s.state = "Reset" /\ P = Present(s)
  PROVE  /\ InStep(switchToRunning(s), k, P, n)
         /\ s.resetstream = << >> => switchToRunning(s).clients = s.clients /\ switchToRunning(s).state = "Running"
<1> DEFINE a == [s EXCEPT !.initUser = NoUser]
           r == performReset(a)
           u == [r EXCEPT !.resetstream = << >>, !.state = "Running"]
<1>1. Sound(s) /\ Fits(s) /\ SoundHist(s.hist)
  BY DEF InStep, Sound
<1>2. /\ a.hist = s.hist /\ a.clients = s.clients /\ a.payload = s.payload /\ a.inbox = s.inbox
      /\ a.position = s.position /\ a.flags = s.flags /\ a.status = s.status /\ DOMAIN a = SessFields
      /\ a.state = s.state /\ a.resetstream = s.resetstream /\ a.candidates = s.candidates /\ a.ops = s.ops
  BY <1>1 DEF Sound, SessFields
<1> HIDE DEF a
<1>3. Present(a) = Present(s)
  BY <1>2 DEF Present
<1>4. Sound(a)
  BY <1>1, <1>2, <1>3 DEF Sound
<1>5. Plain(s, a)
  BY <1>1, <1>2 DEF Plain, Fits
<1>6. InStep(a, k, P, n)
  BY <1>4, <1>5, PlainKeeps
<1>7. a.resetstream = << >> => r = a
  BY DEF performReset
<1>8. InStep(r, k, P, n)
  <2>1. CASE a.resetstream = << >>
    BY <1>6, <1>7, <2>1
  <2>2. CASE a.resetstream # << >>
    <3>1. P = Present(a) /\ a.state = "Reset" /\ a.hist.resetStreamState = "None"
      BY <1>2, <1>3, <2>2
    <3> HIDE DEF r
    <3> QED BY <1>6, <3>1, PerformResetKeeps DEF r
  <2> QED BY <2>1, <2>2
<1> HIDE DEF r
<1>9. Sound(r) /\ Fits(r)
  BY <1>8 DEF InStep
<1>10. /\ u.hist = r.hist /\ u.clients = r.clients /\ u.payload = r.payload /\ u.inbox = r.inbox
       /\ u.position = r.position /\ u.flags = r.flags /\ u.status = r.status /\ DOMAIN u = SessFields
       /\ u.state = "Running" /\ u.resetstream = << >> /\ u.candidates = r.candidates /\ u.ops = r.ops
  BY <1>9 DEF Sound, SessFields
<1> HIDE DEF u
<1>11. << >> \in Seq(Pictures)
  OBVIOUS
<1>12. Sound(u)
  <2>1. Present(u) = Present(r)
    BY <1>10 DEF Present
  <2> QED BY <1>9, <1>10, <1>11, <2>1, InSequence DEF Sound
<1>13. Plain(r, u)
  BY <1>9, <1>10, <1>11 DEF Plain, Fits
<1>14. InStep(u, k, P, n)
  BY <1>8, <1>12, <1>13, PlainKeeps
<1>15. switchToRunning(s) = clearAutoReset(u, FALSE)
  BY DEF switchToRunning, u, r, a
<1>16. InStep(clearAutoReset(u, FALSE), k, P, n)
  BY <1>14, ClearedKeeps
<1>17. SameUsers(u, clearAutoReset(u, FALSE))
  BY <1>12, ClearSound
<1> QED BY <1>2, <1>7, <1>10, <1>15, <1>16, <1>17 DEF SameUsers

(* A full reset is given up.                                               *)
LEMMA AbortResetKeeps ==
  ASSUME NEW s, NEW k, NEW P, NEW n, InStep(s, k, P, n), s.hist.resetStreamState = "None"
  PROVE  InStep(abortReset(s), k, P, n) /\ abortReset(s).clients = s.clients /\ abortReset(s).state = "Running"
<1> DEFINE a == [s EXCEPT !.resetstream = << >>]
           b == switchToRunning(a)
<1>1. Sound(s) /\ Fits(s)
  BY DEF InStep
<1>2. /\ a.hist = s.hist /\ a.clients = s.clients /\ a.payload = s.payload /\ a.inbox = s.inbox
      /\ a.position = s.position /\ a.flags = s.flags /\ a.status = s.status /\ DOMAIN a = SessFields
      /\ a.state = s.state /\ a.resetstream = << >> /\ a.candidates = s.candidates /\ a.ops = s.ops
  BY <1>1 DEF Sound, SessFields
<1> HIDE DEF a
<1>3. << >> \in Seq(Pictures) /\ Present(a) = Present(s)
  BY <1>2 DEF Present
<1>4. Sound(a)
  BY <1>1, <1>2, <1>3, InSequence DEF Sound
<1>5. Plain(s, a)
  BY <1>1, <1>2, <1>3 DEF Plain, Fits
<1>6. InStep(a, k, P, n)
  BY <1>4, <1>5, PlainKeeps
<1>7. InStep(b, k, P, n) /\ b.clients = a.clients /\ b.state = "Running"
  BY <1>2, <1>6, RunningKeeps
<1> HIDE DEF b
<1>8. InStep(notifyAll(b), k, P, n)
  BY <1>7, NotifyKeeps
<1>9. SameUsers(b, notifyAll(b))
  BY <1>7, NotifyUntouched DEF InStep, Untouched
<1>10. abortReset(s) = notifyAll(b)
  BY DEF abortReset, a, b
<1> QED BY <1>2, <1>7, <1>8, <1>9, <1>10 DEF SameUsers

(* A full reset is asked for when nobody is to be sent a leave yet.        *)
NoLeaves(s) ==
  \A c \in Present(s) : \A m \in ToSet(getBatch(s.hist, s.position[c])) : m.type # "Leave"

(* The session stops for a full reset while no leave is under way.         *)
LEMMA StoppedKeeps ==
  ASSUME NEW s, NEW k, NEW P, NEW n, InStep(s, k, P, n), NoLeaves(s), NEW c
  PROVE  InStep([s EXCEPT !.initUser = c, !.state = "Reset", !.resetstream = << >>], k, P, n)
<1> DEFINE t == [s EXCEPT !.initUser = c, !.state = "Reset", !.resetstream = << >>]
<1>1. Sound(s) /\ Fits(s) /\ k \in [Clients -> Views] /\ P \subseteq Clients /\ Agreed(s, k, P) /\ n \in Nat /\ Room(s, n)
  BY DEF InStep
<1>2. /\ t.hist = s.hist /\ t.clients = s.clients /\ t.payload = s.payload /\ t.inbox = s.inbox
      /\ t.position = s.position /\ t.flags = s.flags /\ t.status = s.status /\ DOMAIN t = SessFields
      /\ t.state = "Reset" /\ t.resetstream = << >> /\ t.candidates = s.candidates /\ t.ops = s.ops
  BY <1>1 DEF Sound, SessFields
<1> HIDE DEF t
<1>3. << >> \in Seq(Pictures) /\ Present(t) = Present(s) /\ Present(s) \subseteq Clients
  BY <1>1, <1>2, PresentClients DEF Present
<1>4. Sound(t)
  BY <1>1, <1>2, <1>3, InSequence DEF Sound
<1>5. Fits(t)
  BY <1>1, <1>2, <1>3 DEF Fits
<1>6. /\ Late(t) = Late(s)
      /\ \A d \in Clients : End(t, k, d) = End(s, k, d) /\ Arrived(t, k, d) = Arrived(s, k, d)
  BY <1>2 DEF Late, End, Arrived, Flow
<1>7. ASSUME NEW d \in Present(s) PROVE Arrived(s, k, d).users \subseteq P
  <2> DEFINE b == getBatch(s.hist, s.position[d])
             x == Arrived(s, k, d)
  <2>1. d \in Clients /\ x \in Readers /\ b \in Seq(Messages) /\ End(s, k, d) = Reading(x, b) /\ Blank \in Readers
    BY <1>1, <1>3, Reached
  <2>2. Blank.users = {}
    BY NewClientView, ReaderIs DEF Blank
  <2>3. \A m \in ToSet(b) : m.type # "Leave"
    BY DEF NoLeaves
  <2> HIDE DEF b, x
  <2>4. b \in Seq(Leaveless)
    <3>1. Len(b) \in Nat /\ DOMAIN b = 1 .. Len(b) /\ b = [i \in 1 .. Len(b) |-> b[i]]
      BY <2>1, LenProperties
    <3>2. \A i \in 1 .. Len(b) : b[i] \in Leaveless
      <4>1. SUFFICES ASSUME NEW i \in 1 .. Len(b) PROVE b[i] \in Leaveless
        OBVIOUS
      <4>2. b[i] \in Messages
        BY <2>1, ElementOfSeq
      <4>3. b[i] \in ToSet(b)
        BY <3>1 DEF ToSet
      <4> QED BY <2>3, <4>2, <4>3 DEF Leaveless
    <3>3. b \in [1 .. Len(b) -> Leaveless]
      BY <3>1, <3>2
    <3> QED BY <3>1, <3>3, IsASeq
  <2>5. Reading(x, b).users = x.users \cup Reading(Blank, b).users
    BY <2>1, <2>2, <2>4, ReadingWithout
  <2>6. Reading(x, b).users = P
    BY <1>1, <2>1 DEF Agreed, Alike
  <2> QED BY <2>5, <2>6 DEF x
<1>8. Agreed(t, k, P)
  BY <1>1, <1>3, <1>6, <1>7 DEF Agreed
<1>9. NoNewStarts(s, t, k)
  BY <1>3, <1>6 DEF NoNewStarts
<1>10. SameFork(s, t) /\ Meek(s, t)
  BY <1>2 DEF SameFork, Meek, ImageView, ForkView, Asked, Armed, Streaming, Unstarted
<1>11. Sent(s, t)
  BY <1>1, <1>2, GrownBy DEF Sent, Fits
<1>12. Room(t, n)
  BY <1>1, <1>2 DEF Room
<1> QED BY <1>1, <1>2, <1>4, <1>5, <1>8, <1>9, <1>10, <1>11, <1>12, GentleKeeps DEF t

(* An operator asks for a full reset.                                      *)
LEMMA ResetSessionKeeps ==
  ASSUME NEW s, NEW k, NEW P, NEW n, InStep(s, k, P, n), NoLeaves(s), NEW c \in Present(s)
  PROVE  InStep(resetSession(s, c), k, P, n)
<1> DEFINE a == [s EXCEPT !.initUser = c, !.state = "Reset", !.resetstream = << >>]
           b == clearAutoReset(a, FALSE)
           u == notifyAll(b)
           m == InitMsg
           cs == {c}
<1>1. CASE s.state # "Running"
  BY <1>1 DEF resetSession
<1>2. CASE s.state = "Running"
  <2>1. Sound(s) /\ DOMAIN s = SessFields
    BY DEF InStep, Sound
  <2>2. [[s EXCEPT !.initUser = c] EXCEPT !.state = "Reset", !.resetstream = << >>] = a
    BY <2>1 DEF SessFields
  <2>3. resetSession(s, c) = sendDirectMessages(u, cs, m)
    BY <1>2, <2>2 DEF resetSession, switchToReset, sendDirectMessage
  <2>4. InStep(a, k, P, n) /\ a.clients = s.clients
    BY <2>1, StoppedKeeps DEF SessFields
  <2> HIDE DEF a
  <2>5. InStep(b, k, P, n) /\ b.clients = a.clients
    BY <2>4, ClearedKeeps, ClearSound DEF InStep, SameUsers
  <2> HIDE DEF b
  <2>6. InStep(u, k, P, n) /\ u.clients = b.clients
    BY <2>5, NotifyKeeps, NotifyUntouched DEF InStep, Untouched, SameUsers
  <2>7. cs \subseteq Present(u)
    BY <2>4, <2>5, <2>6 DEF Present
  <2>8. m \in Messages /\ Quiet(m) /\ ~Asks(m)
    BY DEF InitMsg, Messages, Quiet, Asks
  <2> HIDE DEF u, m, cs
  <2>9. InStep(sendDirectMessages(u, cs, m), k, P, n)
    BY <2>6, <2>7, <2>8, DirectKeeps
  <2> QED BY <2>3, <2>9
<1>3. s.state = "Running" \/ s.state # "Running"
  OBVIOUS
<1> QED BY <1>1, <1>2, <1>3

----------------------------------------------------------------------------
(* Users who leave.                                                        *)

(* There is an operator while there is anybody.                            *)
LEMMA EnsureKeeps ==
  ASSUME NEW s, NEW k, NEW P, NEW n, InStep(s, k, P, n), n >= 1
  PROVE  InStep(ensureOperatorExists(s), k, P, n - 1) /\ ensureOperatorExists(s).clients = s.clients
<1> DEFINE a == [s EXCEPT !.ops = {Head(s.clients)}]
           b == notifyAll(a)
           m == OwnerMsg(0)
<1>1. Sound(s) /\ Fits(s) /\ n \in Nat /\ n - 1 \in Nat /\ n - 1 <= n
  BY DEF InStep
<1>2. CASE HasOpword \/ s.clients = << >> \/ Present(s) \cap s.ops # {}
  <2>1. ensureOperatorExists(s) = s
    BY <1>2 DEF ensureOperatorExists
  <2> QED BY <1>1, <2>1, LessRoom
<1>3. CASE ~HasOpword /\ s.clients # << >> /\ Present(s) \cap s.ops = {}
  <2>1. ensureOperatorExists(s) = addToHistory(b, m)
    BY <1>3 DEF ensureOperatorExists
  <2>2. /\ a.hist = s.hist /\ a.clients = s.clients /\ a.payload = s.payload /\ a.inbox = s.inbox
        /\ a.position = s.position /\ a.flags = s.flags /\ a.status = s.status /\ DOMAIN a = SessFields
        /\ a.state = s.state /\ a.resetstream = s.resetstream /\ a.candidates = s.candidates
        /\ a.ops = {Head(s.clients)}
    BY <1>1 DEF Sound, SessFields
  <2> HIDE DEF a
  <2>3. Head(s.clients) \in Present(s)
    <3>1. /\ s.clients \in Seq(Clients) /\ Len(s.clients) \in Nat
          /\ DOMAIN s.clients = 1 .. Len(s.clients)
      BY <1>1, LenProperties DEF Sound
    <3>2. Len(s.clients) \in Nat \ {0}
      BY <1>3, <3>1, EmptySeq
    <3>3. Head(s.clients) = s.clients[1]
      BY <3>1, <3>2
    <3> QED BY <3>1, <3>2, <3>3 DEF Present, ToSet
  <2>4. Sound(a)
    BY <1>1, <2>2, <2>3 DEF Sound, Present
  <2>5. Plain(s, a)
    BY <1>1, <2>2 DEF Plain, Fits
  <2>6. InStep(a, k, P, n)
    BY <2>4, <2>5, PlainKeeps
  <2>7. InStep(b, k, P, n)
    BY <2>6, NotifyKeeps
  <2>8. b.clients = a.clients
    BY <2>4, NotifyUntouched DEF Untouched, SameUsers
  <2> HIDE DEF b
  <2>9. m \in Recorded /\ m.type # "StreamStart" /\ m.type # "Leave" /\ Amid(P, m) = P
    BY DEF OwnerMsg, Recorded, Amid
  <2> HIDE DEF m
  <2>10. InStep(addToHistory(b, m), k, P, n - 1)
    BY <1>1, <2>7, <2>9, AddToHistoryKeeps
  <2>11. addToHistory(b, m).clients = b.clients
    BY <2>7, AddToHistoryPasses DEF InStep, Passes, SameUsers
  <2> QED BY <2>1, <2>2, <2>8, <2>10, <2>11
<1> QED BY <1>2, <1>3

(* A reset ends with who does it.                                          *)
LEMMA LeaveKeeps ==
  ASSUME NEW s, NEW k, NEW P, NEW n, InStep(s, k, P, n), NEW c \in Clients, StateUpTo(s, c),
         s.state = "Reset" => c = s.initUser
  PROVE  /\ InStep(onClientLeave(s, c), k, P, n)
         /\ onClientLeave(s, c).clients = s.clients /\ onClientLeave(s, c).state = "Running"
<1> DEFINE a == IF c = s.initUser /\ s.state = "Reset" THEN abortReset(s) ELSE s
           cs == {c}
           t == invalidateAutoResetCandidates(a, cs)
           h == abortStreamedReset(t.hist, c)
           b == [t EXCEPT !.hist = h]
<1>1. InStep(a, k, P, n) /\ a.clients = s.clients /\ a.state = "Running"
  <2>1. CASE s.state = "Reset"
    BY <2>1, AbortResetKeeps DEF StateUpTo
  <2>2. CASE s.state # "Reset"
    BY <2>2 DEF InStep, Sound
  <2> QED BY <2>1, <2>2
<1>2. onClientLeave(s, c) = IF StreamedResetBy(t.hist, c)
                            THEN clearAutoReset([t EXCEPT !.hist = abortStreamedReset(@, c)], TRUE)
                            ELSE resolvePendingStreamedReset(t)
  BY DEF onClientLeave
<1> HIDE DEF a, cs
<1>3. InStep(t, k, P, n) /\ t.clients = a.clients /\ t.state = a.state
  BY <1>1, InvalidateKeeps, InvalidateUntouched DEF InStep, Untouched, SameUsers
<1> HIDE DEF t
<1>4. Sound(t) /\ SoundHist(t.hist) /\ DOMAIN t = SessFields
  BY <1>3 DEF InStep, Sound
<1>5. [t EXCEPT !.hist = abortStreamedReset(@, c)] = b
  BY <1>4 DEF SessFields
<1>6. CASE StreamedResetBy(t.hist, c)
  <2>1. Unstreamed(t.hist, h)
    BY <1>4, AbortUnstreamed
  <2>2. Sound(b) /\ b.clients = t.clients /\ b.state = t.state
    <3>1. SoundHist(h) /\ h.lastIndex = t.hist.lastIndex
      BY <1>4, AbortSound
    <3>2. h.lastIndex >= t.hist.lastIndex
      BY <1>4, <3>1 DEF SoundHist
    <3>3. b.clients = t.clients /\ b.state = t.state
      BY <1>4 DEF SessFields
    <3> HIDE DEF h
    <3> QED BY <1>4, <3>1, <3>2, <3>3, HistSound
  <2> DEFINE r == TRUE
  <2> HIDE DEF h, r
  <2>3. InStep(clearAutoReset(b, r), k, P, n)
    BY <1>3, <2>1, ClearKeeps
  <2>4. SameUsers(b, clearAutoReset(b, r))
    BY <2>2, ClearSound
  <2>5. onClientLeave(s, c) = clearAutoReset(b, r)
    BY <1>2, <1>5, <1>6 DEF r
  <2> QED BY <1>1, <1>3, <2>2, <2>3, <2>4, <2>5 DEF SameUsers
<1>7. CASE ~StreamedResetBy(t.hist, c)
  <2>1. onClientLeave(s, c) = resolvePendingStreamedReset(t)
    BY <1>2, <1>7
  <2>2. InStep(resolvePendingStreamedReset(t), k, P, n)
    BY <1>3, ResolveKeeps
  <2>3. SameUsers(t, resolvePendingStreamedReset(t))
    BY <1>4, ResolvePasses DEF Passes
  <2> QED BY <1>1, <1>3, <2>1, <2>2, <2>3 DEF SameUsers
<1> QED BY <1>6, <1>7

(* A user is gone; nobody has been told.                                   *)
Gone(s, c) ==
  [s EXCEPT !.clients = RemoveFirst(@, c), !.ops = @ \ {c},
            !.flags[c] = {}, !.position[c] = -1,
            !.uploading[c] = FALSE, !.inbox[c] = << >>]

(* The session is then in step with the rest, but for the list of users.   *)
LEMMA GoneKeeps ==
  ASSUME NEW s, NEW k, NEW P, NEW n, InStep(s, k, P, n), NEW c \in Present(s), NEW t, t = Gone(s, c)
  PROVE  /\ InStep(t, k, P, n) /\ Present(t) = Present(s) \ {c}
         /\ t.state = s.state /\ t.initUser = s.initUser /\ t.ops = s.ops \ {c}
         /\ t.hist = s.hist /\ t.status = s.status /\ t.resetstream = s.resetstream
<1> DEFINE cs == RemoveFirst(s.clients, c)
<1>1. /\ Sound(s) /\ Fits(s) /\ n \in Nat /\ Room(s, n) /\ k \in [Clients -> Views] /\ P \subseteq Clients
      /\ Agreed(s, k, P) /\ s.inbox \in [Clients -> Seq(Messages)] /\ s.position \in [Clients -> Int]
      /\ DOMAIN s.flags = Clients
  BY DEF InStep, Fits, Sound
<1>2. c \in Clients /\ Present(s) \subseteq Clients
  BY <1>1, PresentClients
<1>3. /\ cs \in Seq(Clients) /\ ToSet(cs) = Present(s) \ {c}
      /\ \A i, j \in 1 .. Len(cs) : cs[i] = cs[j] => i = j
  <2>1. /\ s.clients \in Seq(Clients) /\ c \in ToSet(s.clients)
        /\ \A i, j \in 1 .. Len(s.clients) : s.clients[i] = s.clients[j] => i = j
    BY <1>1 DEF Sound, Present
  <2> QED BY <2>1, RemovedOnce DEF Present
<1> HIDE DEF cs
<1>4. /\ DOMAIN t = SessFields /\ t.hist = s.hist /\ t.clients = cs /\ t.initUser = s.initUser
      /\ t.state = s.state /\ t.status = s.status /\ t.resetstream = s.resetstream
      /\ t.ops = s.ops \ {c} /\ t.flags = [s.flags EXCEPT ![c] = {}]
      /\ t.position = [s.position EXCEPT ![c] = -1] /\ t.inbox = [s.inbox EXCEPT ![c] = << >>]
      /\ t.payload = s.payload /\ t.candidates = s.candidates
  BY <1>1 DEF Sound, SessFields, cs, Gone
<1>5. Present(t) = Present(s) \ {c}
  BY <1>3, <1>4 DEF Present
<1>6. -1 <= s.hist.lastIndex
  <2>1. /\ s.hist.firstIndex \in Nat /\ s.hist.lastIndex \in Int
        /\ s.hist.lastIndex - s.hist.firstIndex + 1 = Len(s.hist.messages)
        /\ Len(s.hist.messages) \in Nat
    BY <1>1 DEF Sound, SoundHist, IsSequence
  <2> QED BY <2>1
<1>7. /\ t.position \in [Clients -> Int] /\ t.position[c] = -1
      /\ \A d \in Clients : t.position[d] <= s.hist.lastIndex
      /\ t.inbox \in [Clients -> Seq(Messages)] /\ t.inbox[c] = << >>
      /\ DOMAIN t.flags = Clients
      /\ \A d \in Clients \ {c} : t.position[d] = s.position[d] /\ t.inbox[d] = s.inbox[d] /\ t.flags[d] = s.flags[d]
      /\ t.flags[c] = {}
  <2>1. << >> \in Seq(Messages)
    OBVIOUS
  <2> QED BY <1>1, <1>2, <1>4, <1>6, <2>1 DEF Sound
<1>8. Sound(t)
  BY <1>1, <1>3, <1>4, <1>5, <1>7 DEF Sound
<1>9. Fits(t)
  BY <1>1, <1>4, <1>5, <1>7 DEF Fits
<1>10. /\ Late(t) = Late(s)
       /\ \A d \in Present(t) : End(t, k, d) = End(s, k, d) /\ Arrived(t, k, d) = Arrived(s, k, d)
  BY <1>2, <1>4, <1>5, <1>7 DEF Late, End, Arrived, Flow
<1>11. Agreed(t, k, P)
  BY <1>1, <1>4, <1>5, <1>10 DEF Agreed
<1>12. NoNewStarts(s, t, k)
  BY <1>5, <1>10 DEF NoNewStarts
<1>13. SameFork(s, t)
  BY <1>4 DEF SameFork, ImageView, ForkView
<1>14. Meek(s, t)
  <2>1. \A d \in Clients : Armed(t, d) => Armed(s, d)
    BY <1>2, <1>7 DEF Armed
  <2> QED BY <1>4, <2>1 DEF Meek, Asked, Streaming, Unstarted
<1>15. Sent(s, t)
  <2>1. SUFFICES ASSUME NEW d \in Clients PROVE Grown(s.inbox[d], t.inbox[d])
    BY DEF Sent
  <2>2. s.inbox[d] \in Seq(Messages)
    BY <1>1
  <2>3. CASE d = c
    BY <1>7, <2>3 DEF Grown
  <2> QED BY <1>7, <2>2, <2>3, GrownBy
<1>16. Room(t, n)
  BY <1>1, <1>4 DEF Room
<1>17. InStep(t, k, P, n)
  BY <1>1, <1>4, <1>8, <1>9, <1>11, <1>12, <1>13, <1>14, <1>15, <1>16, GentleKeeps
<1> QED BY <1>4, <1>5, <1>17

(* A user leaves, and all are told.                                        *)
LEMMA RemoveUserKeeps ==
  ASSUME NEW s, NEW k, NEW P, NEW n, InStep(s, k, P, n), n >= 2, NEW c \in Present(s), StateUpTo(s, c),
         s.state = "Reset" => c = s.initUser
  PROVE  /\ InStep(removeUser(s, c), k, P \ {c}, n - 2)
         /\ Present(removeUser(s, c)) = Present(s) \ {c}
<1> DEFINE out == Gone(s, c)
           left == onClientLeave(out, c)
           m == LeaveMsg(c)
           told == addToHistory(left, m)
<1>1. removeUser(s, c) = ensureOperatorExists(told)
  BY DEF removeUser, Gone
<1>2. /\ InStep(out, k, P, n) /\ Present(out) = Present(s) \ {c}
      /\ out.state = s.state /\ out.initUser = s.initUser /\ out.ops = s.ops \ {c}
      /\ out.hist = s.hist /\ out.status = s.status /\ out.resetstream = s.resetstream
  BY GoneKeeps
<1> HIDE DEF out
<1>3. c \in Clients /\ n \in Nat /\ Sound(s)
  BY PresentClients DEF InStep
<1>4. StateUpTo(out, c)
  BY <1>2 DEF StateUpTo
<1>5. /\ InStep(left, k, P, n) /\ left.clients = out.clients /\ left.state = "Running"
  BY <1>2, <1>3, <1>4, LeaveKeeps
<1> HIDE DEF left
<1>6. m \in Recorded /\ m.type # "StreamStart" /\ Amid(P, m) = P \ {c}
  BY <1>3 DEF LeaveMsg, Recorded, Amid
<1> HIDE DEF m
<1> DEFINE Q == P \ {c}
           j == n - 1
<1>7. InStep(told, k, Q, j)
  <2>1. n >= 1 /\ m.type # "StreamStart" /\ (m.type = "Leave" => left.state = "Running")
    BY <1>3, <1>5, <1>6
  <2>2. InStep(addToHistory(left, m), k, Amid(P, m), n - 1)
    BY <1>5, <1>6, <2>1, AddToHistoryKeeps
  <2> QED BY <1>6, <2>2
<1>8. told.clients = left.clients
  BY <1>5, AddToHistoryPasses DEF InStep, Passes, SameUsers
<1>9. j >= 1 /\ n - 2 = j - 1
  BY <1>3
<1> HIDE DEF told, Q, j
<1>10. InStep(ensureOperatorExists(told), k, Q, j - 1) /\ ensureOperatorExists(told).clients = told.clients
  BY <1>7, <1>9, EnsureKeeps
<1> QED BY <1>1, <1>2, <1>5, <1>8, <1>9, <1>10 DEF Q, Present

----------------------------------------------------------------------------
(* Operators who are others.                                               *)

(* What is sent does not depend on the history.                            *)
LEMMA SendsBeside ==
  ASSUME NEW s, DOMAIN s = SessFields, NEW cs, NEW m, NEW h
  PROVE  sendDirectMessages([s EXCEPT !.hist = h], cs, m) = [sendDirectMessages(s, cs, m) EXCEPT !.hist = h]
BY DEF sendDirectMessages, isAwaitingReset, SessFields

(* The streamed reset of who is no operator any more ends.                 *)
LEMMA DeopKeeps ==
  ASSUME NEW s, NEW k, NEW P, NEW n, InStep(s, k, P, n), SoundStream(s), NEW cs
  PROVE  InStep(onClientsDeop(s, cs), k, P, n)
<1> DEFINE t == invalidateAutoResetCandidates(s, cs)
           c == s.hist.ctxId
           m == ProgressMsg(TRUE)
           o == {c}
           a == [t EXCEPT !.hist = abortStreamedReset(@, c)]
           h == abortStreamedReset(t.hist, c)
           d == sendDirectMessages(t, o, m)
           r == TRUE
<1>1. Sound(s)
  BY DEF InStep
<1>2. InStep(t, k, P, n)
  BY InvalidateKeeps
<1>3. Untouched(s, t) /\ DOMAIN t = SessFields
  BY <1>1, InvalidateUntouched DEF Untouched
<1>4. CASE ~(s.hist.resetStreamState = "Streaming" /\ c \in cs)
  <2>1. onClientsDeop(s, cs) = t
    BY <1>4 DEF onClientsDeop
  <2> QED BY <1>2, <2>1
<1>5. CASE s.hist.resetStreamState = "Streaming" /\ c \in cs
  <2>1. onClientsDeop(s, cs) = clearAutoReset(sendDirectMessages(a, o, m), r)
    BY <1>5, Zenon DEF onClientsDeop, sendDirectMessage
  <2>2. c \in Present(s)
    BY <1>5 DEF SoundStream, Streaming
  <2>3. m \in Messages /\ Quiet(m) /\ ~Asks(m)
    BY DEF ProgressMsg, Messages, Quiet, Asks
  <2> HIDE DEF t
  <2>4. a = [t EXCEPT !.hist = h]
    BY <1>3 DEF SessFields
  <2>5. o \subseteq Present(t)
    BY <1>3, <2>2 DEF Untouched, SameUsers, Present
  <2> HIDE DEF a, o, m, r, h, c
  <2>6. InStep(d, k, P, n)
    BY <1>2, <2>3, <2>5, DirectKeeps
  <2>7. d.hist = t.hist
    <3>1. Sound(t)
      BY <1>2 DEF InStep
    <3> QED BY <3>1, DirectUntouched DEF Untouched
  <2>8. Unstreamed(d.hist, h)
    BY <1>2, <2>7, AbortUnstreamed DEF InStep, Sound, h
  <2>9. sendDirectMessages(a, o, m) = [d EXCEPT !.hist = h]
    BY <1>3, <2>4, SendsBeside
  <2> HIDE DEF d
  <2>10. InStep(clearAutoReset([d EXCEPT !.hist = h], r), k, P, n)
    BY <2>6, <2>8, ClearKeeps
  <2> QED BY <2>1, <2>9, <2>10
<1> QED BY <1>4, <1>5

(* Who loses the operator status in the middle of a reset leaves.          *)
LEMMA UpdateOwnershipKeeps ==
  ASSUME NEW s, NEW k, NEW n, InStep(s, k, Present(s), n), n >= 2, SoundSession(s), NEW ids
  PROVE  LET t == updateOwnership(s, ids)
         IN  InStep(t, k, Present(t), n - 2) /\ Present(t) \subseteq Present(s)
<1> DEFINE lost == (Present(s) \cap s.ops) \ ids
           d == onClientsDeop(s, lost)
           t == [d EXCEPT !.ops = ids \cap Present(s)]
           u == IF t.ops # s.ops THEN notifyAll(t) ELSE t
           i == s.initUser
           P == Present(s)
<1>1. /\ Sound(d) /\ SameUsers(s, d) /\ SoundStream(d) /\ SoundState(d)
  BY DeopSound
<1>2. updateOwnership(s, ids) = IF s.state = "Reset" /\ i \in lost THEN removeUser(u, i) ELSE u
  BY DEF updateOwnership
<1>3. InStep(d, k, P, n) /\ Fits(d)
  BY DeopKeeps DEF SoundSession, InStep
<1> HIDE DEF d
<1>4. /\ DOMAIN t = SessFields /\ t.hist = d.hist
      /\ t.clients = s.clients /\ t.initUser = s.initUser
      /\ t.state = s.state /\ t.status = d.status /\ t.resetstream = s.resetstream
      /\ t.ops = ids \cap Present(s) /\ t.flags = d.flags /\ t.position = d.position
      /\ t.payload = d.payload /\ t.inbox = d.inbox /\ t.candidates = d.candidates
      /\ d.clients = s.clients /\ d.state = s.state /\ d.resetstream = s.resetstream
  BY <1>1 DEF Sound, SessFields, SameUsers
<1> HIDE DEF t
<1>5. Present(t) = P /\ Present(d) = P
  BY <1>4 DEF Present
<1>6. Sound(t)
  BY <1>1, <1>4, <1>5 DEF Sound
<1>7. Plain(d, t)
  BY <1>3, <1>4 DEF Plain, Fits
<1>8. InStep(t, k, P, n)
  BY <1>3, <1>6, <1>7, PlainKeeps
<1>9. InStep(u, k, P, n) /\ Untouched(t, u)
  <2>1. Untouched(t, t)
    BY <1>6 DEF Untouched, SameUsers, Sound
  <2> QED BY <1>6, <1>8, <2>1, NotifyKeeps, NotifyUntouched
<1> HIDE DEF u
<1>10. Present(u) = P
  BY <1>5, <1>9 DEF Untouched, SameUsers, Present
<1>11. n \in Nat /\ n - 2 \in Nat /\ n - 2 <= n
  BY DEF InStep
<1>12. CASE s.state = "Reset" /\ i \in lost
  <2>1. i \in Present(u) /\ u.initUser = i /\ u.state = "Reset"
    BY <1>4, <1>9, <1>10, <1>12 DEF Untouched, SameUsers
  <2>2. StateUpTo(u, i)
    BY <1>1, <1>4, <1>9, <1>12 DEF StateUpTo, SoundState, Untouched, SameUsers
  <2> HIDE DEF i, lost, P
  <2>3. InStep(removeUser(u, i), k, P \ {i}, n - 2) /\ Present(removeUser(u, i)) = Present(u) \ {i}
    BY <1>9, <2>1, <2>2, RemoveUserKeeps
  <2> QED BY <1>2, <1>10, <1>12, <2>3 DEF P
<1>13. CASE ~(s.state = "Reset" /\ i \in lost)
  <2>1. InStep(u, k, P, n - 2)
    BY <1>9, <1>11, LessRoom
  <2> QED BY <1>2, <1>10, <1>13, <2>1
<1> QED BY <1>12, <1>13

(* A message that changes nobody's presence.                               *)
LEMMA ToldKeeps ==
  ASSUME NEW s, NEW k, NEW n, InStep(s, k, Present(s), n), n >= 1,
         NEW m \in Recorded, m.type \notin {"StreamStart", "Join", "Leave"}
  PROVE  LET t == addToHistory(s, m)
         IN  InStep(t, k, Present(t), n - 1) /\ Present(t) = Present(s)
<1> DEFINE t == addToHistory(s, m)
           P == Present(s)
<1>1. Amid(P, m) = P
  BY DEF Amid
<1> HIDE DEF P
<1>2. InStep(t, k, P, n - 1)
  BY <1>1, AddToHistoryKeeps DEF P
<1>3. Present(t) = P
  BY AddToHistoryPasses DEF InStep, Passes, SameUsers, Present, P
<1> QED BY <1>2, <1>3 DEF P

(* Somebody becomes an operator.                                           *)
LEMMA OpStatusKeeps ==
  ASSUME NEW s, NEW k, NEW n, InStep(s, k, Present(s), n), n >= 3, SoundSession(s), NEW c
  PROVE  LET t == changeOpStatus(s, c)
         IN  InStep(t, k, Present(t), n - 3)
<1> DEFINE ids == s.ops \cup {c}
           u == updateOwnership(s, ids)
           m == OwnerMsg(0)
           j == n - 2
<1>1. n \in Nat /\ j >= 1 /\ j - 1 = n - 3 /\ n >= 2
  BY DEF InStep
<1> HIDE DEF ids, j
<1>2. InStep(u, k, Present(u), j)
  BY <1>1, UpdateOwnershipKeeps DEF j
<1>3. m \in Recorded /\ m.type \notin {"StreamStart", "Join", "Leave"}
  BY DEF OwnerMsg, Recorded
<1>4. changeOpStatus(s, c) = addToHistory(u, m)
  BY DEF changeOpStatus, ids
<1> HIDE DEF u, m
<1>5. InStep(addToHistory(u, m), k, Present(addToHistory(u, m)), j - 1)
  BY <1>1, <1>2, <1>3, ToldKeeps
<1> QED BY <1>1, <1>4, <1>5

----------------------------------------------------------------------------
(* Users who join.                                                         *)

(* The session t is s with c in it, who has been sent nothing of it.       *)
Comes(s, t, c) ==
  /\ t.hist = s.hist /\ t.clients = Append(s.clients, c) /\ t.payload = s.payload /\ t.inbox = s.inbox
  /\ t.position = s.position /\ t.flags = s.flags /\ t.status = s.status /\ DOMAIN t = SessFields
  /\ t.state = s.state /\ t.resetstream = s.resetstream /\ t.candidates = s.candidates /\ t.ops = s.ops
  /\ t.initUser = s.initUser

(* Somebody is connected, and has to be sent the whole history.            *)
LEMMA ComeKeeps ==
  ASSUME NEW s, NEW k, NEW P, NEW n, InStep(s, k, P, n), SoundSession(s),
         NEW c \in Clients, c \notin Present(s), k[c] = NewClient,
         NEW t, Comes(s, t, c)
  PROVE  InStep(t, k, P, n) /\ SoundSession(t) /\ Present(t) = Present(s) \cup {c}
<1>1. /\ Sound(s) /\ Fits(s) /\ n \in Nat /\ Room(s, n) /\ k \in [Clients -> Views] /\ P \subseteq Clients
      /\ Agreed(s, k, P) /\ s.inbox \in [Clients -> Seq(Messages)]
  BY DEF InStep, Fits
<1>2. /\ t.hist = s.hist /\ t.clients = Append(s.clients, c) /\ t.payload = s.payload /\ t.inbox = s.inbox
      /\ t.position = s.position /\ t.flags = s.flags /\ t.status = s.status /\ DOMAIN t = SessFields
      /\ t.state = s.state /\ t.resetstream = s.resetstream /\ t.candidates = s.candidates /\ t.ops = s.ops
      /\ t.initUser = s.initUser
  BY DEF Comes
<1>3. /\ t.clients \in Seq(Clients) /\ Present(t) = Present(s) \cup {c}
      /\ \A i, j \in 1 .. Len(t.clients) : t.clients[i] = t.clients[j] => i = j
  <2> DEFINE q == s.clients
             r == t.clients
             l == Len(q)
  <2>1. /\ q \in Seq(Clients) /\ l \in Nat /\ DOMAIN q = 1 .. l
        /\ \A i, j \in 1 .. l : q[i] = q[j] => i = j
        /\ \A i \in 1 .. l : q[i] # c
    BY <1>1, LenProperties DEF Sound, Present, ToSet
  <2>2. /\ r \in Seq(Clients) /\ Len(r) = l + 1
        /\ \A i \in 1 .. l : r[i] = q[i]
        /\ r[l + 1] = c
    BY <1>2, <2>1, AppendProperties
  <2>3. DOMAIN r = 1 .. l + 1
    BY <2>2, LenProperties
  <2> HIDE DEF r, l, q
  <2>4. ASSUME NEW i \in 1 .. l + 1, NEW j \in 1 .. l + 1, r[i] = r[j]
        PROVE  i = j
    BY <2>1, <2>2, <2>4
  <2>5. ToSet(r) = ToSet(q) \cup {c}
    <3>1. ToSet(q) \cup {c} \subseteq ToSet(r)
      BY <2>1, <2>2, <2>3 DEF ToSet
    <3>2. ToSet(r) \subseteq ToSet(q) \cup {c}
      BY <2>1, <2>2, <2>3 DEF ToSet
    <3> QED BY <3>1, <3>2
  <2> QED BY <2>2, <2>4, <2>5 DEF r, q, Present
<1>4. Sound(t)
  BY <1>1, <1>2, <1>3 DEF Sound
<1>5. SoundSession(t)
  BY <1>2, <1>3, <1>4 DEF SoundSession, SoundStream, SoundState, Streaming
<1>6. Fits(t)
  BY <1>1, <1>2, <1>3, ZenonT(30) DEF Fits
<1>7. Late(t) = Late(s) /\ \A d \in Clients : End(t, k, d) = End(s, k, d) /\ Arrived(t, k, d) = Arrived(s, k, d)
  BY <1>2 DEF Late, End, Arrived, Flow
<1>8. End(t, k, c) = Late(s) /\ Arrived(t, k, c) = Blank
  <2>1. s.inbox[c] = << >> /\ s.position[c] = -1
    BY <1>1 DEF Fits
  <2>2. SoundHist(s.hist) /\ s.hist.messages \in Seq(Recorded) /\ s.position[c] \in Int
    BY <1>1, <2>1 DEF Sound, Fits
  <2>3. getBatch(s.hist, s.position[c]) = s.hist.messages
    BY <2>1, <2>2, BatchEnds
  <2>4. << >> \o s.hist.messages = s.hist.messages
    BY <2>2, ConcatProperties
  <2>5. Blank \in Readers
    BY <1>1, Reached
  <2>6. Reading(Blank, << >>) = Blank
    BY <2>5, ReadingOne
  <2> QED BY <1>7, <2>1, <2>3, <2>4, <2>6 DEF End, Arrived, Flow, Late, Blank
<1>9. Agreed(t, k, P)
  <2>1. Blank.users = {}
    BY NewClientView, ReaderIs DEF Blank
  <2>2. Present(s) \subseteq Clients
    BY <1>1, PresentClients
  <2>3. Alike(Late(s), Late(s))
    BY DEF Alike
  <2> QED BY <1>1, <1>2, <1>3, <1>7, <1>8, <2>1, <2>2, <2>3, ZenonT(30) DEF Agreed
<1>10. NoNewStarts(s, t, k)
  <2>1. Present(s) \subseteq Clients
    BY <1>1, PresentClients
  <2> QED BY <1>3, <1>7, <1>8, <2>1 DEF NoNewStarts
<1>11. SameFork(s, t) /\ Meek(s, t)
  BY <1>2 DEF SameFork, Meek, ImageView, ForkView, Asked, Armed, Streaming, Unstarted
<1>12. Sent(s, t)
  BY <1>1, <1>2, GrownBy DEF Sent
<1>13. Room(t, n)
  BY <1>1, <1>2 DEF Room
<1>14. InStep(t, k, P, n)
  BY <1>1, <1>2, <1>4, <1>6, <1>9, <1>10, <1>11, <1>12, <1>13, GentleKeeps
<1> QED BY <1>3, <1>5, <1>14

(* A user joins, and all are told.                                         *)
LEMMA JoinUserKeeps ==
  ASSUME NEW s, NEW k, NEW n, InStep(s, k, Present(s), n), n >= 5, SoundSession(s),
         NEW c \in Clients, c \notin Present(s), k[c] = NewClient
  PROVE  LET t == joinUser(s, c) IN InStep(t, k, Present(t), n - 5)
<1> DEFINE in == [s EXCEPT !.clients = Append(@, c), !.uploading[c] = TRUE]
           up == CaughtUpMsg
           m == JoinMsg(c)
           a == addMessage(in, up)
           r == addToHistory(a, m)
           o == IF c \in Invited THEN changeOpStatus(r, c) ELSE r
           P == Present(s)
           Q == Present(in)
           j == n - 1
           l == n - 4
<1>1. joinUser(s, c) = ensureOperatorExists(o)
  BY DEF joinUser, onClientJoin
<1>2. n \in Nat /\ j \in Nat /\ n >= 1 /\ j >= 3 /\ j - 3 = l /\ l \in Nat /\ l <= j /\ l >= 1 /\ l - 1 = n - 5
  BY DEF InStep
<1>3. InStep(in, k, P, n) /\ SoundSession(in) /\ Q = P \cup {c}
  <2>1. Comes(s, in, c)
    BY DEF Comes, SoundSession, Sound, SessFields
  <2>2. InStep(s, k, P, n)
    OBVIOUS
  <2> HIDE DEF in, P
  <2> QED BY <2>1, <2>2, ComeKeeps DEF P
<1> HIDE DEF in
<1>4. up \in Recorded /\ up.type # "StreamStart" /\ up.type # "Leave" /\ ~IsEmergency(up)
  BY DEF CaughtUpMsg, Recorded, IsEmergency
<1>5. m \in Recorded /\ m.type # "StreamStart" /\ m.type # "Leave" /\ Amid(P, m) = Q
  BY <1>3 DEF JoinMsg, Recorded, Amid
<1> HIDE DEF up, m, P
<1>6. InStep(a, k, P, n)
  BY <1>3, <1>4, AddMessageKeeps
<1>7. Passes(in, a) /\ Sound(a) /\ SoundSession(a)
  BY <1>3, AddMessagePasses, PassesSound DEF Passes, SoundSession
<1>8. Present(a) = Q
  BY <1>7 DEF Passes, SameUsers, Present
<1> HIDE DEF a, Q, j, l
<1>9. InStep(r, k, Q, j)
  <2>1. InStep(addToHistory(a, m), k, Amid(P, m), n - 1)
    BY <1>2, <1>5, <1>6, AddToHistoryKeeps
  <2> QED BY <1>5, <2>1 DEF j
<1>10. Passes(a, r) /\ SoundSession(r)
  BY <1>7, AddToHistoryPasses, PassesSound
<1>11. Present(r) = Q
  BY <1>8, <1>10 DEF Passes, SameUsers, Present
<1> HIDE DEF r
<1>12. InStep(o, k, Present(o), l)
  <2>1. CASE c \in Invited
    <3>1. InStep(changeOpStatus(r, c), k, Present(changeOpStatus(r, c)), j - 3)
      BY <1>2, <1>9, <1>10, <1>11, OpStatusKeeps
    <3> QED BY <1>2, <2>1, <3>1
  <2>2. CASE c \notin Invited
    <3>1. InStep(r, k, Q, l)
      BY <1>2, <1>9, LessRoom
    <3> QED BY <1>11, <2>2, <3>1
  <2> QED BY <2>1, <2>2
<1> HIDE DEF o
<1>13. InStep(ensureOperatorExists(o), k, Present(o), l - 1) /\ ensureOperatorExists(o).clients = o.clients
  <2> DEFINE R == Present(o)
  <2>1. InStep(o, k, R, l)
    BY <1>12
  <2> HIDE DEF R
  <2>2. InStep(ensureOperatorExists(o), k, R, l - 1) /\ ensureOperatorExists(o).clients = o.clients
    BY <1>2, <2>1, EnsureKeeps
  <2> QED BY <2>2 DEF R
<1>14. Present(ensureOperatorExists(o)) = Present(o)
  BY <1>13 DEF Present
<1> QED BY <1>1, <1>2, <1>13, <1>14

----------------------------------------------------------------------------
(* What clients send to all.                                               *)

(* A message of a client, which may be part of the image of a reset.       *)
LEMMA AddClientMessageKeeps ==
  ASSUME NEW s, NEW k, NEW n, InStep(s, k, Present(s), n), n >= 2, SoundSession(s),
         NEW c \in Clients, NEW m \in Pictures
  PROVE  LET t == addClientMessage(s, c, m) IN InStep(t, k, Present(t), n - 2)
<1> DEFINE t == [s EXCEPT !.resetstream = Append(@, m)]
           P == Present(s)
<1>1. /\ Sound(s) /\ Fits(s) /\ n \in Nat /\ n - 2 \in Nat /\ n - 2 <= n /\ n >= 1 /\ n - 1 \in Nat
      /\ n - 2 <= n - 1
  BY DEF InStep
<1>2. CASE s.initUser # c
  <2> DEFINE r == addToHistory(s, m)
  <2>1. addClientMessage(s, c, m) = r
    BY <1>2 DEF addClientMessage
  <2>2. m \in Recorded /\ m.type \notin {"StreamStart", "Join", "Leave"}
    BY DEF Pictures
  <2>3. InStep(r, k, Present(r), n - 1)
    BY <1>1, <2>2, ToldKeeps
  <2> HIDE DEF r
  <2>4. InStep(r, k, Present(r), n - 2)
    BY <1>1, <2>3, LessRoom
  <2> QED BY <2>1, <2>4
<1>3. CASE s.initUser = c
  <2>1. s.state = "Reset" /\ c \in P
    BY <1>3, SessionHistoryAssumption DEF SoundSession, SoundState, NoUser
  <2>2. \/ addClientMessage(s, c, m) = t
        \/ addClientMessage(s, c, m) = removeUser(t, c)
    BY <1>3, Zenon DEF addClientMessage, addToInitStream
  <2>3. /\ DOMAIN t = SessFields /\ t.hist = s.hist /\ t.clients = s.clients
        /\ t.initUser = s.initUser /\ t.state = s.state /\ t.status = s.status
        /\ t.resetstream = Append(s.resetstream, m)
        /\ t.ops = s.ops /\ t.flags = s.flags /\ t.position = s.position
        /\ t.payload = s.payload /\ t.inbox = s.inbox /\ t.candidates = s.candidates
    BY <1>1 DEF Sound, SessFields
  <2> HIDE DEF t
  <2>4. t.resetstream \in Seq(Pictures)
    BY <1>1, <2>3, AppendProperties DEF Fits
  <2>5. Present(t) = P
    BY <2>3 DEF Present
  <2>6. Sound(t)
    BY <1>1, <2>3, <2>4, <2>5, InSequence DEF Sound
  <2>7. Plain(s, t)
    BY <1>1, <2>3, <2>4 DEF Plain, Fits
  <2>8. InStep(t, k, P, n)
    BY <2>6, <2>7, PlainKeeps
  <2>9. StateUpTo(t, c)
    BY <1>3, <2>1, <2>3 DEF SoundSession, SoundState, StateUpTo
  <2> HIDE DEF P
  <2>10. InStep(removeUser(t, c), k, P \ {c}, n - 2) /\ Present(removeUser(t, c)) = Present(t) \ {c}
    BY <1>3, <2>1, <2>3, <2>5, <2>8, <2>9, RemoveUserKeeps
  <2>11. InStep(t, k, P, n - 2)
    BY <1>1, <2>8, LessRoom
  <2> QED BY <2>2, <2>5, <2>10, <2>11
<1> QED BY <1>2, <1>3

(* A command that changes the operators.                                   *)
LEMMA ChangeOwnersKeeps ==
  ASSUME NEW s, NEW k, NEW n, InStep(s, k, Present(s), n), n >= 4, SoundSession(s),
         NEW c \in Clients, NEW ids
  PROVE  LET t == changeOwners(s, c, ids) IN InStep(t, k, Present(t), n - 4)
<1> DEFINE is == ids \cup {c}
           u == updateOwnership(s, is)
           m == OwnerMsg(c)
           j == n - 2
<1>1. n \in Nat /\ j >= 2 /\ j - 2 = n - 4 /\ n >= 2
  BY DEF InStep
<1> HIDE DEF is, j
<1>2. InStep(u, k, Present(u), j)
  BY <1>1, UpdateOwnershipKeeps DEF j
<1>3. SoundSession(u)
  BY UpdateOwnershipSound
<1>4. m \in Pictures
  BY SessionHistoryAssumption DEF OwnerMsg, Recorded, Pictures
<1>5. changeOwners(s, c, ids) = addClientMessage(u, c, m)
  BY DEF changeOwners, is
<1> HIDE DEF u, m
<1>6. InStep(addClientMessage(u, c, m), k, Present(addClientMessage(u, c, m)), j - 2)
  BY <1>1, <1>2, <1>3, <1>4, AddClientMessageKeeps
<1> QED BY <1>1, <1>5, <1>6

----------------------------------------------------------------------------
(* Finding somebody to reset the session.                                  *)

(* Of the candidates who are still operators, one is better than the rest. *)
LEMMA BestExists ==
  ASSUME NEW s, Sound(s), Fits(s), NEW V, V = {i \in DOMAIN s.candidates : CandidateValid(s, i)}, V # {}
  PROVE  \E i \in V : \A j \in V \ {i} : Better(s, i, j)
<1> DEFINE l == Len(s.candidates)
           T == {n \in 0 .. l : (\E i \in V : i <= n) =>
                   \E i \in V : i <= n /\ \A j \in V \ {i} : j <= n => Better(s, i, j)}
<1>1. l \in Nat /\ V \subseteq 1 .. l /\ \A i \in V : i \in Nat /\ s.candidates[i] \in Clients
  <2>1. l \in Nat /\ DOMAIN s.candidates = 1 .. l
    BY LenProperties DEF Fits
  <2> QED BY <2>1, PresentClients DEF CandidateValid
<1>2. \A i \in V : Quality[s.candidates[i]] \in Nat
  BY <1>1, ThinSessionAssumption
<1>3. ASSUME NEW i \in V, NEW j \in V, i # j PROVE Better(s, i, j) \/ Better(s, j, i)
  BY <1>1, <1>2, <1>3 DEF Better
<1>4. ASSUME NEW i \in V, NEW j \in V, NEW n \in V, Better(s, i, j), Better(s, j, n) PROVE Better(s, i, n)
  <2>1. i \in Nat /\ j \in Nat /\ n \in Nat
    BY <1>1
  <2> QED BY <1>2, <1>4, <2>1 DEF Better
<1>5. 0 \in T
  BY <1>1
<1>6. ASSUME NEW n \in 1 .. l, n - 1 \in T PROVE n \in T
  <2>1. n \in 0 .. l /\ \A j \in V : j <= n => j = n \/ j <= n - 1
    BY <1>1
  <2>2. CASE n \notin V
    <3>1. \A j \in V : j <= n <=> j <= n - 1
      BY <1>1, <2>1, <2>2
    <3> QED BY <1>6, <2>1, <3>1
  <2>3. CASE n \in V /\ ~\E i \in V : i <= n - 1
    <3>1. \A j \in V \ {n} : j <= n => Better(s, n, j)
      BY <2>1, <2>3
    <3>2. n <= n
      BY <1>1
    <3> QED BY <2>1, <2>3, <3>1, <3>2
  <2>4. CASE n \in V /\ \E i \in V : i <= n - 1
    <3>1. PICK i \in V : i <= n - 1 /\ \A j \in V \ {i} : j <= n - 1 => Better(s, i, j)
      BY <1>6, <2>4
    <3>2. i # n /\ i <= n /\ n <= n
      BY <1>1, <3>1
    <3>3. CASE Better(s, i, n)
      <4>1. \A j \in V \ {i} : j <= n => Better(s, i, j)
        BY <2>1, <3>1, <3>3
      <4> QED BY <2>1, <3>2, <4>1
    <3>4. CASE Better(s, n, i)
      <4>1. ASSUME NEW j \in V \ {n}, j <= n PROVE Better(s, n, j)
        <5>1. j = i \/ Better(s, i, j)
          BY <2>1, <3>1, <4>1
        <5> QED BY <1>4, <2>4, <3>4, <5>1
      <4> QED BY <2>1, <2>4, <3>2, <4>1
    <3> QED BY <1>3, <2>4, <3>2, <3>3, <3>4
  <2> QED BY <2>2, <2>3, <2>4
<1>7. l \in T
  <2>1. \A i \in 0 .. l : i \in T
    <3> HIDE DEF T, l
    <3> QED BY <1>1, <1>5, <1>6, Stepwise
  <2>2. l \in 0 .. l
    BY <1>1
  <2> HIDE DEF T
  <2> QED BY <2>1, <2>2
<1>8. \A j \in V : j <= l
  BY <1>1
<1> HIDE DEF l
<1> QED BY <1>7, <1>8

(* The best candidate is asked for the reset, and nobody has been before.  *)
LEMMA RequestKeeps ==
  ASSUME NEW s, NEW k, NEW P, NEW n, InStep(s, k, P, n), s.status = "QueriedWaiting",
         NEW c \in Present(s), NEW stream \in BOOLEAN, NEW F, NEW cs, cs = {c},
         NEW a, a = [s EXCEPT !.status = "Requested", !.candidates = << >>, !.flags[c] = F],
         NEW m, m = RequestMsg(s.payload, stream)
  PROVE  InStep(sendDirectMessages(a, cs, m), k, P, n)
<1> DEFINE p == s.payload
           t == sendDirectMessages(a, cs, m)
<1>1. /\ Sound(s) /\ Fits(s) /\ k \in [Clients -> Views] /\ P \subseteq Clients /\ n \in Nat
      /\ Dated(s, k) /\ Asking(s, k) /\ Armings(s) /\ p \in Nat /\ p > 0 /\ DOMAIN s.flags = Clients
  BY DEF InStep, Fits, Sound
<1>2. c \in Clients
  BY <1>1, PresentClients
<1>3. /\ a.hist = s.hist /\ a.clients = s.clients /\ a.payload = p /\ DOMAIN a = SessFields
      /\ a.position = s.position /\ a.status = "Requested" /\ a.state = s.state
      /\ a.resetstream = s.resetstream /\ a.candidates = << >> /\ a.ops = s.ops /\ a.inbox = s.inbox
      /\ a.flags = [s.flags EXCEPT ![c] = F]
  BY <1>1 DEF Sound, SessFields
<1>4. Present(a) = Present(s)
  BY <1>3 DEF Present
<1>5. Sound(a)
  BY <1>1, <1>3, <1>4 DEF Sound, Statuses
<1>6. Fits(a)
  <2>1. << >> \in Seq(Int)
    OBVIOUS
  <2> QED BY <1>1, <1>3, <1>4, <2>1 DEF Fits
<1>7. m \in Messages /\ Quiet(m) /\ m.type = "Request" /\ m.correlator = p /\ isControl(m)
  BY <1>1 DEF RequestMsg, Messages, Quiet, isControl
<1>8. cs \subseteq Present(a)
  BY <1>4
<1> HIDE DEF p
<1>9. /\ Sound(t) /\ Fits(t)
      /\ t.hist = a.hist /\ t.clients = a.clients /\ t.payload = a.payload
      /\ t.position = a.position /\ t.flags = a.flags /\ t.status = a.status
      /\ t.state = a.state
      /\ \A d \in Clients : t.inbox[d] = a.inbox[d] \/ (d \in cs /\ t.inbox[d] = Append(a.inbox[d], m))
      /\ isControl(m) => \A d \in Clients \cap cs : t.inbox[d] = Append(a.inbox[d], m)
  <2>1. Directed(a, t, cs, m)
    BY <1>5, <1>6, <1>7, <1>8, DirectGets
  <2> HIDE DEF t
  <2> QED BY <2>1 DEF Directed
<1> HIDE DEF t
<1>10. /\ \A d \in Clients \ {c} : t.inbox[d] = s.inbox[d]
       /\ t.inbox[c] = Append(s.inbox[c], m)
  BY <1>2, <1>3, <1>7, <1>9
<1>11. Asked(s) /\ ~Streaming(s) /\ \A d \in Clients : ~Armed(s, d)
  BY <1>1 DEF Asked, Armings
<1>12. AskedSome(s, t, m)
  BY <1>3, <1>9, <1>10 DEF AskedSome
<1>13. /\ Agreed(t, k, P) /\ Forked(t) /\ Marked(t, k) /\ Streamer(t, k) /\ Room(t, n)
       /\ \A j : StartsBelow(s, k, j) => StartsBelow(t, k, j)
  BY <1>7, <1>9, <1>11, <1>12, AskedShows
<1>14. t.payload = p /\ t.status = "Requested" /\ ~Streaming(t) /\ ~Asked(t)
  BY <1>3, <1>9, <1>11 DEF Streaming, Asked
<1>15. Armings(t)
  <2>1. \A d \in Clients : Armed(t, d) => d = c
    <3>1. SUFFICES ASSUME NEW d \in Clients, d # c PROVE ~Armed(t, d)
      OBVIOUS
    <3>2. t.flags[d] = s.flags[d]
      BY <1>1, <1>3, <1>9, <3>1
    <3> QED BY <1>11, <3>2 DEF Armed
  <2> QED BY <1>14, <2>1 DEF Armings
<1>16. Dated(t, k)
  <2>1. StartsBelow(s, k, p + 1) /\ StartsBelow(s, k, p)
    BY <1>1, <1>11 DEF Dated, Unstarted, p
  <2> QED BY <1>13, <1>14, <2>1 DEF Dated
<1>17. ASSUME NEW d \in Clients PROVE AskingOne(t, k[d], d)
  <2> DEFINE o == s.inbox[d]
             r == t.inbox[d]
             v == k[d]
  <2>1. o \in Seq(Messages) /\ v \in Views /\ AskedBelow(o, v, p)
    BY <1>1, <1>11 DEF Asking, AskingOne, Fits, p
  <2>2. r = o \/ r = Append(o, m)
    BY <1>10
  <2> HIDE DEF o, r, v
  <2>3. AskedBelow(r, v, p + 1) /\ AskedLast(r, p) /\ \A b : Answered(r, v, p, b)
    <3>1. CASE r = o
      BY <1>1, <2>1, <3>1, AskedHigher
    <3>2. CASE r = Append(o, m)
      BY <1>1, <1>7, <2>1, <3>2, AskedOn
    <3> QED BY <2>2, <3>1, <3>2
  <2> QED BY <1>14, <2>3 DEF AskingOne, r, v
<1>18. Asking(t, k)
  BY <1>17 DEF Asking
<1> QED BY <1>1, <1>9, <1>13, <1>15, <1>16, <1>18 DEF InStep, t

(* The server decides on who has answered its query.                       *)
LEMMA TriggerKeeps ==
  ASSUME NEW s, NEW k, NEW P, NEW n, InStep(s, k, P, n)
  PROVE  InStep(triggerAutoReset(s), k, P, n)
<1> DEFINE t == [s EXCEPT !.timer = FALSE]
           valid == {i \in DOMAIN t.candidates : CandidateValid(t, i)}
           i == CHOOSE i \in valid : \A j \in valid \ {i} : Better(t, i, j)
           best == t.candidates[i]
           stream == best \in CanStream
           F == IF stream THEN {"Awaiting", "Streaming"} ELSE {"Awaiting"}
           a == [t EXCEPT !.status = "Requested", !.candidates = << >>, !.flags[best] = F]
           m == RequestMsg(t.payload, stream)
           cs == {best}
<1>1. \/ triggerAutoReset(s) = clearAutoReset(t, TRUE)
      \/ triggerAutoReset(s) = t
      \/ /\ t.status \notin {"Queried", "NotSent", "Requested"} /\ valid # {}
         /\ triggerAutoReset(s) = sendDirectMessages(a, cs, m)
  <2>1. CASE t.status = "Queried"
    BY <2>1 DEF triggerAutoReset
  <2>2. CASE t.status \in {"NotSent", "Requested"}
    BY <2>2, Zenon DEF triggerAutoReset
  <2>3. CASE t.status = "QueriedWaiting" /\ valid = {}
    BY <2>3, Zenon DEF triggerAutoReset
  <2>4. CASE t.status \notin {"Queried", "NotSent", "Requested"} /\ ~(t.status = "QueriedWaiting" /\ valid = {})
    <3>1. t.status = "QueriedWaiting"
      BY <2>4 DEF InStep, Sound, SessFields, Statuses
    <3>2. triggerAutoReset(s) = sendDirectMessages(a, cs, m)
      BY <2>4, Zenon DEF triggerAutoReset, sendDirectMessage
    <3> QED BY <2>4, <3>1, <3>2
  <2> QED BY <2>1, <2>2, <2>3, <2>4, Zenon
<1>2. Sound(s) /\ Fits(s)
  BY DEF InStep
<1>3. Untouched(s, t)
  BY <1>2 DEF Untouched, SameUsers, Sound, SessFields
<1>4. Plain(s, t)
  BY <1>2 DEF Plain, Sound, SessFields, Fits
<1> HIDE DEF t
<1>5. InStep(t, k, P, n) /\ Sound(t) /\ Fits(t)
  BY <1>2, <1>3, <1>4, UntouchedPasses, PlainKeeps DEF Passes, InStep
<1>6. InStep(clearAutoReset(t, TRUE), k, P, n)
  <2> DEFINE r == TRUE
  <2> HIDE DEF r
  <2>1. InStep(clearAutoReset(t, r), k, P, n)
    BY <1>5, ClearedKeeps
  <2> QED BY <2>1 DEF r
<1>7. ASSUME t.status \notin {"Queried", "NotSent", "Requested"}, valid # {}
      PROVE  InStep(sendDirectMessages(a, cs, m), k, P, n)
  <2>1. \E j \in valid : \A l \in valid \ {j} : Better(t, j, l)
    <3> DEFINE V == valid
    <3>1. V = {j \in DOMAIN t.candidates : CandidateValid(t, j)} /\ V # {}
      BY <1>7
    <3> HIDE DEF V
    <3>2. \E j \in V : \A l \in V \ {j} : Better(t, j, l)
      BY <1>5, <3>1, BestExists
    <3> QED BY <3>2 DEF V
  <2>2. i \in valid
    <3> HIDE DEF valid
    <3> QED BY <2>1
  <2> HIDE DEF i
  <2>3. best \in Present(t)
    BY <2>2 DEF CandidateValid
  <2>4. t.status = "QueriedWaiting"
    BY <1>5, <1>7 DEF Sound, Statuses
  <2>5. stream \in BOOLEAN
    OBVIOUS
  <2>6. /\ cs = {best}
        /\ a = [t EXCEPT !.status = "Requested", !.candidates = << >>, !.flags[best] = F]
        /\ m = RequestMsg(t.payload, stream)
    OBVIOUS
  <2> HIDE DEF a, m, cs, F, stream, best
  <2> QED BY <1>5, <2>3, <2>4, <2>5, <2>6, RequestKeeps
<1> HIDE DEF valid, a, cs, m
<1> QED BY <1>1, <1>5, <1>6, <1>7

(* An operator offers to reset, perhaps too late.                          *)
LEMMA ReadyKeeps ==
  ASSUME NEW s, NEW k, NEW P, NEW n, InStep(s, k, P, n), NEW c \in Clients, NEW payload
  PROVE  InStep(readyToAutoReset(s, c, payload), k, P, n)
<1> DEFINE late == [s EXCEPT !.flags[c] = {}]
           t == [s EXCEPT !.candidates = Append(@, c), !.flags[c] = {"Responded"},
                          !.status = "QueriedWaiting", !.timer = TRUE]
<1>1. \/ readyToAutoReset(s, c, payload) = s
      \/ readyToAutoReset(s, c, payload) = late
      \/ /\ s.status \in {"Queried", "QueriedWaiting"}
         /\ readyToAutoReset(s, c, payload) \in {t, triggerAutoReset(t)}
  BY DEF readyToAutoReset
<1>2. Sound(s) /\ Fits(s) /\ Armings(s) /\ DOMAIN s.flags = Clients /\ s.candidates \in Seq(Int)
  BY DEF InStep, Sound, Fits
<1>3. InStep(late, k, P, n)
  <2>1. /\ late.hist = s.hist /\ late.clients = s.clients /\ late.payload = s.payload /\ DOMAIN late = SessFields
        /\ late.position = s.position /\ late.status = s.status /\ late.state = s.state
        /\ late.resetstream = s.resetstream /\ late.candidates = s.candidates /\ late.ops = s.ops
        /\ late.inbox = s.inbox /\ late.flags = [s.flags EXCEPT ![c] = {}]
    BY <1>2 DEF Sound, SessFields
  <2> HIDE DEF late
  <2>2. Present(late) = Present(s)
    BY <2>1 DEF Present
  <2>3. Sound(late)
    BY <1>2, <2>1, <2>2 DEF Sound
  <2>4. Fits(late)
    BY <1>2, <2>1, <2>2 DEF Fits
  <2>5. \A d \in Clients : Armed(late, d) => Armed(s, d)
    BY <1>2, <2>1 DEF Armed
  <2>6. Quieter(s, late)
    BY <2>1, <2>5 DEF Quieter, Meek, Asked, Streaming, Unstarted
  <2> QED BY <2>3, <2>4, <2>6, QuieterKeeps
<1>4. ASSUME s.status \in {"Queried", "QueriedWaiting"} PROVE InStep(t, k, P, n)
  <2>1. /\ t.hist = s.hist /\ t.clients = s.clients /\ t.payload = s.payload /\ DOMAIN t = SessFields
        /\ t.position = s.position /\ t.status = "QueriedWaiting" /\ t.state = s.state
        /\ t.resetstream = s.resetstream /\ t.candidates = Append(s.candidates, c) /\ t.ops = s.ops
        /\ t.inbox = s.inbox /\ t.flags = [s.flags EXCEPT ![c] = {"Responded"}]
    BY <1>2 DEF Sound, SessFields
  <2> HIDE DEF t
  <2>2. Present(t) = Present(s)
    BY <2>1 DEF Present
  <2>3. Sound(t)
    BY <1>2, <2>1, <2>2 DEF Sound, Statuses
  <2>4. Append(s.candidates, c) \in Seq(Int)
    <3>1. c \in Int
      BY SessionHistoryAssumption
    <3> QED BY <1>2, <3>1, AppendProperties
  <2>5. Fits(t)
    BY <1>2, <1>4, <2>1, <2>2, <2>4 DEF Fits
  <2>6. ~Streaming(s) /\ \A d \in Clients : ~Armed(s, d)
    BY <1>2, <1>4 DEF Armings
  <2>7. \A d \in Clients : ~Armed(t, d)
    BY <1>2, <2>1, <2>6 DEF Armed
  <2>8. Meek(s, t)
    BY <1>4, <2>1, <2>6, <2>7 DEF Meek, Asked, Streaming, Unstarted
  <2>9. Quieter(s, t)
    BY <2>1, <2>8 DEF Quieter
  <2> QED BY <2>3, <2>5, <2>9, QuieterKeeps
<1> HIDE DEF late, t
<1> QED BY <1>1, <1>3, <1>4, TriggerKeeps

----------------------------------------------------------------------------
(* Streamed resets.                                                        *)

(* Two that are added one after the other.                                 *)
LEMMA OneByOne ==
  ASSUME NEW S, NEW q \in Seq(S), NEW x \in S, NEW y \in S
  PROVE  q \o <<x, y>> = (q \o <<x>>) \o <<y>>
<1> DEFINE u == <<x>>
           v == <<y>>
<1>1. <<x, y>> = u \o v
  BY PairIs
<1>2. u \in Seq(S) /\ v \in Seq(S)
  OBVIOUS
<1> HIDE DEF u, v
<1>3. q \o (u \o v) = (q \o u) \o v
  BY <1>2, ConcatAssociative
<1> QED BY <1>1, <1>3 DEF u, v

(* A stream that starts adds two messages, and the fork is after both.     *)
Started(h, g, c, co, ms) ==
  LET a == addMessageInternal(h, <<SoftResetMsg>>)
      m == StreamStartMsg(c, co)
  IN  /\ SoundHist(g) /\ g.lastIndex >= h.lastIndex
      /\ g.messages = a.messages \o <<m>> /\ g.firstIndex = a.firstIndex /\ g.lastIndex = a.lastIndex + 1
      /\ g.sizeInBytes = h.sizeInBytes + 2 /\ g.resetStream = ms
      /\ g.resetStreamState = "Streaming" /\ g.ctxId = c
      /\ g.resetStreamIndex = Len(g.messages) /\ g.resetStreamMessageCount = 0
      /\ SoftResetMsg \in Recorded /\ m \in Recorded

(* That is what startStreamedReset does.                                   *)
LEMMA StartIs ==
  ASSUME NEW h, SoundHist(h), h.messages \in Seq(Recorded), NEW c \in Clients, NEW co \in Nat,
         NEW ms, IsSequence(ms), StartResult(h) = "Ok"
  PROVE  Started(h, startStreamedReset(h, c, co, ms), c, co, ms)
<1> DEFINE x == SoftResetMsg
           m == StreamStartMsg(c, co)
           a == addMessageInternal(h, <<x>>)
           g == startStreamedReset(h, c, co, ms)
<1> DEFINE q == h.messages
           two == <<x, m>>
           l == h.lastIndex
<1>1. SoundHist(g) /\ g.resetStreamState = "Streaming" /\ g.ctxId = c /\ g.lastIndex >= h.lastIndex
  BY StartSound
<1>2. x \in Recorded /\ m \in Recorded
  BY DEF SoftResetMsg, StreamStartMsg, Recorded
<1>3. two = <<x>> \o <<m>> /\ <<x>> \in Seq(Recorded) /\ <<m>> \in Seq(Recorded) /\ Len(<<x>>) = 1 /\ Len(two) = 2
  BY <1>2, PairIs, Literals
<1>4. /\ a.messages = q \o <<x>> /\ a.firstIndex = h.firstIndex /\ a.lastIndex = l + Len(<<x>>)
  BY DEF addMessageInternal, SoundHist, HistFields
<1>5. /\ g.messages = q \o two /\ g.firstIndex = h.firstIndex /\ g.lastIndex = l + Len(two)
      /\ g.sizeInBytes = h.sizeInBytes + Len(two) /\ g.resetStream = ms
      /\ g.resetStreamIndex = Len(g.messages) /\ g.resetStreamMessageCount = 0
  <2> DEFINE b == addMessageInternal(h, two)
  <2>1. /\ b.messages = q \o two /\ b.firstIndex = h.firstIndex /\ b.lastIndex = l + Len(two)
        /\ b.sizeInBytes = h.sizeInBytes + Len(two) /\ DOMAIN b = HistFields
    BY DEF addMessageInternal, SoundHist, HistFields, Size
  <2>2. g = [b EXCEPT !.resetStream = ms, !.resetStreamIndex = Len(b.messages),
                      !.resetStreamState = "Streaming", !.ctxId = c,
                      !.resetStreamSize = 0,
                      !.resetStreamStartIndex = b.lastIndex + 1,
                      !.resetStreamMessageCount = 0]
    BY DEF startStreamedReset
  <2> HIDE DEF b, two, q, l
  <2> QED BY <2>1, <2>2 DEF HistFields
<1>6. q \o two = (q \o <<x>>) \o <<m>>
  BY <1>2, OneByOne
<1>7. l \in Int
  BY DEF SoundHist
<1>8. Len(<<x>>) = 1 /\ Len(two) = 2
  BY <1>3
<1>9. a.lastIndex = l + 1 /\ g.lastIndex = l + 2 /\ g.sizeInBytes = h.sizeInBytes + 2
  BY <1>4, <1>5, <1>8
<1>10. g.lastIndex = a.lastIndex + 1
  BY <1>7, <1>9
<1>11. g.messages = a.messages \o <<m>>
  BY <1>4, <1>5, <1>6
<1> HIDE DEF q, two, l, g
<1> QED BY <1>1, <1>2, <1>4, <1>5, <1>9, <1>10, <1>11 DEF Started, g

(* The stream is forked off: what the server asked for is the only start   *)
(* with its number, and stands at the canvas of the fork.                  *)
LEMMA ForkKeeps ==
  ASSUME NEW s, NEW k, NEW n, InStep(s, k, Present(s), n), NEW c \in Present(s), Armed(s, c),
         k[c].correlator = s.payload, NoAsks(s.inbox[c]),
         \A i \in 1 .. Len(k[c].up) : k[c].up[i].type # "Stream",
         StartResult(s.hist) = "Ok",
         NEW t, t = [s EXCEPT !.hist = startStreamedReset(s.hist, c, s.payload, serverSideStateMessages(s))]
  PROVE  InStep(t, k, Present(s), n)
<1> DEFINE h == s.hist
           p == s.payload
           P == Present(s)
           x == SoftResetMsg
           m == StreamStartMsg(c, p)
           ms == serverSideStateMessages(s)
           a == addMessageInternal(h, <<x>>)
           g == startStreamedReset(h, c, p, ms)
           u == [s EXCEPT !.hist = addMessageInternal(@, <<x>>)]
<1>1. /\ Sound(s) /\ Fits(s) /\ SoundHist(h) /\ h.messages \in Seq(Recorded) /\ k \in [Clients -> Views]
      /\ n \in Nat /\ Room(s, n) /\ p \in Nat /\ Armings(s) /\ Dated(s, k) /\ P \subseteq Clients /\ c \in Clients
      /\ DOMAIN s = SessFields /\ h.sizeInBytes \in Nat
  BY LenProperties DEF InStep, Fits, Sound, SoundHist, IsSequence
<1>2. IsSequence(ms) /\ ms \in Seq(Snapshots) /\ Blank \in Readers
      /\ Reading(Blank, ms).users = Blank.users \cup P /\ Reading(Blank, ms).canvas = Blank.canvas
  BY <1>1, Reached, ReadingUsers, InSequence
<1>3. Blank.users = {} /\ Blank.canvas = << >>
  BY NewClientView, ReaderIs DEF Blank
<1>4. h.resetStreamState = "None" /\ hasRegularSpaceFor(h, 2)
  BY DEF StartResult
<1>5. /\ SoundHist(g) /\ g.lastIndex >= h.lastIndex
      /\ g.messages = a.messages \o <<m>> /\ g.firstIndex = a.firstIndex /\ g.lastIndex = a.lastIndex + 1
      /\ g.sizeInBytes = h.sizeInBytes + 2 /\ g.resetStream = ms
      /\ g.resetStreamState = "Streaming" /\ g.ctxId = c
      /\ g.resetStreamIndex = Len(g.messages) /\ g.resetStreamMessageCount = 0
      /\ x \in Recorded /\ m \in Recorded
  <2>1. Started(h, g, c, p, ms)
    <3> HIDE DEF h, p, ms
    <3> QED BY <1>1, <1>2, StartIs DEF h
  <2> HIDE DEF g, h, ms, p
  <2> QED BY <2>1 DEF Started
<1>6. x.type = "SoftReset" /\ m.type = "StreamStart" /\ m.correlator = p
  BY DEF SoftResetMsg, StreamStartMsg
<1>7. /\ t.hist = g /\ t.clients = s.clients /\ t.payload = p /\ t.inbox = s.inbox
      /\ t.position = s.position /\ t.flags = s.flags /\ t.status = s.status
      /\ t.state = s.state /\ t.resetstream = s.resetstream /\ t.candidates = s.candidates
      /\ u.hist = a /\ u.inbox = s.inbox /\ u.position = s.position /\ u.payload = p
      /\ u.flags = s.flags /\ u.status = s.status /\ u.state = s.state /\ u.clients = s.clients
  BY <1>1 DEF SessFields
<1>8. Sound(t)
  <2> HIDE DEF g
  <2>1. t = [s EXCEPT !.hist = g]
    BY DEF g
  <2> QED BY <1>1, <1>5, <2>1, HistSound
<1> HIDE DEF g, ms, x, m, h
<1>9. Room(t, n) /\ Room(u, n)
  <2> DEFINE z == h.sizeInBytes
  <2>1. u.hist.sizeInBytes = z + 1
    <3>1. Len(<<x>>) = 1
      BY Literals
    <3>2. a.sizeInBytes = z + Len(<<x>>)
      BY <1>1 DEF addMessageInternal, Size, SoundHist, HistFields
    <3> QED BY <1>7, <3>1, <3>2
  <2>2. t.hist.sizeInBytes = z + 2 /\ z \in Nat
    BY <1>1, <1>5, <1>7
  <2>3. SizeLimit = 0 \/ z + 2 <= SizeLimit
    BY <1>4, SessionHistoryAssumption DEF hasRegularSpaceFor, hasSpaceFor
  <2> HIDE DEF z, u
  <2> QED BY <1>1, <2>1, <2>2, <2>3, SessionHistoryAssumption DEF Room
<1>10. InStep(u, k, P, n)
  <2> DEFINE w == u
  <2>1. w = [s EXCEPT !.hist = addMessageInternal(@, <<x>>)] /\ Room(w, n) /\ InStep(s, k, P, n)
    BY <1>9
  <2>2. Amid(P, x) = P
    BY <1>6 DEF Amid
  <2> HIDE DEF w, P
  <2>3. InStep(w, k, Amid(P, x), n)
    BY <1>1, <1>5, <1>6, <2>1, AddedKeeps
  <2> QED BY <2>2, <2>3 DEF w
<1> HIDE DEF u, a
<1>11. /\ Sound(u) /\ Fits(u) /\ Agreed(u, k, P) /\ Dated(u, k) /\ Asking(u, k) /\ Armings(u)
  BY <1>10 DEF InStep
<1>12. Present(t) = P /\ Present(u) = P /\ P \subseteq Clients
  BY <1>1, <1>7 DEF Present
<1>13. Added(u, t, m)
  BY <1>5, <1>7 DEF Added
<1>14. /\ t.hist.messages \in Seq(Recorded)
       /\ Late(t) = Sees(Late(u), m)
       /\ \A d \in Clients : /\ End(t, k, d) = Sees(End(u, k, d), m)
                             /\ Arrived(t, k, d) = Arrived(u, k, d)
  <2>1. SeenMore(u, t, k, m)
    BY <1>1, <1>5, <1>11, <1>13, AddedSees
  <2> QED BY <2>1 DEF SeenMore
<1>15. Late(u) \in Readers /\ \A d \in Clients : End(u, k, d) \in Readers
  BY <1>1, <1>11, Reached
<1> DEFINE o == Late(u).canvas
<1>16. ASSUME NEW r \in Readers
       PROVE  /\ Sees(r, m).canvas = r.canvas /\ Sees(r, m).users = r.users
              /\ Sees(r, m).starts = r.starts \cup {<<p, r.canvas>>}
  <2>1. m \in Messages
    BY <1>5, MessageSets
  <2> QED BY <1>6, <2>1, SeesIs
<1>17. Late(t).users = P /\ Late(t).canvas = o /\ Late(t).starts = Late(u).starts \cup {<<p, o>>}
  BY <1>11, <1>14, <1>15, <1>16 DEF Agreed
<1>18. ASSUME NEW d \in P
       PROVE  /\ Alike(End(t, k, d), Late(t)) /\ End(t, k, d).starts = End(u, k, d).starts \cup {<<p, o>>}
              /\ Arrived(t, k, d) = Arrived(u, k, d)
  <2>1. d \in Clients /\ Alike(End(u, k, d), Late(u))
    BY <1>11, <1>12 DEF Agreed
  <2> QED BY <1>11, <1>14, <1>15, <1>16, <1>17, <2>1 DEF Alike, Agreed
<1>19. Agreed(t, k, P)
  BY <1>7, <1>11, <1>12, <1>17, <1>18 DEF Agreed
<1>20. Fits(t)
  <2>1. t.hist.resetStream \in Seq(Snapshots) /\ t.hist.resetStreamMessageCount \in Nat
    BY <1>2, <1>5, <1>7
  <2>2. t.hist.messages \in Seq(Recorded)
    BY <1>14
  <2> QED BY <1>1, <1>7, <1>12, <2>1, <2>2 DEF Fits
<1>21. ForkView(t) = Late(t)
  <2>1. SubSeq(g.messages, 1, Len(g.messages)) = g.messages
    BY <1>7, <1>14, SubSeqFull
  <2> QED BY <1>5, <1>7, <2>1 DEF ForkView, Late
<1>22. ImageView(t).users = P /\ ImageView(t).canvas = << >>
  BY <1>2, <1>3, <1>5, <1>7 DEF ImageView
<1>23. Forked(t)
  BY <1>5, <1>7, <1>17, <1>21, <1>22 DEF Forked, Streaming
<1>24. StartsBelow(u, k, p)
  <2>1. u.hist.resetStreamState # "Streaming"
    BY <1>1, <1>4, <1>7 DEF a, addMessageInternal, SoundHist, HistFields
  <2>2. Unstarted(u)
    BY <1>1, <1>7, <2>1 DEF Unstarted, Streaming, Armed
  <2> QED BY <1>7, <1>11, <2>2 DEF Dated
<1>25. /\ \A y \in Late(t).starts : y = <<p, o>> \/ y[1] < p
       /\ \A d \in P : \A y \in End(t, k, d).starts : y = <<p, o>> \/ y[1] < p
  BY <1>12, <1>17, <1>18, <1>24 DEF StartsBelow, Below
<1>26. \A y : (y = <<p, o>> \/ y[1] < p) => /\ y[1] = p => y[2] = o
                                            /\ y = <<p, o>> => y[1] < p + 1
  BY <1>1
<1>27. Marked(t, k)
  <2>1. ForkView(t).canvas = o
    BY <1>17, <1>21
  <2> HIDE DEF o
  <2>2. OfFork(t, Late(t).starts) /\ \A d \in P : OfFork(t, End(t, k, d).starts)
    BY <1>7, <1>25, <1>26, <2>1 DEF OfFork
  <2> QED BY <1>12, <2>2 DEF Marked
<1>28. Dated(t, k)
  <2>1. StartsBelow(u, k, p + 1)
    BY <1>7, <1>11 DEF Dated
  <2>2. <<p, o>>[1] < p + 1
    BY <1>1
  <2>3. StartsBelow(t, k, p + 1)
    BY <1>12, <1>17, <1>18, <2>1, <2>2 DEF StartsBelow, Below
  <2>4. ~Unstarted(t)
    BY <1>5, <1>7 DEF Unstarted, Streaming
  <2> QED BY <1>7, <2>3, <2>4 DEF Dated
<1>29. Asking(t, k)
  BY <1>7, <1>11, ZenonT(30) DEF Asking, AskingOne, Asked, Armed
<1>30. Armings(t)
  <2>1. t.status = "Requested"
    BY <1>1, <1>7 DEF Armings
  <2>2. \A d, e \in Clients : Armed(t, d) /\ Armed(t, e) => d = e
    BY <1>1, <1>7 DEF Armings, Armed
  <2>3. t.hist.ctxId = c /\ Armed(t, c) /\ c \in Clients
    BY <1>1, <1>5, <1>7, <1>12, SMTT(30) DEF Armed
  <2> QED BY <2>1, <2>2, <2>3 DEF Armings
<1>31. Streamer(t, k)
  BY <1>1, <1>5, <1>7 DEF Streamer, Streams
<1> QED BY <1>1, <1>8, <1>9, <1>12, <1>19, <1>20, <1>23, <1>27, <1>28, <1>29, <1>30, <1>31 DEF InStep

(* Flags other than those of somebody who is asked to reset.               *)
LEMMA FlagsKeeps ==
  ASSUME NEW s, NEW k, NEW P, NEW n, InStep(s, k, P, n), NEW c, NEW F,
         ~({"Awaiting", "Streaming"} \subseteq F)
  PROVE  InStep([s EXCEPT !.flags[c] = F], k, P, n)
<1> DEFINE t == [s EXCEPT !.flags[c] = F]
<1>1. Sound(s) /\ Fits(s) /\ DOMAIN s = SessFields
  BY DEF InStep, Sound
<1>2. /\ DOMAIN t = SessFields /\ t.hist = s.hist /\ t.clients = s.clients /\ t.payload = s.payload
      /\ t.inbox = s.inbox /\ t.position = s.position /\ t.status = s.status /\ t.state = s.state
      /\ t.resetstream = s.resetstream /\ t.candidates = s.candidates /\ t.ops = s.ops
      /\ t.flags = [s.flags EXCEPT ![c] = F]
  BY <1>1 DEF SessFields
<1> HIDE DEF t
<1>3. DOMAIN t.flags = Clients /\ \A d \in Clients : Armed(t, d) => Armed(s, d)
  BY <1>1, <1>2 DEF Sound, Armed
<1>4. Sound(t)
  BY <1>1, <1>2, <1>3 DEF Sound, Present
<1>5. Fits(t)
  BY <1>1, <1>2 DEF Fits, Present
<1>6. Meek(s, t)
  BY <1>2, <1>3 DEF Meek, Asked, Streaming, Unstarted
<1>7. Quieter(s, t)
  BY <1>2, <1>6 DEF Quieter
<1> QED BY <1>4, <1>5, <1>7, QuieterKeeps DEF t

(* Who starts a stream has been asked for it last, and has drawn nothing   *)
(* of a stream yet.                                                        *)
Starter(s, v, c) ==
  /\ v.correlator = s.payload /\ NoAsks(s.inbox[c])
  /\ \A i \in 1 .. Len(v.up) : v.up[i].type # "Stream"

(* Starting a streamed reset.                                              *)
LEMMA StreamStartKeeps ==
  ASSUME NEW s, NEW k, NEW n, InStep(s, k, Present(s), n), NEW c \in Present(s), NEW co,
         Armed(s, c) /\ co = s.payload => Starter(s, k[c], c)
  PROVE  InStep(handleStreamResetStart(s, c, co), k, Present(s), n)
<1> DEFINE P == Present(s)
           h == startStreamedReset(s.hist, c, co, serverSideStateMessages(s))
           t == [s EXCEPT !.hist = h]
           F == {"Streaming"}
           r == TRUE
<1>1. CASE ~(s.status # "Requested") /\ Armed(s, c) /\ co = s.payload /\ StartResult(s.hist) = "Ok"
  <2>1. InStep(t, k, P, n)
    <3>1. t = [s EXCEPT !.hist = startStreamedReset(s.hist, c, s.payload, serverSideStateMessages(s))]
      BY <1>1
    <3> HIDE DEF t
    <3> QED BY <1>1, <3>1, ForkKeeps DEF Starter
  <2>2. handleStreamResetStart(s, c, co) = [newMessagesAvailable(t) EXCEPT !.flags[c] = F]
    BY <1>1 DEF handleStreamResetStart, Armed
  <2>3. ~({"Awaiting", "Streaming"} \subseteq F)
    OBVIOUS
  <2> HIDE DEF t, P, F
  <2>4. InStep(newMessagesAvailable(t), k, P, n)
    BY <2>1, NewMessagesKeeps
  <2>5. InStep([newMessagesAvailable(t) EXCEPT !.flags[c] = F], k, P, n)
    BY <2>3, <2>4, FlagsKeeps
  <2> QED BY <2>2, <2>5 DEF P
<1>2. CASE ~(s.status # "Requested") /\ Armed(s, c) /\ co # s.payload
  <2>1. handleStreamResetStart(s, c, co) = clearAutoReset(s, r)
    BY <1>2 DEF handleStreamResetStart, Armed
  <2> HIDE DEF P, r
  <2>2. InStep(clearAutoReset(s, r), k, P, n)
    BY ClearedKeeps DEF P
  <2> QED BY <2>1, <2>2 DEF P
<1>3. CASE \/ s.status # "Requested" \/ ~Armed(s, c)
           \/ co = s.payload /\ StartResult(s.hist) # "Ok"
  BY <1>3 DEF handleStreamResetStart, Armed
<1> QED BY <1>1, <1>2, <1>3

(* Aborting a streamed reset.                                              *)
LEMMA StreamAbortKeeps ==
  ASSUME NEW s, NEW k, NEW P, NEW n, InStep(s, k, P, n), NEW c
  PROVE  InStep(handleStreamResetAbort(s, c), k, P, n)
<1> DEFINE h == abortStreamedReset(s.hist, c)
           r == TRUE
<1>1. SoundHist(s.hist)
  BY DEF InStep, Sound
<1>2. Unstreamed(s.hist, h)
  BY <1>1, AbortUnstreamed
<1>3. StreamedResetBy(s.hist, c) => handleStreamResetAbort(s, c) = clearAutoReset([s EXCEPT !.hist = h], r)
  BY DEF handleStreamResetAbort
<1> HIDE DEF h, r
<1>4. InStep(clearAutoReset([s EXCEPT !.hist = h], r), k, P, n)
  BY <1>2, ClearKeeps
<1> QED BY <1>3, <1>4 DEF handleStreamResetAbort

(* A message for the image of a streamed reset.                            *)
StreamedOn(s, t, m) ==
  /\ Sound(t) /\ t.hist.messages = s.hist.messages /\ t.hist.firstIndex = s.hist.firstIndex
  /\ t.hist.lastIndex = s.hist.lastIndex /\ t.hist.sizeInBytes = s.hist.sizeInBytes
  /\ t.hist.resetStreamState = s.hist.resetStreamState /\ t.hist.ctxId = s.hist.ctxId
  /\ t.hist.resetStreamIndex = s.hist.resetStreamIndex
  /\ t.hist.resetStream = Append(s.hist.resetStream, m)
  /\ t.hist.resetStreamMessageCount = s.hist.resetStreamMessageCount + 1
  /\ t.clients = s.clients /\ t.payload = s.payload /\ t.inbox = s.inbox /\ t.position = s.position
  /\ t.flags = s.flags /\ t.status = s.status /\ t.state = s.state
  /\ t.resetstream = s.resetstream /\ t.candidates = s.candidates

(* What the stream adds to the history.                                    *)
LEMMA StreamedIs ==
  ASSUME NEW s, Sound(s), NEW c, AddResult(s.hist, c) = "Ok", NEW m,
         NEW t, t = [s EXCEPT !.hist = addStreamResetMessage(@, c, m)]
  PROVE  StreamedOn(s, t, m)
<1> DEFINE h == s.hist
           g == addStreamResetMessage(h, c, m)
<1>1. SoundHist(h) /\ DOMAIN s = SessFields /\ h.lastIndex \in Int
  BY DEF Sound, SoundHist
<1>2. SoundHist(g) /\ g.lastIndex = h.lastIndex
  BY <1>1, AddStreamSound
<1>3. g = [h EXCEPT !.resetStreamSize = @ + 1, !.resetStream = Append(@, m), !.resetStreamMessageCount = @ + 1]
  BY DEF addStreamResetMessage
<1>4. /\ g.messages = h.messages /\ g.firstIndex = h.firstIndex /\ g.sizeInBytes = h.sizeInBytes
      /\ g.resetStreamState = h.resetStreamState /\ g.ctxId = h.ctxId /\ g.resetStreamIndex = h.resetStreamIndex
      /\ g.resetStream = Append(h.resetStream, m)
      /\ g.resetStreamMessageCount = h.resetStreamMessageCount + 1
  BY <1>1, <1>3 DEF SoundHist, HistFields
<1>5. t = [s EXCEPT !.hist = g]
  OBVIOUS
<1> HIDE DEF g
<1>6. Sound(t)
  BY <1>1, <1>2, <1>5, HistSound
<1>7. /\ t.hist = g /\ t.clients = s.clients /\ t.payload = s.payload /\ t.inbox = s.inbox
      /\ t.position = s.position /\ t.flags = s.flags /\ t.status = s.status /\ t.state = s.state
      /\ t.resetstream = s.resetstream /\ t.candidates = s.candidates
  BY <1>1, <1>5 DEF SessFields
<1> QED BY <1>2, <1>4, <1>6, <1>7 DEF StreamedOn

(* The image of a stream is drawn.                                         *)
LEMMA DrawnKeeps ==
  ASSUME NEW s, NEW k, NEW P, NEW n, InStep(s, k, P, n), Streaming(s), NEW m \in Images,
         m.canvas = ForkView(s).canvas, NEW t, StreamedOn(s, t, m)
  PROVE  InStep(t, k, P, n)
<1>1. /\ Sound(s) /\ Fits(s) /\ k \in [Clients -> Views] /\ P \subseteq Clients /\ n \in Nat
      /\ Agreed(s, k, P) /\ Forked(s) /\ Marked(s, k) /\ Dated(s, k)
      /\ Asking(s, k) /\ Armings(s) /\ Streamer(s, k) /\ Room(s, n)
  BY DEF InStep
<1>2. /\ m \in Snapshots /\ m \in Messages /\ m.type = "Image"
  BY DEF Images, Snapshots, Messages, Recorded
<1>3. \A p : getBatch(t.hist, p) = getBatch(s.hist, p)
  BY DEF StreamedOn, getBatch
<1>4. /\ Late(t) = Late(s) /\ ForkView(t) = ForkView(s)
      /\ \A c : End(t, k, c) = End(s, k, c)
      /\ \A c : Arrived(t, k, c) = Arrived(s, k, c)
  BY <1>3 DEF StreamedOn, Late, ForkView, End, Arrived, Flow
<1>5. /\ t.hist.resetStream \in Seq(Snapshots)
      /\ ImageView(t) = Sees(ImageView(s), m) /\ ImageView(s) \in Readers
  <2> DEFINE q == s.hist.resetStream
             one == <<m>>
  <2>1. q \in Seq(Snapshots) /\ q \in Seq(Messages) /\ one \in Seq(Messages) /\ Blank \in Readers /\ ImageView(s) \in Readers
        /\ Append(q, m) \in Seq(Snapshots)
    <3>1. Snapshots \subseteq Messages
      BY DEF Messages, Snapshots
    <3>2. q \in Seq(Snapshots)
      BY <1>1 DEF Fits
    <3> QED BY <1>1, <1>2, <3>1, <3>2, SeqOfMore, Reached
  <2>2. Append(q, m) = q \o one
    BY AppendIsConcat, SMTT(30)
  <2> HIDE DEF q, one
  <2>3. Reading(Blank, q \o one) = Reading(Reading(Blank, q), one)
    BY <2>1, ReadingParts
  <2>4. Reading(ImageView(s), one) = Sees(ImageView(s), m)
    BY <1>2, <2>1, ReadingOne DEF one
  <2> QED BY <2>1, <2>2, <2>3, <2>4 DEF StreamedOn, ImageView, q
<1>6. /\ ImageView(t).users = ImageView(s).users
      /\ ImageView(t).canvas = ImageView(s).canvas \o m.canvas
  <2> DEFINE v == ImageView(s)
  <2>1. v \in Readers /\ ImageView(t) = Sees(v, m)
    BY <1>5
  <2> HIDE DEF v
  <2>2. Sees(v, m).users = v.users /\ Sees(v, m).canvas = v.canvas \o m.canvas
    BY <1>2, <2>1, SeesIs
  <2> QED BY <2>1, <2>2 DEF v
<1>7. Present(t) = Present(s)
  BY DEF Present, StreamedOn
<1>8. Fits(t)
  BY <1>1, <1>5, <1>7, SMTT(30) DEF Fits, StreamedOn
<1>9. Agreed(t, k, P)
  BY <1>1, <1>4, <1>7 DEF Agreed, StreamedOn
<1>10. Forked(t)
  <2>1. s.hist.resetStreamMessageCount \in Nat
    BY <1>1 DEF Fits
  <2>2. << >> \o m.canvas = m.canvas
    <3>1. m.canvas \in Seq(Nat)
      BY <1>2, MessageFields
    <3> DEFINE q == m.canvas
    <3> HIDE DEF q
    <3>2. << >> \o q = q
      BY <3>1 DEF q
    <3> QED BY <3>2 DEF q
  <2>3. ImageView(t).users = ForkView(t).users
    BY <1>1, <1>4, <1>6 DEF Forked, Streaming
  <2>4. s.hist.resetStreamMessageCount = 0 => ImageView(t).canvas = ForkView(t).canvas
    BY <1>1, <1>4, <1>6, <2>2 DEF Forked
  <2> QED BY <2>1, <2>3, <2>4 DEF Forked, Streaming, StreamedOn
<1>11. Marked(t, k)
  BY <1>1, <1>4, <1>7 DEF Marked, OfFork, Streaming, StreamedOn
<1>12. Dated(t, k)
  BY <1>1, <1>4, <1>7 DEF Dated, StartsBelow, Unstarted, Asked, Armed, Streaming, StreamedOn
<1>13. Asking(t, k)
  BY <1>1 DEF Asking, AskingOne, Asked, Armed, StreamedOn
<1>14. Armings(t)
  BY <1>1 DEF Armings, Armed, Streaming, StreamedOn
<1>15. Streamer(t, k)
  BY <1>1, <1>4 DEF Streamer, Streaming, StreamedOn
<1>16. Room(t, n) /\ Sound(t)
  BY <1>1 DEF Room, StreamedOn
<1> QED BY <1>1, <1>8, <1>9, <1>10, <1>11, <1>12, <1>13, <1>14, <1>15, <1>16 DEF InStep

(* The server tells the streamer how it goes.                              *)
LEMMA ProgressKeeps ==
  ASSUME NEW s, NEW k, NEW P, NEW n, InStep(s, k, P, n), NEW c \in Present(s), NEW cancel \in BOOLEAN
  PROVE  InStep(sendDirectMessage(s, c, ProgressMsg(cancel)), k, P, n)
<1> DEFINE m == ProgressMsg(cancel)
           cs == {c}
<1>1. m \in Messages /\ Quiet(m) /\ ~Asks(m)
  BY DEF ProgressMsg, Messages, Quiet, Asks
<1>2. cs \subseteq Present(s)
  OBVIOUS
<1>3. sendDirectMessage(s, c, ProgressMsg(cancel)) = sendDirectMessages(s, cs, m)
  BY DEF sendDirectMessage
<1> HIDE DEF m, cs
<1> QED BY <1>1, <1>2, <1>3, DirectKeeps

(* A message for the image of a streamed reset.                            *)
LEMMA StreamKeeps ==
  ASSUME NEW s, NEW k, NEW P, NEW n, InStep(s, k, P, n), NEW c \in Present(s), NEW m \in Images,
         Streaming(s) /\ c = s.hist.ctxId => m.canvas = ForkView(s).canvas
  PROVE  InStep(onResetStream(s, c, m), k, P, n)
<1> DEFINE g == addStreamResetMessage(s.hist, c, m)
           t == [s EXCEPT !.hist = addStreamResetMessage(@, c, m)]
           no == FALSE
           yes == TRUE
<1>1. Sound(s) /\ Fits(s) /\ SoundHist(s.hist) /\ DOMAIN s = SessFields /\ no \in BOOLEAN /\ yes \in BOOLEAN
  BY DEF InStep, Sound
<1>2. t.clients = s.clients /\ Present(t) = Present(s)
  BY <1>1 DEF SessFields, Present
<1>3. InStep(t, k, P, n)
  <2>1. CASE AddResult(s.hist, c) = "Ok"
    <3>1. Streaming(s) /\ m.canvas = ForkView(s).canvas
      BY <2>1 DEF AddResult, Streaming
    <3>2. StreamedOn(s, t, m)
      BY <1>1, <2>1, StreamedIs
    <3> HIDE DEF t
    <3> QED BY <3>1, <3>2, DrawnKeeps
  <2>2. CASE AddResult(s.hist, c) # "Ok"
    <3>1. g = s.hist
      BY <2>2 DEF addStreamResetMessage
    <3>2. t = [s EXCEPT !.hist = s.hist]
      BY <3>1
    <3>3. s.hist.lastIndex >= s.hist.lastIndex
      BY <1>1 DEF SoundHist
    <3>4. Sound(t)
      BY <1>1, <3>2, <3>3, HistSound
    <3>5. /\ t.hist = s.hist /\ t.clients = s.clients /\ t.payload = s.payload /\ t.inbox = s.inbox
          /\ t.position = s.position /\ t.flags = s.flags /\ t.status = s.status /\ t.state = s.state
          /\ t.resetstream = s.resetstream /\ t.candidates = s.candidates
      BY <1>1, <3>2 DEF SessFields
    <3> HIDE DEF t
    <3>6. Plain(s, t)
      BY <1>1, <3>5 DEF Plain, Fits
    <3> QED BY <3>4, <3>6, PlainKeeps
  <2> QED BY <2>1, <2>2
<1>4. /\ AddResult(s.hist, c) = "Ok" => onResetStream(s, c, m) = sendDirectMessage(t, c, ProgressMsg(no))
      /\ AddResult(s.hist, c) = "OutOfSpace" =>
           onResetStream(s, c, m) = clearAutoReset(sendDirectMessage(t, c, ProgressMsg(yes)), yes)
      /\ AddResult(s.hist, c) \notin {"Ok", "OutOfSpace"} =>
           onResetStream(s, c, m) = sendDirectMessage(t, c, ProgressMsg(yes))
  BY DEF onResetStream
<1> HIDE DEF t, no, yes
<1>5. InStep(sendDirectMessage(t, c, ProgressMsg(no)), k, P, n)
  BY <1>1, <1>2, <1>3, ProgressKeeps
<1>6. InStep(sendDirectMessage(t, c, ProgressMsg(yes)), k, P, n)
  BY <1>1, <1>2, <1>3, ProgressKeeps
<1>7. InStep(clearAutoReset(sendDirectMessage(t, c, ProgressMsg(yes)), yes), k, P, n)
  BY <1>6, ClearedKeeps
<1> QED BY <1>4, <1>5, <1>6, <1>7

(* A stream that is complete.                                              *)
Finished(s, t) ==
  /\ Sound(t) /\ t.hist.messages = s.hist.messages /\ t.hist.firstIndex = s.hist.firstIndex
  /\ t.hist.lastIndex = s.hist.lastIndex /\ t.hist.sizeInBytes = s.hist.sizeInBytes
  /\ t.hist.resetStreamState = "Prepared"
  /\ t.hist.resetStreamIndex = s.hist.resetStreamIndex
  /\ t.hist.resetStream = Append(s.hist.resetStream, CaughtUpMsg)
  /\ t.hist.resetStreamMessageCount = s.hist.resetStreamMessageCount
  /\ t.clients = s.clients /\ t.payload = s.payload /\ t.inbox = s.inbox /\ t.position = s.position
  /\ t.flags = s.flags /\ t.status = s.status /\ t.state = s.state
  /\ t.resetstream = s.resetstream /\ t.candidates = s.candidates

(* What finishing a stream does to the history.                            *)
LEMMA FinishedIs ==
  ASSUME NEW s, Sound(s), NEW c, NEW e, PrepareResult(s.hist, c, e) = "Ok",
         NEW t, t = [s EXCEPT !.hist = prepareStreamedReset(@, c, e)]
  PROVE  Finished(s, t)
<1> DEFINE h == s.hist
           g == prepareStreamedReset(h, c, e)
<1>1. SoundHist(h) /\ DOMAIN s = SessFields /\ h.lastIndex \in Int
  BY DEF Sound, SoundHist
<1>2. SoundHist(g) /\ g.lastIndex = h.lastIndex
  BY <1>1, PrepareSound
<1>3. g = [h EXCEPT !.resetStream = Append(@, CaughtUpMsg), !.resetStreamState = "Prepared", !.ctxId = 0]
  BY DEF prepareStreamedReset
<1>4. /\ g.messages = h.messages /\ g.firstIndex = h.firstIndex /\ g.sizeInBytes = h.sizeInBytes
      /\ g.resetStreamState = "Prepared" /\ g.resetStreamIndex = h.resetStreamIndex
      /\ g.resetStream = Append(h.resetStream, CaughtUpMsg)
      /\ g.resetStreamMessageCount = h.resetStreamMessageCount
  BY <1>1, <1>3 DEF SoundHist, HistFields
<1>5. t = [s EXCEPT !.hist = g]
  OBVIOUS
<1> HIDE DEF g
<1>6. Sound(t)
  BY <1>1, <1>2, <1>5, HistSound
<1>7. /\ t.hist = g /\ t.clients = s.clients /\ t.payload = s.payload /\ t.inbox = s.inbox
      /\ t.position = s.position /\ t.flags = s.flags /\ t.status = s.status /\ t.state = s.state
      /\ t.resetstream = s.resetstream /\ t.candidates = s.candidates
  BY <1>1, <1>5 DEF SessFields
<1> QED BY <1>2, <1>4, <1>6, <1>7 DEF Finished

(* The image is the canvas of the fork, and nobody else is asked.          *)
LEMMA FinishedKeeps ==
  ASSUME NEW s, NEW k, NEW P, NEW n, InStep(s, k, P, n), SoundStream(s), Streaming(s),
         s.hist.resetStreamMessageCount = 1, NEW t, Finished(s, t)
  PROVE  InStep(t, k, P, n)
<1>1. /\ Sound(s) /\ Fits(s) /\ k \in [Clients -> Views] /\ P \subseteq Clients /\ n \in Nat
      /\ Agreed(s, k, P) /\ Forked(s) /\ Marked(s, k) /\ Dated(s, k)
      /\ Asking(s, k) /\ Armings(s) /\ Streamer(s, k) /\ Room(s, n)
  BY DEF InStep
<1> DEFINE m == CaughtUpMsg
<1>2. m \in Snapshots /\ m \in Messages /\ Quiet(m)
  BY DEF CaughtUpMsg, Snapshots, Messages, Recorded, Quiet
<1>3. \A p : getBatch(t.hist, p) = getBatch(s.hist, p)
  BY DEF Finished, getBatch
<1>4. /\ Late(t) = Late(s) /\ ForkView(t) = ForkView(s)
      /\ \A c : End(t, k, c) = End(s, k, c)
      /\ \A c : Arrived(t, k, c) = Arrived(s, k, c)
  BY <1>3 DEF Finished, Late, ForkView, End, Arrived, Flow
<1>5. /\ t.hist.resetStream \in Seq(Snapshots) /\ ImageView(t) = ImageView(s)
  <2> DEFINE q == s.hist.resetStream
  <2>1. q \in Seq(Snapshots) /\ q \in Seq(Messages) /\ Blank \in Readers /\ Append(q, m) \in Seq(Snapshots)
    <3>1. Snapshots \subseteq Messages
      BY DEF Messages, Snapshots
    <3>2. q \in Seq(Snapshots)
      BY <1>1 DEF Fits
    <3> QED BY <1>1, <1>2, <3>1, <3>2, SeqOfMore, Reached
  <2> HIDE DEF q, m
  <2>2. Reading(Blank, Append(q, m)) = Reading(Blank, q)
    BY <1>2, <2>1, ReadingQuiet
  <2> QED BY <2>1, <2>2 DEF Finished, ImageView, q, m
<1> HIDE DEF m
<1>6. Present(t) = Present(s) /\ ~Streaming(t)
  BY DEF Present, Finished, Streaming
<1>7. ~Unstarted(t)
  <2>1. s.status = "Requested" /\ s.flags[s.hist.ctxId] = {"Streaming"}
    BY DEF SoundStream
  <2>2. ~Armed(s, s.hist.ctxId)
    BY <2>1 DEF Armed
  <2>3. \A c \in Clients : ~Armed(s, c)
    BY <1>1, <2>2 DEF Armings
  <2> QED BY <2>1, <2>3 DEF Unstarted, Asked, Armed, Finished
<1>8. Fits(t)
  BY <1>1, <1>5, <1>6 DEF Fits, Finished
<1>9. Agreed(t, k, P)
  BY <1>1, <1>4, <1>6 DEF Agreed, Finished
<1>10. Forked(t)
  <2>1. /\ ImageView(s).users = ForkView(s).users /\ ImageView(s).canvas = ForkView(s).canvas
    BY <1>1 DEF Forked, Streaming
  <2> QED BY <1>4, <1>5, <1>6, <2>1 DEF Forked
<1>11. Marked(t, k) /\ Streamer(t, k)
  BY <1>6 DEF Marked, Streamer
<1>12. Dated(t, k)
  BY <1>1, <1>4, <1>6, <1>7 DEF Dated, StartsBelow, Finished
<1>13. Asking(t, k)
  BY <1>1 DEF Asking, AskingOne, Asked, Armed, Finished
<1>14. Armings(t)
  BY <1>1, <1>6 DEF Armings, Armed, Finished
<1>15. Room(t, n) /\ Sound(t)
  BY <1>1 DEF Room, Finished
<1> QED BY <1>1, <1>8, <1>9, <1>10, <1>11, <1>12, <1>13, <1>14, <1>15 DEF InStep

(* Finishing a streamed reset, whose image is one message.                 *)
LEMMA StreamFinishKeeps ==
  ASSUME NEW s, NEW k, NEW P, NEW n, InStep(s, k, P, n), SoundStream(s), NEW c, NEW e, e = 1
  PROVE  InStep(handleStreamResetFinish(s, c, e), k, P, n)
<1> DEFINE h == s.hist
           g == prepareStreamedReset(h, c, e)
           t == [s EXCEPT !.hist = prepareStreamedReset(@, c, e)]
           u == [t EXCEPT !.flags[c] = {}]
           result == PrepareResult(h, c, e)
           r == TRUE
<1>1. Sound(s) /\ SoundHist(h)
  BY DEF InStep, Sound
<1>2. CASE result = "Ok"
  <2>1. Finished(s, t)
    BY <1>1, <1>2, FinishedIs
  <2>2. Streaming(s) /\ h.resetStreamMessageCount = 1
    BY <1>2 DEF PrepareResult, Streaming
  <2>3. handleStreamResetFinish(s, c, e) = resolvePendingStreamedReset(u)
    BY <1>2 DEF handleStreamResetFinish
  <2>4. InStep(t, k, P, n)
    <3> HIDE DEF t
    <3> QED BY <2>1, <2>2, FinishedKeeps
  <2>5. InStep(u, k, P, n)
    <3> DEFINE F == {}
    <3>1. ~({"Awaiting", "Streaming"} \subseteq F)
      OBVIOUS
    <3>2. u = [t EXCEPT !.flags[c] = F]
      OBVIOUS
    <3> HIDE DEF t, u, F
    <3> QED BY <2>4, <3>1, <3>2, FlagsKeeps
  <2> HIDE DEF t, u
  <2> QED BY <2>3, <2>5, ResolveKeeps
<1>3. CASE result = "InvalidMessageCount"
  <2>1. handleStreamResetFinish(s, c, e) = clearAutoReset(t, r)
    BY <1>3 DEF handleStreamResetFinish
  <2>2. g = abortActiveStreamedReset(h)
    BY <1>3 DEF prepareStreamedReset
  <2>3. Unstreamed(s.hist, g)
    BY <1>1, <2>2, AbortUnstreamed
  <2>4. t = [s EXCEPT !.hist = g]
    OBVIOUS
  <2> HIDE DEF t, g, r
  <2>5. InStep(clearAutoReset([s EXCEPT !.hist = g], r), k, P, n)
    BY <2>3, ClearKeeps
  <2> QED BY <2>1, <2>4, <2>5
<1>4. CASE result \notin {"Ok", "InvalidMessageCount"}
  <2>1. handleStreamResetFinish(s, c, e) = t
    BY <1>4 DEF handleStreamResetFinish
  <2>2. t = [s EXCEPT !.hist = s.hist]
    BY <1>4 DEF prepareStreamedReset
  <2>3. h.lastIndex >= h.lastIndex /\ DOMAIN s = SessFields /\ Fits(s)
    BY <1>1 DEF SoundHist, Sound, InStep
  <2>4. Sound(t)
    BY <1>1, <2>2, <2>3, HistSound
  <2>5. /\ t.hist = s.hist /\ t.clients = s.clients /\ t.payload = s.payload /\ t.inbox = s.inbox
        /\ t.position = s.position /\ t.flags = s.flags /\ t.status = s.status /\ t.state = s.state
        /\ t.resetstream = s.resetstream /\ t.candidates = s.candidates
    BY <2>2, <2>3 DEF SessFields
  <2> HIDE DEF t
  <2>6. Plain(s, t)
    BY <2>3, <2>5 DEF Plain, Fits
  <2> QED BY <2>1, <2>4, <2>6, PlainKeeps
<1> QED BY <1>2, <1>3, <1>4

(* The image of a full reset begins, ends and is given up.                 *)
LEMMA InitKeeps ==
  ASSUME NEW s, NEW k, NEW n, InStep(s, k, Present(s), n), SoundState(s), NEW c \in Clients
  PROVE  /\ InStep(handleInitBegin(s, c), k, Present(s), n)
         /\ InStep(handleInitComplete(s, c), k, Present(s), n)
         /\ InStep(handleInitCancel(s, c), k, Present(s), n)
<1> DEFINE P == Present(s)
           t == [s EXCEPT !.resetstream = << >>]
<1>1. Sound(s) /\ Fits(s) /\ DOMAIN s = SessFields
  BY DEF InStep, Sound
<1>2. c = s.initUser => s.state = "Reset" /\ s.hist.resetStreamState = "None"
  BY SessionHistoryAssumption DEF SoundState, NoUser
<1>3. InStep(t, k, P, n)
  <2>1. /\ t.hist = s.hist /\ t.clients = s.clients /\ t.payload = s.payload /\ t.inbox = s.inbox
        /\ t.position = s.position /\ t.flags = s.flags /\ t.status = s.status /\ t.state = s.state
        /\ t.resetstream = << >> /\ t.candidates = s.candidates /\ t.ops = s.ops /\ DOMAIN t = SessFields
    BY <1>1 DEF SessFields
  <2> HIDE DEF t
  <2>2. << >> \in Seq(Pictures) /\ IsSequence(<< >>)
    BY Literals
  <2>3. Sound(t)
    BY <1>1, <2>1, <2>2 DEF Sound, Present
  <2>4. Plain(s, t)
    BY <1>1, <2>1, <2>2 DEF Plain, Fits
  <2> QED BY <2>3, <2>4, PlainKeeps
<1>4. InStep(handleInitBegin(s, c), k, P, n)
  <2>1. c = s.initUser => handleInitBegin(s, c) = t
    BY DEF handleInitBegin
  <2>2. c # s.initUser => handleInitBegin(s, c) = s
    BY DEF handleInitBegin
  <2> HIDE DEF t
  <2> QED BY <1>3, <2>1, <2>2
<1>5. InStep(handleInitComplete(s, c), k, P, n)
  <2>1. c = s.initUser => InStep(switchToRunning(s), k, P, n)
    <3> HIDE DEF P
    <3> QED BY <1>2, RunningKeeps DEF P
  <2> QED BY <2>1 DEF handleInitComplete
<1>6. InStep(handleInitCancel(s, c), k, P, n)
  <2>1. c = s.initUser => InStep(abortReset(s), k, P, n)
    <3> HIDE DEF P
    <3> QED BY <1>2, AbortResetKeeps DEF P
  <2> QED BY <2>1 DEF handleInitCancel
<1> QED BY <1>4, <1>5, <1>6

----------------------------------------------------------------------------
(* What clients do.                                                        *)

(* What is on its way to c is now q.                                       *)
Turned(s, t, c, q) ==
  /\ Sound(t) /\ t.hist = s.hist /\ t.clients = s.clients /\ t.payload = s.payload
  /\ t.position = s.position /\ t.flags = s.flags /\ t.status = s.status /\ t.state = s.state
  /\ t.resetstream = s.resetstream /\ t.candidates = s.candidates
  /\ t.inbox = [s.inbox EXCEPT ![c] = q]

(* A client w that has read on, and what it has still to read: it shows    *)
(* what it would have shown, and knows what it has been asked.             *)
Follower(s, t, k, c, w, q) ==
  /\ w \in Views /\ q \in Seq(Messages)
  /\ Less(Reading(Reader(w), q), Arrived(s, k, c))
  /\ AskingOne(t, w, c)
  /\ Streaming(s) /\ c = s.hist.ctxId =>
       w.correlator = s.payload /\ NoAsks(q) /\ Streams(w, ForkView(s).canvas)

(* A client goes on.                                                       *)
LEMMA ClientKeeps ==
  ASSUME NEW s, NEW k, NEW P, NEW n, InStep(s, k, P, n), NEW c \in Present(s), NEW q, NEW w,
         NEW t, Turned(s, t, c, q), Follower(s, t, k, c, w, q)
  PROVE  InStep(t, [k EXCEPT ![c] = w], P, n)
<1> DEFINE j == [k EXCEPT ![c] = w]
<1>1. /\ Sound(s) /\ Fits(s) /\ k \in [Clients -> Views] /\ P \subseteq Clients /\ n \in Nat
      /\ Agreed(s, k, P) /\ Forked(s) /\ Marked(s, k) /\ Dated(s, k)
      /\ Asking(s, k) /\ Armings(s) /\ Streamer(s, k) /\ Room(s, n)
  BY DEF InStep
<1>2. c \in Clients /\ Present(s) \subseteq Clients /\ w \in Views /\ q \in Seq(Messages) /\ Present(t) = Present(s)
  BY <1>1, PresentClients DEF Follower, Turned, Present
<1>3. j \in [Clients -> Views] /\ j[c] = w /\ \A d \in Clients \ {c} : j[d] = k[d]
  BY <1>1, <1>2
<1> HIDE DEF j
<1>4. t.inbox \in [Clients -> Seq(Messages)] /\ t.inbox[c] = q /\ \A d \in Clients \ {c} : t.inbox[d] = s.inbox[d]
  BY <1>1, <1>2 DEF Turned, Fits
<1>5. Fits(t)
  BY <1>1, <1>2, <1>4 DEF Fits, Turned
<1>6. /\ Late(t) = Late(s) /\ ForkView(t) = ForkView(s) /\ ImageView(t) = ImageView(s)
  BY DEF Turned, Late, ForkView, ImageView
<1>7. ASSUME NEW d \in Present(s)
      PROVE  Less(End(t, j, d), End(s, k, d)) /\ Less(Arrived(t, j, d), Arrived(s, k, d))
  <2>1. CASE d # c
    <3>1. d \in Clients \ {c}
      BY <1>2, <2>1
    <3>2. End(t, j, d) = End(s, k, d) /\ Arrived(t, j, d) = Arrived(s, k, d)
      BY <1>3, <1>4, <3>1 DEF End, Arrived, Flow, Turned
    <3> QED BY <3>2 DEF Less, Alike
  <2>2. CASE d = c
    <3> DEFINE b == getBatch(s.hist, s.position[c])
               x == Arrived(t, j, c)
               y == Arrived(s, k, c)
    <3>1. Less(x, y)
      BY <1>3, <1>4 DEF Arrived, Follower
    <3>2. /\ y \in Readers /\ b \in Seq(Messages) /\ End(s, k, c) = Reading(y, b)
      BY <1>1, <1>2, Reached
    <3>3. x \in Readers /\ End(t, j, c) = Reading(x, b)
      <4>1. Sound(t) /\ getBatch(t.hist, t.position[c]) = b
        BY DEF Turned
      <4> HIDE DEF b
      <4> QED BY <1>2, <1>3, <1>5, <4>1, Reached
    <3> HIDE DEF b, x, y
    <3>4. Less(Reading(x, b), Reading(y, b))
      BY <3>1, <3>2, <3>3, ReadingSame DEF Less, Alike
    <3> QED BY <2>2, <3>1, <3>2, <3>3, <3>4 DEF x, y
  <2> QED BY <2>1, <2>2
<1>8. Agreed(t, j, P)
  BY <1>1, <1>2, <1>6, <1>7 DEF Agreed, Less, Alike, Turned
<1>9. Forked(t)
  BY <1>1, <1>6 DEF Forked, Streaming, Turned
<1>10. Marked(t, j)
  BY <1>1, <1>2, <1>6, <1>7 DEF Marked, OfFork, Streaming, Turned, Less
<1>11. Dated(t, j)
  <2>1. \A i : StartsBelow(s, k, i) => StartsBelow(t, j, i)
    BY <1>2, <1>6, <1>7 DEF StartsBelow, Below, Less
  <2>2. Unstarted(t) => Unstarted(s)
    BY DEF Unstarted, Asked, Armed, Streaming, Turned
  <2> QED BY <1>1, <2>1, <2>2 DEF Dated, Turned
<1>12. Asking(t, j)
  <2>1. ASSUME NEW d \in Clients \ {c} PROVE AskingOne(t, j[d], d)
    BY <1>1, <1>3, <1>4, <2>1 DEF Asking, AskingOne, Asked, Armed, Turned
  <2>2. AskingOne(t, j[c], c)
    BY <1>3 DEF Follower
  <2> QED BY <2>1, <2>2 DEF Asking
<1>13. Armings(t)
  BY <1>1 DEF Armings, Armed, Streaming, Turned
<1>14. Streamer(t, j)
  <2>1. SUFFICES ASSUME Streaming(s)
                 PROVE  /\ s.hist.ctxId \in Clients /\ j[s.hist.ctxId].correlator = s.payload
                        /\ NoAsks(t.inbox[s.hist.ctxId])
                        /\ Streams(j[s.hist.ctxId], ForkView(s).canvas)
    BY <1>6 DEF Streamer, Streaming, Turned
  <2>2. s.hist.ctxId \in Clients
    BY <1>1, <2>1 DEF Streamer
  <2>3. CASE c = s.hist.ctxId
    BY <1>3, <1>4, <2>1, <2>2, <2>3 DEF Follower
  <2>4. CASE c # s.hist.ctxId
    BY <1>1, <1>3, <1>4, <2>1, <2>2, <2>4 DEF Streamer
  <2> QED BY <2>3, <2>4
<1>15. Room(t, n) /\ Sound(t)
  BY <1>1 DEF Room, Turned
<1> QED BY <1>1, <1>3, <1>5, <1>8, <1>9, <1>10, <1>11, <1>12, <1>13, <1>14, <1>15 DEF InStep, j

(* Who is not in the session is a new client.                              *)
Kept(t, k) == [c \in Clients |-> IF c \in Present(t) THEN k[c] ELSE NewClient]

(* Clients that have left lose their state.                                *)
LEMMA BecomeKeeps ==
  ASSUME NEW s, NEW k, NEW n, InStep(s, k, Present(s), n), SoundStream(s)
  PROVE  InStep(s, Kept(s, k), Present(s), n)
<1> DEFINE j == Kept(s, k)
           P == Present(s)
<1>1. /\ Sound(s) /\ Fits(s) /\ k \in [Clients -> Views] /\ P \subseteq Clients /\ n \in Nat
      /\ Agreed(s, k, P) /\ Forked(s) /\ Marked(s, k) /\ Dated(s, k)
      /\ Asking(s, k) /\ Armings(s) /\ Streamer(s, k) /\ Room(s, n)
  BY DEF InStep
<1>2. /\ j \in [Clients -> Views] /\ \A c \in P : j[c] = k[c]
      /\ \A c \in Clients \ P : j[c] = NewClient
  BY <1>1, NewClientView DEF Kept
<1> HIDE DEF j
<1>3. \A c \in P : End(s, j, c) = End(s, k, c) /\ Arrived(s, j, c) = Arrived(s, k, c)
  BY <1>2 DEF End, Arrived
<1>4. Agreed(s, j, P)
  BY <1>1, <1>3 DEF Agreed
<1>5. Marked(s, j)
  BY <1>1, <1>3 DEF Marked
<1>6. Dated(s, j)
  <2>1. \A i : StartsBelow(s, k, i) => StartsBelow(s, j, i)
    BY <1>3 DEF StartsBelow
  <2> QED BY <1>1, <2>1 DEF Dated
<1>7. Asking(s, j)
  <2>1. ASSUME NEW c \in P PROVE AskingOne(s, j[c], c)
    BY <1>1, <1>2 DEF Asking
  <2>2. ASSUME NEW c \in Clients \ P PROVE AskingOne(s, j[c], c)
    <3>1. j[c].correlator = 0 /\ j[c].up = << >> /\ s.inbox[c] = << >>
      BY <1>1, <1>2, NewClientView DEF Fits
    <3>2. s.payload \in Nat /\ (Asked(s) => s.payload > 0)
      BY <1>1 DEF Fits, Asked
    <3>3. \A m \in Nat : m > 0 => AskedBelow(s.inbox[c], j[c], m)
      BY <3>1 DEF AskedBelow
    <3>4. \A m, a : AskedLast(s.inbox[c], m) /\ Answered(s.inbox[c], j[c], m, a)
      BY <3>1 DEF AskedLast, Answered
    <3> QED BY <3>2, <3>3, <3>4 DEF AskingOne
  <2> QED BY <2>1, <2>2 DEF Asking
<1>8. Streamer(s, j)
  BY <1>1, <1>2 DEF Streamer, SoundStream
<1> QED BY <1>1, <1>2, <1>4, <1>5, <1>6, <1>7, <1>8 DEF InStep, j

(* The first and the rest of what a client has sent.                       *)
LEMMA HeadAndTail ==
  ASSUME NEW S, NEW q \in Seq(S), q # << >>
  PROVE  /\ 1 \in 1 .. Len(q) /\ Head(q) = q[1] /\ q[1] \in S /\ Tail(q) \in Seq(S)
         /\ Len(Tail(q)) = Len(q) - 1
         /\ \A i \in 1 .. Len(Tail(q)) : i + 1 \in 1 .. Len(q) /\ Tail(q)[i] = q[i + 1]
<1>1. Len(q) \in Nat /\ Len(q) > 0
  BY EmptySeq, LenProperties
<1>2. 1 \in 1 .. Len(q) /\ q[1] \in S
  BY <1>1, ElementOfSeq
<1>3. /\ Head(q) = q[1] /\ Tail(q) \in Seq(S) /\ Len(Tail(q)) = Len(q) - 1
      /\ \A i \in 1 .. Len(Tail(q)) : Tail(q)[i] = q[i + 1]
  BY HeadTailProperties
<1>4. \A i \in 1 .. Len(Tail(q)) : i + 1 \in 1 .. Len(q)
  BY <1>1, <1>3
<1> QED BY <1>2, <1>3, <1>4

(* A client with other requests on their way.                              *)
LEMMA OtherUp ==
  ASSUME NEW v \in Views, NEW u \in Seq(Requests)
  PROVE  /\ [v EXCEPT !.up = u] \in Views /\ [v EXCEPT !.up = u].up = u
         /\ [v EXCEPT !.up = u].correlator = v.correlator
         /\ Reader([v EXCEPT !.up = u]) = Reader(v)
BY DEF Views, Reader

(* Nothing has moved.                                                      *)
LEMMA TurnedSame ==
  ASSUME NEW s, Sound(s), Fits(s), NEW c
  PROVE  Turned(s, s, c, s.inbox[c])
<1>1. s.inbox = [s.inbox EXCEPT ![c] = s.inbox[c]]
  BY DEF Fits
<1> QED BY <1>1 DEF Turned

(* The server has taken the first of what c has sent.                      *)
LEMMA UpKeeps ==
  ASSUME NEW s, NEW k, NEW P, NEW n, InStep(s, k, P, n), NEW c \in Present(s), k[c].up # << >>
  PROVE  /\ InStep(s, [k EXCEPT ![c].up = Tail(@)], P, n)
         /\ Head(k[c].up) \in Requests
         /\ Head(k[c].up).type = "Start" /\ Head(k[c].up).correlator = s.payload /\ Armed(s, c)
              => Starter(s, [k EXCEPT ![c].up = Tail(@)][c], c)
         /\ Head(k[c].up).type = "Stream" /\ Streaming(s) /\ c = s.hist.ctxId
              => Head(k[c].up).image.canvas = ForkView(s).canvas
<1> DEFINE v == k[c]
           u == Tail(v.up)
           w == [v EXCEPT !.up = u]
           q == s.inbox[c]
<1>1. /\ Sound(s) /\ Fits(s) /\ k \in [Clients -> Views] /\ c \in Clients
      /\ Asking(s, k) /\ Streamer(s, k)
  BY PresentClients DEF InStep
<1>2. v \in Views /\ v.up \in Seq(Requests) /\ v.up # << >> /\ q \in Seq(Messages) /\ AskingOne(s, v, c)
  BY <1>1 DEF Views, Asking, Fits
<1>3. /\ Head(v.up) = v.up[1] /\ v.up[1] \in Requests /\ u \in Seq(Requests) /\ 1 \in 1 .. Len(v.up)
      /\ Len(u) = Len(v.up) - 1
      /\ \A i \in 1 .. Len(u) : i + 1 \in 1 .. Len(v.up) /\ u[i] = v.up[i + 1]
  BY <1>2, HeadAndTail
<1>4. [k EXCEPT ![c].up = Tail(@)] = [k EXCEPT ![c] = w]
  OBVIOUS
<1>5. [k EXCEPT ![c] = w][c] = w
  BY <1>1
<1> HIDE DEF u
<1>6. w \in Views /\ w.up = u /\ w.correlator = v.correlator /\ Reader(w) = Reader(v)
  BY <1>2, <1>3, OtherUp
<1> HIDE DEF w, v
<1>7. Len(v.up) \in Nat /\ Len(u) \in Nat
  BY <1>2, <1>3, LenProperties
<1>8. \A m : AskedBelow(q, v, m) => AskedBelow(q, w, m)
  BY <1>3, <1>6 DEF AskedBelow
<1>9. \A m, a : Answered(q, v, m, a) => Answered(q, w, m, a)
  <2> SUFFICES ASSUME NEW m, NEW a, Answered(q, v, m, a) PROVE Answered(q, w, m, a)
    OBVIOUS
  <2>1. SUFFICES ASSUME NEW i \in 1 .. Len(u), u[i].type = "Start", u[i].correlator = m
                 PROVE  /\ v.correlator = m /\ NoAsks(q)
                        /\ a => \A j \in i .. Len(u) : u[j].type # "Stream"
    BY <1>6 DEF Answered
  <2>2. /\ v.correlator = m /\ NoAsks(q)
        /\ a => \A j \in (i + 1) .. Len(v.up) : v.up[j].type # "Stream"
    BY <1>3, <2>1 DEF Answered
  <2>3. ASSUME a, NEW j \in i .. Len(u) PROVE u[j].type # "Stream"
    <3>1. j \in 1 .. Len(u) /\ j + 1 \in (i + 1) .. Len(v.up)
      BY <1>3, <1>7
    <3> QED BY <1>3, <2>2, <2>3, <3>1
  <2> QED BY <2>2, <2>3
<1>10. AskingOne(s, w, c)
  BY <1>2, <1>8, <1>9 DEF AskingOne, q
<1>11. \A x : Streams(v, x) => Streams(w, x)
  BY <1>3, <1>6 DEF Streams
<1>12. Streaming(s) /\ c = s.hist.ctxId =>
         w.correlator = s.payload /\ NoAsks(q) /\ Streams(w, ForkView(s).canvas)
  BY <1>1, <1>6, <1>11 DEF Streamer, v
<1>13. Less(Reading(Reader(w), q), Arrived(s, k, c))
  BY <1>6 DEF Less, Alike, Arrived, v
<1>14. Follower(s, s, k, c, w, q)
  BY <1>2, <1>6, <1>10, <1>12, <1>13 DEF Follower
<1>15. InStep(s, [k EXCEPT ![c] = w], P, n)
  <2>1. Turned(s, s, c, q)
    BY <1>1, TurnedSame
  <2> HIDE DEF q
  <2> QED BY <1>14, <2>1, ClientKeeps
<1>16. v.up[1].type = "Start" /\ v.up[1].correlator = s.payload /\ Armed(s, c) => Starter(s, w, c)
  <2>1. SUFFICES ASSUME v.up[1].type = "Start", v.up[1].correlator = s.payload, Armed(s, c)
                 PROVE  Starter(s, w, c)
    OBVIOUS
  <2>2. v.correlator = s.payload /\ NoAsks(q) /\ \A j \in 1 .. Len(v.up) : v.up[j].type # "Stream"
    BY <1>2, <1>3, <2>1 DEF AskingOne, Answered, q
  <2> QED BY <1>3, <1>6, <2>2 DEF Starter, q
<1>17. v.up[1].type = "Stream" /\ Streaming(s) /\ c = s.hist.ctxId
         => v.up[1].image.canvas = ForkView(s).canvas
  BY <1>1, <1>3 DEF Streamer, Streams, v
<1> QED BY <1>3, <1>4, <1>5, <1>15, <1>16, <1>17 DEF v, w

(* A client sends more: ns are no starts and no images of a stream.        *)
LEMMA SaysMore ==
  ASSUME NEW us \in Seq(Requests), NEW ns \in Seq(Requests)
  PROVE  /\ us \o ns \in Seq(Requests) /\ Len(us \o ns) = Len(us) + Len(ns)
         /\ Len(us) \in Nat /\ Len(ns) \in Nat
         /\ \A i \in 1 .. Len(us) : (us \o ns)[i] = us[i]
         /\ \A i \in 1 .. Len(us \o ns) : i > Len(us) => i - Len(us) \in 1 .. Len(ns) /\ (us \o ns)[i] = ns[i - Len(us)]
<1>1. Len(us) \in Nat /\ Len(ns) \in Nat
  BY LenProperties
<1>2. /\ us \o ns \in Seq(Requests) /\ Len(us \o ns) = Len(us) + Len(ns)
      /\ \A i \in 1 .. Len(us) + Len(ns) : (us \o ns)[i] = IF i <= Len(us) THEN us[i] ELSE ns[i - Len(us)]
  BY ConcatProperties
<1> QED BY <1>1, <1>2

(* What a client remembers of a start of a stream is read there.           *)
LEMMA RememberedStart ==
  ASSUME NEW s, Sound(s), Fits(s), NEW k \in [Clients -> Views], NEW c \in Clients
  PROVE  <<k[c].imageFor, k[c].image>> \in End(s, k, c).starts
<1> DEFINE r == Reader(k[c])
           f == Flow(s, c)
           x == <<k[c].imageFor, k[c].image>>
<1>1. x \in r.starts
  BY ReaderIs
<1>2. r \in Readers /\ f \in Seq(Messages)
  BY Reached
<1> HIDE DEF r, f, x
<1>3. r.starts \subseteq Reading(r, f).starts
  BY <1>2, ReadingSame
<1> QED BY <1>1, <1>3 DEF End, r, f, x

(* A client that has sent ns too.                                          *)
Says(v, w, ns) ==
  /\ w \in Views /\ w.up = v.up \o ns /\ ns \in Seq(Requests)
  /\ w.correlator = v.correlator /\ Reader(w) = Reader(v)

(* A client that sends no start goes on as it was.                         *)
LEMMA SaysKeeps ==
  ASSUME NEW s, NEW k, NEW P, NEW n, InStep(s, k, P, n), NEW c \in Present(s), NEW w, NEW ns,
         Says(k[c], w, ns), \A i \in 1 .. Len(ns) : ns[i].type # "Start",
         Armed(s, c) => k[c].correlator # s.payload \/ \A i \in 1 .. Len(ns) : ns[i].type # "Stream",
         Streaming(s) /\ c = s.hist.ctxId =>
           \A i \in 1 .. Len(ns) : ns[i].type = "Stream" => ns[i].image.canvas = ForkView(s).canvas
  PROVE  InStep(s, [k EXCEPT ![c] = w], P, n)
<1> DEFINE v == k[c]
           q == s.inbox[c]
           l == Len(v.up)
<1>1. /\ Sound(s) /\ Fits(s) /\ k \in [Clients -> Views] /\ c \in Clients
      /\ Asking(s, k) /\ Streamer(s, k)
  BY PresentClients DEF InStep
<1>2. v \in Views /\ v.up \in Seq(Requests) /\ q \in Seq(Messages) /\ AskingOne(s, v, c) /\ ns \in Seq(Requests)
      /\ w.up = v.up \o ns /\ w.correlator = v.correlator /\ w \in Views /\ Reader(w) = Reader(v)
  BY <1>1 DEF Views, Asking, Fits, Says
<1> HIDE DEF v
<1>3. /\ Len(v.up \o ns) = l + Len(ns) /\ l \in Nat /\ Len(ns) \in Nat
      /\ \A i \in 1 .. l : (v.up \o ns)[i] = v.up[i]
      /\ \A i \in 1 .. Len(v.up \o ns) : i > l => i - l \in 1 .. Len(ns) /\ (v.up \o ns)[i] = ns[i - l]
  BY <1>2, SaysMore
<1>4. ASSUME NEW i \in 1 .. Len(w.up)
      PROVE  \/ i \in 1 .. l /\ w.up[i] = v.up[i]
             \/ i > l /\ i - l \in 1 .. Len(ns) /\ w.up[i] = ns[i - l]
  BY <1>2, <1>3
<1>5. \A i \in 1 .. Len(w.up) : w.up[i].type = "Start" => i \in 1 .. l /\ w.up[i] = v.up[i]
  BY <1>4
<1>6. \A m : AskedBelow(q, v, m) => AskedBelow(q, w, m)
  BY <1>2, <1>5 DEF AskedBelow
<1>7. Answered(q, w, s.payload, Armed(s, c))
  <2>1. SUFFICES ASSUME NEW i \in 1 .. Len(w.up), w.up[i].type = "Start", w.up[i].correlator = s.payload
                 PROVE  /\ v.correlator = s.payload /\ NoAsks(q)
                        /\ Armed(s, c) => \A j \in i .. Len(w.up) : w.up[j].type # "Stream"
    BY <1>2 DEF Answered
  <2>2. i \in 1 .. l /\ w.up[i] = v.up[i]
    BY <1>5, <2>1
  <2>3. /\ v.correlator = s.payload /\ NoAsks(q)
        /\ Armed(s, c) => \A j \in i .. l : v.up[j].type # "Stream"
    BY <1>2, <2>1, <2>2 DEF AskingOne, Answered, q
  <2>4. ASSUME Armed(s, c), NEW j \in i .. Len(w.up) PROVE w.up[j].type # "Stream"
    <3>1. \A e \in 1 .. Len(ns) : ns[e].type # "Stream"
      BY <2>3, <2>4 DEF v
    <3>2. j \in 1 .. Len(w.up)
      BY <2>2
    <3>3. CASE j \in 1 .. l /\ w.up[j] = v.up[j]
      BY <2>3, <2>4, <3>3
    <3>4. CASE j - l \in 1 .. Len(ns) /\ w.up[j] = ns[j - l]
      BY <3>1, <3>4
    <3> QED BY <1>4, <3>2, <3>3, <3>4
  <2> QED BY <2>3, <2>4
<1>8. AskingOne(s, w, c)
  BY <1>2, <1>6, <1>7 DEF AskingOne, q
<1>9. Streaming(s) /\ c = s.hist.ctxId =>
        w.correlator = s.payload /\ NoAsks(q) /\ Streams(w, ForkView(s).canvas)
  <2>1. SUFFICES ASSUME Streaming(s), c = s.hist.ctxId
                 PROVE  w.correlator = s.payload /\ NoAsks(q) /\ Streams(w, ForkView(s).canvas)
    OBVIOUS
  <2>2. v.correlator = s.payload /\ NoAsks(q) /\ Streams(v, ForkView(s).canvas)
    BY <1>1, <2>1 DEF Streamer, v
  <2>3. \A i \in 1 .. Len(ns) : ns[i].type = "Stream" => ns[i].image.canvas = ForkView(s).canvas
    BY <2>1
  <2>4. Streams(w, ForkView(s).canvas)
    BY <1>4, <2>2, <2>3 DEF Streams
  <2> QED BY <1>2, <2>2, <2>4
<1>10. Less(Reading(Reader(w), q), Arrived(s, k, c))
  BY <1>2 DEF Less, Alike, Arrived, v
<1>11. Follower(s, s, k, c, w, q)
  BY <1>2, <1>8, <1>9, <1>10 DEF Follower
<1> QED
  <2>1. Turned(s, s, c, q)
    BY <1>1, TurnedSame
  <2> HIDE DEF q
  <2> QED BY <1>11, <2>1, ClientKeeps

(* The image is ready, or cannot be made.                                  *)
LEMMA SendImageKeeps ==
  ASSUME NEW s, NEW k, NEW P, NEW n, InStep(s, k, P, n), SoundStream(s), NEW c \in Present(s),
         k[c].stream = "Generating", k[c].imageFor = k[c].correlator
  PROVE  /\ InStep(s, [Up(k, c, <<[type |-> "Stream", image |-> ImageMsg(k[c].image)]>>)
                         EXCEPT ![c].stream = "Streaming"], P, n)
         /\ InStep(s, [Up(k, c, <<[type |-> "Abort"]>>) EXCEPT ![c].stream = "None"], P, n)
<1> DEFINE v == k[c]
           m == [type |-> "Stream", image |-> ImageMsg(v.image)]
           o == [type |-> "Abort"]
           ms == <<m>>
           os == <<o>>
           w == [v EXCEPT !.up = @ \o ms, !.stream = "Streaming"]
           x == [v EXCEPT !.up = @ \o os, !.stream = "None"]
<1>1. /\ Sound(s) /\ Fits(s) /\ k \in [Clients -> Views] /\ c \in Clients
      /\ Marked(s, k) /\ Dated(s, k) /\ Armings(s) /\ Streamer(s, k)
  BY PresentClients DEF InStep
<1>2. v \in Views /\ v.up \in Seq(Requests) /\ v.image \in Seq(Nat)
  BY <1>1 DEF Views
<1>3. m \in Requests /\ o \in Requests /\ m.type = "Stream" /\ m.image.canvas = v.image /\ o.type = "Abort"
  BY <1>2 DEF Requests, Images, ImageMsg
<1>4. /\ [Up(k, c, <<[type |-> "Stream", image |-> ImageMsg(k[c].image)]>>) EXCEPT ![c].stream = "Streaming"]
           = [k EXCEPT ![c] = w]
      /\ [Up(k, c, <<[type |-> "Abort"]>>) EXCEPT ![c].stream = "None"] = [k EXCEPT ![c] = x]
  BY <1>1 DEF Up
<1>5. <<v.imageFor, v.image>> \in End(s, k, c).starts
  BY <1>1, RememberedStart
<1> HIDE DEF v, m, o
<1>6. /\ ms \in Seq(Requests) /\ os \in Seq(Requests) /\ Len(ms) = 1 /\ Len(os) = 1 /\ ms[1] = m /\ os[1] = o
  BY <1>3, Literals
<1> HIDE DEF ms, os
<1>7. Says(v, w, ms) /\ Says(v, x, os)
  <2>1. v.up \o ms \in Seq(Requests) /\ v.up \o os \in Seq(Requests)
    BY <1>2, <1>6, SaysMore
  <2> QED BY <1>2, <1>6, <2>1 DEF Says, Views, Reader
<1> HIDE DEF w, x
<1>8. InStep(s, [k EXCEPT ![c] = x], P, n)
  <2>1. \A i \in 1 .. Len(os) : os[i].type \notin {"Start", "Stream"}
    BY <1>3, <1>6
  <2> QED BY <1>7, <2>1, SaysKeeps DEF v
<1>9. InStep(s, [k EXCEPT ![c] = w], P, n)
  <2>1. \A i \in 1 .. Len(ms) : ms[i].type # "Start"
    BY <1>3, <1>6
  <2>2. Armed(s, c) => k[c].correlator # s.payload
    <3>1. SUFFICES ASSUME Armed(s, c), v.correlator = s.payload PROVE FALSE
      BY DEF v
    <3>2. ~Streaming(s)
      BY <1>1, <3>1 DEF Armings, SoundStream, Armed
    <3>3. Below(s.payload, End(s, k, c).starts)
      BY <1>1, <3>1, <3>2 DEF Unstarted, Dated, StartsBelow
    <3>4. v.imageFor < s.payload
      BY <1>5, <3>3 DEF Below
    <3> QED BY <1>1, <3>1, <3>4 DEF Fits, v
  <2>3. Streaming(s) /\ c = s.hist.ctxId =>
           \A i \in 1 .. Len(ms) : ms[i].type = "Stream" => ms[i].image.canvas = ForkView(s).canvas
    <3>1. SUFFICES ASSUME Streaming(s), c = s.hist.ctxId PROVE v.image = ForkView(s).canvas
      BY <1>3, <1>6
    <3>2. v.imageFor = s.payload /\ OfFork(s, End(s, k, c).starts)
      BY <1>1, <3>1 DEF Streamer, Marked, v
    <3> QED BY <1>5, <3>2 DEF OfFork
  <2> QED BY <1>7, <2>1, <2>2, <2>3, SaysKeeps DEF v
<1> QED BY <1>4, <1>8, <1>9

(* What a client is, that was u and has read m: it may have answered.      *)
Heard(u, m, w) ==
  /\ w \in Views /\ w.canvas = u.canvas /\ w.users = u.users
  /\ \/ w.imageFor = u.imageFor /\ w.image = u.image
     \/ m.type = "StreamStart" /\ w.imageFor = m.correlator /\ w.image = u.canvas
  /\ w.correlator = IF m.type = "Query" THEN 0
                    ELSE IF m.type = "Request" THEN m.correlator ELSE u.correlator
  /\ \A i \in 1 .. Len(w.up) :
       /\ w.up[i].type = "Stream" => i \in 1 .. Len(u.up) /\ w.up[i] = u.up[i]
       /\ w.up[i].type = "Start" =>
            \/ i \in 1 .. Len(u.up) /\ w.up[i] = u.up[i]
            \/ /\ m.type = "Request" /\ w.up[i].correlator = m.correlator
               /\ \A j \in i .. Len(w.up) : w.up[j].type # "Stream"

(* An answer: requests, of which none is an image of a stream, and one may *)
(* be a start if it is asked for.                                          *)
Answering(m, ns) ==
  /\ ns \in Seq(Requests)
  /\ \A i \in 1 .. Len(ns) : ns[i].type # "Stream"
  /\ \A i \in 1 .. Len(ns) : ns[i].type = "Start" => m.type = "Request" /\ ns[i].correlator = m.correlator

(* What a client answers.                                                  *)
LEMMA AnswersAre ==
  ASSUME NEW u \in Views, NEW m \in Messages, NEW ns \in Answers(u, m)
  PROVE  Answering(m, ns)
<1> DEFINE none == << >>
<1>1. none \in Seq(Requests) /\ Len(none) = 0
  BY Literals
<1>2. Answering(m, none)
  BY <1>1 DEF Answering
<1>3. ASSUME NEW r \in Requests, r.type # "Stream",
             r.type = "Start" => m.type = "Request" /\ r.correlator = m.correlator
      PROVE  Answering(m, <<r>>)
  <2> DEFINE one == <<r>>
  <2>1. one \in Seq(Requests) /\ Len(one) = 1 /\ one[1] = r
    BY Literals
  <2> HIDE DEF one
  <2>2. \A i \in 1 .. Len(one) : one[i] = r
    BY <2>1
  <2>3. Answering(m, one)
    BY <1>3, <2>1, <2>2 DEF Answering
  <2> QED BY <2>3 DEF one
<1>4. Answering(m, Snapshot(u))
  <2> DEFINE x == [type |-> "InitBegin"]
             y == ImageMsg(u.canvas)
             z == [type |-> "InitComplete"]
             ms == <<x, y, z>>
  <2>1. x \in Requests /\ y \in Requests /\ z \in Requests
        /\ x.type = "InitBegin" /\ y.type = "Image" /\ z.type = "InitComplete"
    BY DEF Requests, Images, ImageMsg, Views
  <2> HIDE DEF x, y, z
  <2>2. ms \in Seq(Requests) /\ Len(ms) = 3 /\ ms[1] = x /\ ms[2] = y /\ ms[3] = z
    BY <2>1, Literals
  <2>3. Snapshot(u) = ms
    BY DEF Snapshot, x, y, z
  <2> HIDE DEF ms
  <2>4. \A i \in 1 .. Len(ms) : ms[i] = x \/ ms[i] = y \/ ms[i] = z
    BY <2>2
  <2>5. \A i \in 1 .. Len(ms) : ms[i].type \notin {"Start", "Stream"}
    BY <2>1, <2>4
  <2>6. Answering(m, ms)
    BY <2>2, <2>5 DEF Answering
  <2> QED BY <2>3, <2>6
<1>5. CASE m.type = "Query"
  <2> DEFINE r == [type |-> "Ready", payload |-> m.payload]
  <2>1. m.payload \in Nat
    BY <1>5, MessageFields
  <2>2. r \in Requests /\ r.type = "Ready"
    BY <2>1 DEF Requests
  <2>3. ns = none \/ ns = <<r>>
    BY <1>5 DEF Answers
  <2> HIDE DEF r, none
  <2> QED BY <1>2, <1>3, <2>2, <2>3
<1>6. CASE m.type = "Request" /\ m.stream
  <2> DEFINE r == [type |-> "Start", correlator |-> m.correlator]
  <2>1. m.correlator \in Nat
    BY <1>6, MessageFields
  <2>2. r \in Requests /\ r.type = "Start" /\ r.correlator = m.correlator
    BY <2>1 DEF Requests
  <2>3. ns = none \/ ns = <<r>>
    BY <1>6 DEF Answers
  <2> HIDE DEF r, none
  <2> QED BY <1>2, <1>3, <1>6, <2>2, <2>3
<1>7. CASE m.type = "Request" /\ ~m.stream
  <2> DEFINE r == [type |-> "ResetSession"]
  <2>1. r \in Requests /\ r.type = "ResetSession"
    BY DEF Requests
  <2>2. ns = none \/ ns = <<r>>
    BY <1>7 DEF Answers
  <2> HIDE DEF r, none
  <2> QED BY <1>2, <1>3, <2>1, <2>2
<1>8. CASE m.type = "Init"
  <2> DEFINE r == [type |-> "InitCancel"]
  <2>1. r \in Requests /\ r.type = "InitCancel"
    BY DEF Requests
  <2>2. ns = Snapshot(u) \/ ns = <<r>>
    BY <1>8 DEF Answers
  <2> HIDE DEF r
  <2> QED BY <1>3, <1>4, <2>1, <2>2
<1>9. CASE m.type = "Progress" /\ ~m.cancel /\ u.stream = "Streaming"
  <2> DEFINE r == [type |-> "Finish", messageCount |-> 1]
  <2>1. r \in Requests /\ r.type = "Finish"
    BY DEF Requests
  <2>2. ns = <<r>>
    BY <1>9 DEF Answers
  <2> HIDE DEF r
  <2> QED BY <1>3, <2>1, <2>2
<1>10. CASE /\ m.type \notin {"Query", "Request", "Init"}
            /\ ~(m.type = "Progress" /\ ~m.cancel /\ u.stream = "Streaming")
  <2>1. ns = none
    BY <1>10 DEF Answers
  <2> HIDE DEF none
  <2> QED BY <1>2, <2>1
<1> QED BY <1>5, <1>6, <1>7, <1>8, <1>9, <1>10

(* What a client remembers of a message that it does more with than show.  *)
LEMMA RemembersIs ==
  ASSUME NEW u \in Views, NEW m \in Messages, Noticed(m)
  PROVE  /\ Remembers(u, m) \in Views /\ Remembers(u, m).up = u.up
         /\ Remembers(u, m).canvas = u.canvas /\ Remembers(u, m).users = u.users
         /\ \/ Remembers(u, m).imageFor = u.imageFor /\ Remembers(u, m).image = u.image
            \/ /\ m.type = "StreamStart" /\ Remembers(u, m).imageFor = m.correlator
               /\ Remembers(u, m).image = u.canvas
         /\ Remembers(u, m).correlator = IF m.type = "Query" THEN 0
                           ELSE IF m.type = "Request" THEN m.correlator ELSE u.correlator
<1>1. CASE m.type = "Query"
  <2> DEFINE w == [u EXCEPT !.correlator = 0]
  <2>1. Remembers(u, m) = w
    BY <1>1 DEF Remembers, NoCorrelator
  <2>2. /\ w \in Views /\ w.up = u.up /\ w.canvas = u.canvas /\ w.users = u.users
        /\ w.imageFor = u.imageFor /\ w.image = u.image /\ w.correlator = 0
    BY DEF Views
  <2> HIDE DEF w
  <2> QED BY <1>1, <2>1, <2>2
<1>2. CASE m.type = "Request"
  <2>1. Remembers(u, m) = [u EXCEPT !.correlator = m.correlator] /\ m.correlator \in Nat
    BY <1>2, MessageFields DEF Remembers
  <2> QED BY <1>2, <2>1 DEF Views
<1>3. CASE m.type = "Progress"
  <2>1. Remembers(u, m) = u \/ Remembers(u, m) = [u EXCEPT !.stream = "None"]
    BY <1>3 DEF Remembers
  <2> QED BY <1>3, <2>1 DEF Views
<1>4. CASE m.type = "StreamStart" /\ m.correlator = u.correlator
  <2>1. /\ Remembers(u, m) = [u EXCEPT !.stream = "Generating", !.image = u.canvas, !.imageFor = m.correlator]
        /\ m.correlator \in Nat
    BY <1>4, MessageFields DEF Remembers
  <2> QED BY <1>4, <2>1 DEF Views
<1>5. CASE m.type = "Init" \/ (m.type = "StreamStart" /\ m.correlator # u.correlator)
  <2>1. Remembers(u, m) = Shows(u, m)
    BY <1>5 DEF Remembers
  <2>2. Shows(u, m) = u
    BY <1>5 DEF Shows
  <2> QED BY <1>5, <2>1, <2>2
<1> QED BY <1>1, <1>2, <1>3, <1>4, <1>5 DEF Noticed

(* A client reads such a message.                                          *)
LEMMA HeardIs ==
  ASSUME NEW u \in Views, NEW m \in Messages, Noticed(m), NEW ns \in Answers(u, m)
  PROVE  Heard(u, m, [Remembers(u, m) EXCEPT !.up = @ \o ns])
<1> DEFINE r == Remembers(u, m)
           w == [r EXCEPT !.up = @ \o ns]
           l == Len(u.up)
<1>1. /\ r \in Views /\ r.up = u.up /\ r.canvas = u.canvas /\ r.users = u.users
      /\ \/ r.imageFor = u.imageFor /\ r.image = u.image
         \/ m.type = "StreamStart" /\ r.imageFor = m.correlator /\ r.image = u.canvas
      /\ r.correlator = IF m.type = "Query" THEN 0
                        ELSE IF m.type = "Request" THEN m.correlator ELSE u.correlator
  BY RemembersIs
<1>2. Answering(m, ns)
  BY AnswersAre
<1>3. u.up \in Seq(Requests) /\ ns \in Seq(Requests)
  BY <1>2 DEF Views, Answering
<1> HIDE DEF r
<1>4. /\ u.up \o ns \in Seq(Requests)
      /\ Len(u.up \o ns) = l + Len(ns) /\ l \in Nat /\ Len(ns) \in Nat
      /\ \A i \in 1 .. l : (u.up \o ns)[i] = u.up[i]
      /\ \A i \in 1 .. Len(u.up \o ns) : i > l => i - l \in 1 .. Len(ns) /\ (u.up \o ns)[i] = ns[i - l]
  BY <1>3, SaysMore
<1>5. /\ w \in Views /\ w.up = u.up \o ns /\ w.canvas = r.canvas /\ w.users = r.users
      /\ w.imageFor = r.imageFor /\ w.image = r.image /\ w.correlator = r.correlator
  BY <1>1, <1>4 DEF Views
<1> HIDE DEF w
<1>6. ASSUME NEW i \in 1 .. Len(w.up)
      PROVE  \/ i \in 1 .. l /\ w.up[i] = u.up[i]
             \/ i > l /\ i - l \in 1 .. Len(ns) /\ w.up[i] = ns[i - l]
  BY <1>4, <1>5
<1>7. \A i \in 1 .. Len(w.up) : w.up[i].type = "Stream" => i \in 1 .. l /\ w.up[i] = u.up[i]
  BY <1>2, <1>6 DEF Answering
<1>8. ASSUME NEW i \in 1 .. Len(w.up), w.up[i].type = "Start", ~(i \in 1 .. l /\ w.up[i] = u.up[i])
      PROVE  /\ m.type = "Request" /\ w.up[i].correlator = m.correlator
             /\ \A j \in i .. Len(w.up) : w.up[j].type # "Stream"
  <2>1. i > l /\ i - l \in 1 .. Len(ns) /\ w.up[i] = ns[i - l]
    BY <1>6, <1>8
  <2>2. m.type = "Request" /\ w.up[i].correlator = m.correlator
    BY <1>2, <1>8, <2>1 DEF Answering
  <2>3. ASSUME NEW j \in i .. Len(w.up) PROVE w.up[j].type # "Stream"
    <3>1. j \in 1 .. Len(w.up) /\ j > l
      BY <1>4, <2>1
    <3> QED BY <1>4, <1>7, <3>1
  <2> QED BY <2>2, <2>3
<1>9. Heard(u, m, w)
  BY <1>1, <1>5, <1>7, <1>8 DEF Heard
<1> QED BY <1>9 DEF w, r

(* What is left when the message at i has been read.                       *)
LEMMA CutAt ==
  ASSUME NEW S, NEW ms \in Seq(S), NEW i \in 1 .. Len(ms)
  PROVE  /\ SubSeq(ms, 1, i - 1) \in Seq(S) /\ ms[i] \in S /\ SubSeq(ms, i + 1, Len(ms)) \in Seq(S)
         /\ ms = (SubSeq(ms, 1, i - 1) \o <<ms[i]>>) \o SubSeq(ms, i + 1, Len(ms))
         /\ \A j \in 1 .. Len(SubSeq(ms, i + 1, Len(ms))) :
              i + j \in 1 .. Len(ms) /\ i < i + j /\ SubSeq(ms, i + 1, Len(ms))[j] = ms[i + j]
<1> DEFINE l == Len(ms)
           a == i + 1
           q == SubSeq(ms, a, l)
<1>1. l \in Nat /\ i \in Nat /\ 1 <= i /\ i <= l /\ ms[i] \in S
  BY LenProperties, ElementOfSeq
<1>2. a \in Nat /\ 1 <= a /\ a <= l + 1 /\ l <= Len(ms)
  BY <1>1
<1> HIDE DEF l
<1>3. q \in Seq(S) /\ Len(q) = l - a + 1 /\ \A j \in 1 .. (l - a + 1) : q[j] = ms[a + j - 1]
  <2> HIDE DEF a
  <2> QED BY <1>1, <1>2, Slice
<1>4. \A j \in 1 .. Len(q) : i + j \in 1 .. l /\ i < i + j /\ q[j] = ms[i + j]
  <2>1. ASSUME NEW j \in 1 .. (l - a + 1) PROVE i + j \in 1 .. l /\ i < i + j /\ a + j - 1 = i + j
    BY <1>1
  <2> QED BY <1>3, <2>1
<1>5. /\ SubSeq(ms, 1, i - 1) \in Seq(S)
      /\ SubSeq(ms, 1, i - 1) \o <<ms[i]>> = SubSeq(ms, 1, i)
  BY OneMore
<1>6. SubSeq(ms, 1, i) \o SubSeq(ms, i + 1, l) = SubSeq(ms, 1, l)
  <2> DEFINE one == 1
  <2>1. one \in Nat /\ 1 <= one /\ one <= i + 1
    BY <1>1
  <2> HIDE DEF one
  <2>2. SubSeq(ms, one, i) \o SubSeq(ms, i + 1, l) = SubSeq(ms, one, l)
    BY <1>1, <1>2, <2>1, SlicesJoin
  <2> QED BY <2>2 DEF one
<1>7. SubSeq(ms, 1, l) = ms
  BY SubSeqFull DEF l
<1> QED BY <1>1, <1>3, <1>4, <1>5, <1>6, <1>7 DEF l, q, a

(* Messages are read one after the other.                                  *)
LEMMA ReadingCut ==
  ASSUME NEW r \in Readers, NEW ms \in Seq(Messages), NEW i \in 1 .. Len(ms)
  PROVE  /\ Reading(r, SubSeq(ms, 1, i - 1)) \in Readers
         /\ Reading(r, ms) = Reading(Sees(Reading(r, SubSeq(ms, 1, i - 1)), ms[i]), SubSeq(ms, i + 1, Len(ms)))
<1> DEFINE x == SubSeq(ms, 1, i - 1)
           m == ms[i]
           one == <<m>>
           q == SubSeq(ms, i + 1, Len(ms))
<1>1. x \in Seq(Messages) /\ m \in Messages /\ q \in Seq(Messages) /\ ms = (x \o one) \o q
  BY CutAt
<1>2. one \in Seq(Messages)
  <2> HIDE DEF m, x, q
  <2> QED BY <1>1
<1> HIDE DEF x, q
<1>3. Reading(r, x) \in Readers /\ x \o one \in Seq(Messages)
      /\ Reading(r, x \o one) = Reading(Reading(r, x), one)
  <2> HIDE DEF one
  <2> QED BY <1>1, <1>2, ReadingParts
<1>4. Reading(Reading(r, x), one) = Sees(Reading(r, x), m)
  <2> HIDE DEF m
  <2> QED BY <1>1, <1>3, ReadingOne
<1>5. Reading(r, (x \o one) \o q) = Reading(Reading(r, x \o one), q)
  <2> DEFINE y == x \o one
  <2> HIDE DEF y, one
  <2> QED BY <1>1, <1>3, ReadingParts DEF y
<1> QED BY <1>1, <1>3, <1>4, <1>5 DEF x, q

(* Who shows the same shows the same when both have read on.               *)
LEMMA LessOn ==
  ASSUME NEW a \in Readers, NEW b \in Readers, Less(a, b), NEW ms \in Seq(Messages)
  PROVE  Less(Reading(a, ms), Reading(b, ms))
BY ReadingSame DEF Less, Alike

(* What is asked in what is left.                                          *)
LEMMA CutAsks ==
  ASSUME NEW ms \in Seq(Messages), NEW i \in 1 .. Len(ms), NEW q, q = SubSeq(ms, i + 1, Len(ms))
  PROVE  /\ NoAsks(ms) => NoAsks(q) /\ ~Asks(ms[i])
         /\ \A n : AskedLast(ms, n) => AskedLast(q, n)
         /\ \A n : AskedLast(ms, n) /\ ms[i].type = "Request" /\ ms[i].correlator = n => NoAsks(q)
         /\ \A v, n : AskedBelow(ms, v, n) =>
              /\ \A j \in 1 .. Len(q) : q[j].type = "Request" => q[j].correlator < n
              /\ ms[i].type = "Request" => ms[i].correlator < n
<1>1. q \in Seq(Messages) /\ \A j \in 1 .. Len(q) : i + j \in 1 .. Len(ms) /\ i < i + j /\ q[j] = ms[i + j]
  BY CutAt
<1>2. NoAsks(ms) => NoAsks(q) /\ ~Asks(ms[i])
  BY <1>1 DEF NoAsks
<1>3. ASSUME NEW n, AskedLast(ms, n) PROVE AskedLast(q, n)
  <2>1. SUFFICES ASSUME NEW a \in 1 .. Len(q), NEW b \in 1 .. Len(q), a < b, q[a].type = "Request",
                        q[a].correlator = n
                 PROVE  ~Asks(q[b])
    BY DEF AskedLast
  <2>2. i + a < i + b
    BY <2>1
  <2> QED BY <1>1, <1>3, <2>1, <2>2 DEF AskedLast
<1>4. ASSUME NEW n, AskedLast(ms, n), ms[i].type = "Request", ms[i].correlator = n PROVE NoAsks(q)
  BY <1>1, <1>4 DEF AskedLast, NoAsks
<1>5. ASSUME NEW v, NEW n, AskedBelow(ms, v, n)
      PROVE  /\ \A j \in 1 .. Len(q) : q[j].type = "Request" => q[j].correlator < n
             /\ ms[i].type = "Request" => ms[i].correlator < n
  BY <1>1, <1>5 DEF AskedBelow
<1> QED BY <1>2, <1>3, <1>4, <1>5

(* A client that has read the message at i of what has arrived.            *)
LEMMA HeardFollows ==
  ASSUME NEW s, NEW k, NEW P, NEW n, InStep(s, k, P, n), NEW c \in Present(s),
         NEW i \in 1 .. Len(s.inbox[c]), NEW q, q = SubSeq(s.inbox[c], i + 1, Len(s.inbox[c])),
         Noticed(s.inbox[c][i]),
         NEW w, Heard(ShowsAll(k[c], SubSeq(s.inbox[c], 1, i - 1)), s.inbox[c][i], w),
         NEW t, Turned(s, t, c, q)
  PROVE  Follower(s, t, k, c, w, q)
<1> DEFINE v == k[c]
           ms == s.inbox[c]
           x == SubSeq(ms, 1, i - 1)
           m == ms[i]
           u == ShowsAll(v, x)
           p == s.payload
<1>1. /\ Sound(s) /\ Fits(s) /\ k \in [Clients -> Views] /\ c \in Clients
      /\ Asking(s, k) /\ Streamer(s, k)
  BY PresentClients DEF InStep
<1>2. /\ v \in Views /\ ms \in Seq(Messages) /\ AskingOne(s, v, c) /\ p \in Nat /\ (Asked(s) => p > 0)
  BY <1>1 DEF Views, Asking, Fits, Asked
<1>3. /\ t.payload = p /\ (Asked(t) <=> Asked(s)) /\ (Armed(t, c) <=> Armed(s, c)) /\ t.inbox[c] = q
      /\ DOMAIN s.inbox = Clients
  BY <1>1 DEF Turned, Asked, Armed, Fits
<1> HIDE DEF v, ms
<1>4. x \in Seq(Messages) /\ m \in Messages /\ q \in Seq(Messages)
  BY <1>2, CutAt DEF ms
<1>5. Heard(u, m, w) /\ m.type \in {"Query", "Request", "Init", "Progress", "StreamStart"}
  BY DEF ms, v, Noticed
<1> HIDE DEF x, m
<1>6. /\ u \in Views /\ u.canvas = Reading(Reader(v), x).canvas /\ u.users = Reading(Reader(v), x).users
      /\ u.up = v.up /\ u.correlator = v.correlator /\ u.image = v.image /\ u.imageFor = v.imageFor
  BY <1>2, <1>4, ShowsReads
<1> HIDE DEF u
<1>7. /\ w \in Views /\ w.canvas = u.canvas /\ w.users = u.users
      /\ \/ w.imageFor = v.imageFor /\ w.image = v.image
         \/ m.type = "StreamStart" /\ w.imageFor = m.correlator /\ w.image = u.canvas
      /\ w.correlator = IF m.type = "Query" THEN 0
                        ELSE IF m.type = "Request" THEN m.correlator ELSE v.correlator
  BY <1>5, <1>6 DEF Heard
<1>8. \A j \in 1 .. Len(w.up) :
        /\ w.up[j].type = "Stream" => j \in 1 .. Len(v.up) /\ w.up[j] = v.up[j]
        /\ w.up[j].type = "Start" =>
             \/ j \in 1 .. Len(v.up) /\ w.up[j] = v.up[j]
             \/ /\ m.type = "Request" /\ w.up[j].correlator = m.correlator
                /\ \A e \in j .. Len(w.up) : w.up[e].type # "Stream"
  BY <1>5, <1>6 DEF Heard
<1>9. Less(Reading(Reader(w), q), Arrived(s, k, c))
  <2> DEFINE r == Reader(v)
             a == Reading(r, x)
             b == Sees(a, m)
             d == Reader(w)
  <2>1. r \in Readers /\ d \in Readers /\ r.starts = {<<v.imageFor, v.image>>}
        /\ d.starts = {<<w.imageFor, w.image>>} /\ d.canvas = w.canvas /\ d.users = w.users
    BY <1>2, <1>7, ReaderIs
  <2> HIDE DEF r, d
  <2>2. a \in Readers /\ Reading(r, ms) = Reading(b, q) /\ r.starts \subseteq a.starts
    <3>1. a \in Readers /\ Reading(r, ms) = Reading(b, q)
      <4>1. i \in 1 .. Len(ms) /\ q = SubSeq(ms, i + 1, Len(ms))
        BY DEF ms
      <4>2. ms \in Seq(Messages) /\ r \in Readers
        BY <1>2, <2>1
      <4>3. /\ Reading(r, SubSeq(ms, 1, i - 1)) \in Readers
            /\ Reading(r, ms) = Reading(Sees(Reading(r, SubSeq(ms, 1, i - 1)), ms[i]), SubSeq(ms, i + 1, Len(ms)))
        BY <4>1, <4>2, ReadingCut
      <4> QED BY <4>1, <4>3 DEF x, m
    <3>2. r.starts \subseteq a.starts
      BY <1>4, <2>1, ReadingSame
    <3> QED BY <3>1, <3>2
  <2> HIDE DEF a
  <2>3. b \in Readers /\ (m.type \in {"Query", "Request", "Init", "Progress", "StreamStart"} =>
                            b.canvas = a.canvas /\ b.users = a.users)
        /\ b.starts = IF m.type = "StreamStart" THEN a.starts \cup {<<m.correlator, a.canvas>>} ELSE a.starts
    BY <1>4, <2>2, SeesIs
  <2> HIDE DEF b
  <2>4. a.canvas = u.canvas /\ a.users = u.users
    BY <1>6 DEF a, r
  <2>5. d.starts \subseteq b.starts
    BY <1>7, <2>1, <2>2, <2>3, <2>4
  <2>6. d.canvas = b.canvas /\ d.users = b.users
    BY <1>5, <1>7, <2>1, <2>3, <2>4
  <2>7. Less(Reading(d, q), Reading(b, q))
    <3>1. Less(d, b) /\ d \in Readers /\ b \in Readers /\ q \in Seq(Messages)
      BY <1>4, <2>1, <2>3, <2>5, <2>6 DEF Less, Alike
    <3> QED BY <3>1, LessOn
  <2> QED BY <2>2, <2>7 DEF Arrived, r, ms, v, d
<1>10. /\ NoAsks(ms) => NoAsks(q) /\ ~Asks(m)
       /\ \A j : AskedLast(ms, j) => AskedLast(q, j)
       /\ \A j : AskedLast(ms, j) /\ m.type = "Request" /\ m.correlator = j => NoAsks(q)
       /\ \A y, j : AskedBelow(ms, y, j) =>
            /\ \A e \in 1 .. Len(q) : q[e].type = "Request" => q[e].correlator < j
            /\ m.type = "Request" => m.correlator < j
  <2>1. i \in 1 .. Len(ms) /\ q = SubSeq(ms, i + 1, Len(ms))
    BY DEF ms
  <2> QED BY <1>2, <2>1, CutAsks DEF m
<1>11. ASSUME NEW j \in Nat, j > 0, AskedBelow(ms, v, j) PROVE AskedBelow(q, w, j)
  <2>1. /\ v.correlator < j /\ \A e \in 1 .. Len(v.up) : v.up[e].type = "Start" => v.up[e].correlator < j
        /\ \A e \in 1 .. Len(q) : q[e].type = "Request" => q[e].correlator < j
        /\ m.type = "Request" => m.correlator < j
    BY <1>10, <1>11 DEF AskedBelow
  <2>2. w.correlator < j
    BY <1>7, <1>11, <2>1
  <2>3. \A e \in 1 .. Len(w.up) : w.up[e].type = "Start" => w.up[e].correlator < j
    BY <1>8, <2>1
  <2> QED BY <2>1, <2>2, <2>3 DEF AskedBelow
<1>12. ASSUME NoAsks(ms) PROVE NoAsks(q) /\ m.type \notin {"Query", "Request"} /\ w.correlator = v.correlator
  BY <1>7, <1>10, <1>12 DEF Asks
<1>13. Answered(q, w, p, Armed(s, c))
  <2>1. SUFFICES ASSUME NEW j \in 1 .. Len(w.up), w.up[j].type = "Start", w.up[j].correlator = p
                 PROVE  /\ w.correlator = p /\ NoAsks(q)
                        /\ Armed(s, c) => \A e \in j .. Len(w.up) : w.up[e].type # "Stream"
    BY DEF Answered
  <2>2. CASE j \in 1 .. Len(v.up) /\ w.up[j] = v.up[j]
    <3>1. /\ v.correlator = p /\ NoAsks(ms)
          /\ Armed(s, c) => \A e \in j .. Len(v.up) : v.up[e].type # "Stream"
      BY <1>2, <2>1, <2>2 DEF AskingOne, Answered, ms, p
    <3>2. ASSUME Armed(s, c), NEW e \in j .. Len(w.up) PROVE w.up[e].type # "Stream"
      <4>1. e \in 1 .. Len(w.up) /\ (e \in 1 .. Len(v.up) => e \in j .. Len(v.up))
        BY <2>1, <2>2
      <4> QED BY <1>8, <3>1, <3>2, <4>1
    <3> QED BY <1>12, <3>1, <3>2
  <2>3. CASE /\ m.type = "Request" /\ w.up[j].correlator = m.correlator
             /\ \A e \in j .. Len(w.up) : w.up[e].type # "Stream"
    <3>1. m.correlator = p /\ w.correlator = p
      BY <1>7, <2>1, <2>3
    <3>2. AskedLast(ms, p)
      BY <1>2 DEF AskingOne, ms, p
    <3> QED BY <1>10, <2>3, <3>1, <3>2
  <2> QED BY <1>8, <2>1, <2>2, <2>3
<1>14. AskingOne(t, w, c)
  <2>1. AskedBelow(ms, v, p + 1) /\ (Asked(s) => AskedBelow(ms, v, p)) /\ AskedLast(ms, p)
    BY <1>2 DEF AskingOne, ms, p
  <2>2. AskedBelow(q, w, p + 1) /\ (Asked(s) => AskedBelow(q, w, p)) /\ AskedLast(q, p)
    BY <1>2, <1>10, <1>11, <2>1
  <2>3. Answered(q, w, p, Armed(t, c))
    BY <1>3, <1>13 DEF Answered
  <2> QED BY <1>3, <2>2, <2>3 DEF AskingOne
<1>15. Streaming(s) /\ c = s.hist.ctxId => w.correlator = p /\ NoAsks(q) /\ Streams(w, ForkView(s).canvas)
  <2>1. SUFFICES ASSUME Streaming(s), c = s.hist.ctxId
                 PROVE  w.correlator = p /\ NoAsks(q) /\ Streams(w, ForkView(s).canvas)
    OBVIOUS
  <2>2. v.correlator = p /\ NoAsks(ms) /\ Streams(v, ForkView(s).canvas)
    BY <1>1, <2>1 DEF Streamer, v, ms, p
  <2>3. Streams(w, ForkView(s).canvas)
    BY <1>8, <2>2 DEF Streams
  <2> QED BY <1>12, <2>2, <2>3
<1> QED BY <1>4, <1>7, <1>9, <1>14, <1>15 DEF Follower, p

(* What has arrived changes nothing that the server relies on.             *)
LEMMA TurnedIs ==
  ASSUME NEW s, Sound(s), NEW c, NEW q, NEW t, t = [s EXCEPT !.inbox[c] = q]
  PROVE  Turned(s, t, c, q)
<1>1. /\ DOMAIN t = SessFields /\ t.hist = s.hist /\ t.clients = s.clients /\ t.payload = s.payload
      /\ t.position = s.position /\ t.flags = s.flags /\ t.status = s.status /\ t.state = s.state
      /\ t.resetstream = s.resetstream /\ t.candidates = s.candidates /\ t.ops = s.ops
      /\ t.inbox = [s.inbox EXCEPT ![c] = q]
  BY DEF Sound, SessFields
<1>2. Sound(t)
  BY <1>1 DEF Sound, Present
<1> QED BY <1>1, <1>2 DEF Turned

(* A client reads up to a message that it does more with than show.        *)
LEMMA ReadKeeps ==
  ASSUME NEW s, NEW k, NEW P, NEW n, InStep(s, k, P, n), NEW c \in Present(s),
         NEW i \in 1 .. Len(s.inbox[c]), Noticed(s.inbox[c][i]),
         NEW u, u = ShowsAll(k[c], SubSeq(s.inbox[c], 1, i - 1)),
         NEW ns \in Answers(u, s.inbox[c][i])
  PROVE  InStep([s EXCEPT !.inbox[c] = SubSeq(s.inbox[c], i + 1, Len(s.inbox[c]))],
                [k EXCEPT ![c] = [Remembers(u, s.inbox[c][i]) EXCEPT !.up = @ \o ns]], P, n)
<1> DEFINE ms == s.inbox[c]
           m == ms[i]
           q == SubSeq(s.inbox[c], i + 1, Len(s.inbox[c]))
           t == [s EXCEPT !.inbox[c] = q]
           w == [Remembers(u, m) EXCEPT !.up = @ \o ns]
           x == SubSeq(ms, 1, i - 1)
<1>1. Sound(s) /\ Fits(s) /\ k[c] \in Views /\ ms \in Seq(Messages)
  BY PresentClients DEF InStep, Fits
<1>2. x \in Seq(Messages) /\ m \in Messages
  <2>1. i \in 1 .. Len(ms)
    OBVIOUS
  <2> HIDE DEF ms
  <2> QED BY <1>1, <2>1, CutAt
<1>3. u \in Views
  <2> HIDE DEF x
  <2>1. u = ShowsAll(k[c], x)
    BY DEF x
  <2> QED BY <1>1, <1>2, <2>1, ShowsReads
<1>4. Heard(u, m, w)
  <2>1. Noticed(m) /\ ns \in Answers(u, m)
    OBVIOUS
  <2> HIDE DEF m
  <2> QED BY <1>2, <1>3, <2>1, HeardIs
<1>5. Turned(s, t, c, q)
  <2> HIDE DEF q
  <2> QED BY <1>1, TurnedIs
<1>6. Heard(ShowsAll(k[c], SubSeq(s.inbox[c], 1, i - 1)), s.inbox[c][i], w)
  BY <1>4 DEF m, ms
<1>7. q = SubSeq(s.inbox[c], i + 1, Len(s.inbox[c]))
  OBVIOUS
<1> HIDE DEF t, w, q
<1>8. Follower(s, t, k, c, w, q)
  BY <1>5, <1>6, <1>7, HeardFollows
<1>9. InStep(t, [k EXCEPT ![c] = w], P, n)
  BY <1>5, <1>8, ClientKeeps
<1> QED BY <1>9 DEF t, w, q, m, ms

(* A client reads all that has arrived.                                    *)
LEMMA ReadAllKeeps ==
  ASSUME NEW s, NEW k, NEW P, NEW n, InStep(s, k, P, n), NEW c \in Present(s)
  PROVE  InStep([s EXCEPT !.inbox[c] = << >>], [k EXCEPT ![c] = ShowsAll(k[c], s.inbox[c])], P, n)
<1> DEFINE v == k[c]
           ms == s.inbox[c]
           q == << >>
           t == [s EXCEPT !.inbox[c] = q]
           w == ShowsAll(v, ms)
<1>1. /\ Sound(s) /\ Fits(s) /\ v \in Views /\ ms \in Seq(Messages) /\ c \in Clients
      /\ Asking(s, k) /\ Streamer(s, k)
  BY PresentClients DEF InStep, Fits
<1>2. Turned(s, t, c, q)
  <2> HIDE DEF q
  <2> QED BY <1>1, TurnedIs
<1>3. q \in Seq(Messages) /\ Len(q) = 0 /\ NoAsks(q)
  BY Literals DEF NoAsks
<1> HIDE DEF v, t, q
<1>4. /\ w \in Views /\ w.canvas = Reading(Reader(v), ms).canvas /\ w.users = Reading(Reader(v), ms).users
      /\ w.up = v.up /\ w.correlator = v.correlator /\ w.image = v.image /\ w.imageFor = v.imageFor
  <2> HIDE DEF ms
  <2> QED BY <1>1, ShowsReads
<1>5. AskingOne(s, v, c)
  BY <1>1 DEF Asking, v
<1> HIDE DEF w, ms
<1>6. Less(Reading(Reader(w), q), Arrived(s, k, c))
  <2>1. Reading(Reader(w), q) = Reader(w)
    BY <1>4, ReadingOne, ReaderIs DEF q
  <2>2. /\ Reader(w).canvas = w.canvas /\ Reader(w).users = w.users
        /\ Reader(w).starts = Reader(v).starts /\ Reader(v) \in Readers
    BY <1>1, <1>4, ReaderIs
  <2>3. Reader(v).starts \subseteq Reading(Reader(v), ms).starts
    BY <1>1, <2>2, ReadingSame
  <2> QED BY <1>4, <2>1, <2>2, <2>3 DEF Less, Alike, Arrived, v, ms
<1>7. \A j : AskedBelow(ms, v, j) => AskedBelow(q, w, j)
  BY <1>3, <1>4 DEF AskedBelow
<1>8. \A j, a : AskedLast(q, j) /\ (Answered(ms, v, j, a) => Answered(q, w, j, a))
  BY <1>3, <1>4 DEF AskedLast, Answered
<1>9. AskingOne(t, w, c)
  <2>1. t.inbox[c] = q /\ t.payload = s.payload /\ (Asked(t) <=> Asked(s)) /\ Armed(t, c) = Armed(s, c)
    <3>1. DOMAIN s.inbox = Clients
      BY <1>1, SMTT(30) DEF Fits
    <3> QED BY <1>1, <1>2, <3>1 DEF Turned, Asked, Armed
  <2> QED BY <1>5, <1>7, <1>8, <2>1 DEF AskingOne, ms
<1>10. Streaming(s) /\ c = s.hist.ctxId => w.correlator = s.payload /\ NoAsks(q) /\ Streams(w, ForkView(s).canvas)
  BY <1>1, <1>3, <1>4 DEF Streamer, Streams, v
<1>11. Follower(s, t, k, c, w, q)
  BY <1>3, <1>4, <1>6, <1>9, <1>10 DEF Follower
<1>12. InStep(t, [k EXCEPT ![c] = w], P, n)
  BY <1>2, <1>11, ClientKeeps
<1> QED BY <1>12 DEF t, w, q, v, ms

----------------------------------------------------------------------------
(* Who is in the session stays the same.                                   *)

(* The same clients are in it.                                             *)
Same(s, t) == DOMAIN t = DOMAIN s /\ "clients" \in DOMAIN t /\ t.clients = s.clients

(* Steps that have nothing to do with who is in the session.               *)
LEMMA SameBy ==
  ASSUME NEW s, NEW t, Same(s, t)
  PROVE  /\ \A cs, m : Same(s, sendDirectMessages(t, cs, m))
         /\ \A c, m : Same(s, sendDirectMessage(t, c, m))
         /\ \A r : Same(s, clearAutoReset(t, r))
         /\ Same(s, notifyAll(t))
         /\ \A h : Same(s, [t EXCEPT !.hist = h])
         /\ \A c, F : Same(s, [t EXCEPT !.flags[c] = F])
         /\ \A c : Same(s, [t EXCEPT !.uploading[c] = TRUE])
         /\ \A x : Same(s, [t EXCEPT !.resetstream = x])
<1>1. \A cs, m : Same(s, sendDirectMessages(t, cs, m))
  BY DEF Same, sendDirectMessages
<1>2. \A c, m : Same(s, sendDirectMessage(t, c, m))
  BY <1>1 DEF sendDirectMessage
<1>3. \A r : Same(s, clearAutoReset(t, r))
  BY DEF Same, clearAutoReset
<1>4. Same(s, notifyAll(t))
  BY DEF Same, notifyAll
<1>5. /\ \A h : Same(s, [t EXCEPT !.hist = h])
      /\ \A c, F : Same(s, [t EXCEPT !.flags[c] = F])
      /\ \A c : Same(s, [t EXCEPT !.uploading[c] = TRUE])
      /\ \A x : Same(s, [t EXCEPT !.resetstream = x])
  BY DEF Same
<1> QED BY <1>1, <1>2, <1>3, <1>4, <1>5

(* A session whose clients are the same is one of the same.                *)
LEMMA SameOf ==
  ASSUME NEW s, Sound(s)
  PROVE  Same(s, s) /\ \A t : Passes(s, t) => Same(s, t)
BY DEF Same, Sound, SessFields, Passes, SameUsers

(* The dialogue that finds somebody to reset.                              *)
LEMMA TriggerSame ==
  ASSUME NEW s, NEW t, Same(s, t)
  PROVE  Same(s, triggerAutoReset(t))
<1> DEFINE u == [t EXCEPT !.timer = FALSE]
           valid == {i \in DOMAIN u.candidates : CandidateValid(u, i)}
           best == u.candidates[CHOOSE i \in valid : \A j \in valid \ {i} : Better(u, i, j)]
           F == IF best \in CanStream THEN {"Awaiting", "Streaming"} ELSE {"Awaiting"}
           a == [u EXCEPT !.status = "Requested", !.candidates = << >>, !.flags[best] = F]
           m == RequestMsg(u.payload, best \in CanStream)
           r == TRUE
<1>1. Same(s, u)
  BY DEF Same
<1>2. \/ triggerAutoReset(t) = clearAutoReset(u, r)
      \/ triggerAutoReset(t) = u
      \/ triggerAutoReset(t) = sendDirectMessage(a, best, m)
  BY DEF triggerAutoReset
<1> HIDE DEF u, valid, best, F, m, r
<1>3. Same(s, a)
  BY <1>1 DEF Same
<1> HIDE DEF a
<1>4. Same(s, clearAutoReset(u, r))
  BY <1>1, SameBy
<1>5. Same(s, sendDirectMessage(a, best, m))
  BY <1>3, SameBy
<1> QED BY <1>1, <1>2, <1>4, <1>5

(* An operator who is ready is one of them.                                *)
LEMMA ReadySame ==
  ASSUME NEW s, Sound(s), NEW c, NEW payload
  PROVE  Same(s, readyToAutoReset(s, c, payload))
<1> DEFINE t == [s EXCEPT !.candidates = Append(@, c), !.flags[c] = {"Responded"},
                          !.status = "QueriedWaiting", !.timer = TRUE]
           F == {}
           u == [s EXCEPT !.flags[c] = F]
<1>1. Same(s, s)
  BY SameOf
<1>2. Same(s, t)
  BY <1>1 DEF Same
<1>3. readyToAutoReset(s, c, payload) \in {s, u, t, triggerAutoReset(t)}
  BY DEF readyToAutoReset
<1> HIDE DEF t, F
<1>4. Same(s, u)
  BY <1>1, SameBy
<1>5. Same(s, triggerAutoReset(t))
  BY <1>2, TriggerSame
<1> HIDE DEF u
<1> QED BY <1>1, <1>2, <1>3, <1>4, <1>5

(* Streamed resets.                                                        *)
LEMMA StreamSame ==
  ASSUME NEW s, Sound(s), NEW c
  PROVE  /\ \A m : Same(s, onResetStream(s, c, m))
         /\ Same(s, handleStreamResetAbort(s, c))
<1>1. Same(s, s)
  BY SameOf
<1>2. ASSUME NEW m PROVE Same(s, onResetStream(s, c, m))
  <2> DEFINE h == addStreamResetMessage(s.hist, c, m)
             t == [s EXCEPT !.hist = addStreamResetMessage(@, c, m)]
             no == ProgressMsg(FALSE)
             yes == ProgressMsg(TRUE)
             r == TRUE
  <2>1. t = [s EXCEPT !.hist = h]
    OBVIOUS
  <2>2. onResetStream(s, c, m) \in {sendDirectMessage(t, c, no), sendDirectMessage(t, c, yes),
                                    clearAutoReset(sendDirectMessage(t, c, yes), r)}
    BY DEF onResetStream
  <2> HIDE DEF h, t, no, yes, r
  <2>3. Same(s, t)
    BY <1>1, <2>1, SameBy
  <2>4. Same(s, sendDirectMessage(t, c, no)) /\ Same(s, sendDirectMessage(t, c, yes))
    BY <2>3, SameBy
  <2>5. Same(s, clearAutoReset(sendDirectMessage(t, c, yes), r))
    BY <2>4, SameBy
  <2> QED BY <2>2, <2>4, <2>5
<1>3. Same(s, handleStreamResetAbort(s, c))
  <2> DEFINE h == abortStreamedReset(s.hist, c)
             t == [s EXCEPT !.hist = abortStreamedReset(@, c)]
             r == TRUE
  <2>1. t = [s EXCEPT !.hist = h]
    OBVIOUS
  <2>2. handleStreamResetAbort(s, c) \in {s, clearAutoReset(t, r)}
    BY DEF handleStreamResetAbort
  <2> HIDE DEF h, t, r
  <2>3. Same(s, t)
    BY <1>1, <2>1, SameBy
  <2>4. Same(s, clearAutoReset(t, r))
    BY <2>3, SameBy
  <2> QED BY <1>1, <2>2, <2>4
<1> QED BY <1>2, <1>3

(* Starting a stream lets nobody in or out.                                *)
LEMMA StreamStartSame ==
  ASSUME NEW s, Sound(s), NEW c, NEW co
  PROVE  Same(s, handleStreamResetStart(s, c, co))
<1> DEFINE ms == serverSideStateMessages(s)
           h == startStreamedReset(s.hist, c, co, ms)
           t == [s EXCEPT !.hist = h]
           u == newMessagesAvailable(t)
           F == {"Streaming"}
           r == TRUE
<1>1. Same(s, s) /\ SoundHist(s.hist) /\ IsSequence(ms)
  BY SameOf, ServerState DEF Sound
<1>2. handleStreamResetStart(s, c, co) \in {s, clearAutoReset(s, r)}
      \/ (StartResult(s.hist) = "Ok" /\ handleStreamResetStart(s, c, co) = [u EXCEPT !.flags[c] = F])
  BY DEF handleStreamResetStart
<1>3. ASSUME StartResult(s.hist) = "Ok" PROVE Same(s, u)
  <2>1. SoundHist(h) /\ h.lastIndex >= s.hist.lastIndex
    BY <1>1, <1>3, StartSound
  <2> HIDE DEF h
  <2>2. Sound(t) /\ Same(s, t)
    BY <1>1, <2>1, HistSound, SameBy
  <2> HIDE DEF t
  <2>3. Same(t, u)
    BY <2>2, NewMessagesPasses, SameOf
  <2> QED BY <2>2, <2>3 DEF Same
<1> HIDE DEF ms, u, F, r
<1>4. Same(s, clearAutoReset(s, r))
  BY <1>1, SameBy
<1>5. StartResult(s.hist) = "Ok" => Same(s, [u EXCEPT !.flags[c] = F])
  BY <1>3, SameBy
<1> QED BY <1>1, <1>2, <1>4, <1>5

(* Nor does finishing it.                                                  *)
LEMMA StreamFinishSame ==
  ASSUME NEW s, Sound(s), NEW c, NEW e
  PROVE  Same(s, handleStreamResetFinish(s, c, e))
<1> DEFINE h == prepareStreamedReset(s.hist, c, e)
           t == [s EXCEPT !.hist = prepareStreamedReset(@, c, e)]
           F == {}
           u == [t EXCEPT !.flags[c] = F]
           r == TRUE
<1>1. Same(s, s) /\ SoundHist(s.hist)
  BY SameOf DEF Sound
<1>2. t = [s EXCEPT !.hist = h]
  OBVIOUS
<1>3. handleStreamResetFinish(s, c, e) \in {resolvePendingStreamedReset(u), clearAutoReset(t, r), t}
  BY DEF handleStreamResetFinish
<1>4. SoundHist(h) /\ h.lastIndex >= s.hist.lastIndex
  <2>1. SoundHist(h) /\ h.lastIndex = s.hist.lastIndex
    BY <1>1, PrepareSound
  <2> QED BY <2>1 DEF SoundHist
<1> HIDE DEF h, t, r, F
<1>5. Same(s, t) /\ Sound(t)
  BY <1>1, <1>2, <1>4, SameBy, HistSound
<1>6. Same(s, u) /\ Sound(u)
  <2>1. Same(s, u)
    BY <1>5, SameBy
  <2>2. /\ DOMAIN u = SessFields /\ u.hist = t.hist /\ u.clients = t.clients /\ u.position = t.position
        /\ u.status = t.status /\ u.state = t.state /\ u.resetstream = t.resetstream /\ u.ops = t.ops
        /\ u.flags = [t.flags EXCEPT ![c] = F]
    BY <1>5 DEF Sound, SessFields
  <2> HIDE DEF u
  <2> QED BY <1>5, <2>1, <2>2 DEF Sound, Present
<1> HIDE DEF u
<1>7. Same(s, resolvePendingStreamedReset(u))
  <2>1. Same(u, resolvePendingStreamedReset(u))
    BY <1>6, ResolvePasses, SameOf
  <2> QED BY <1>6, <2>1 DEF Same
<1>8. Same(s, clearAutoReset(t, r))
  BY <1>5, SameBy
<1> QED BY <1>3, <1>5, <1>7, <1>8

(* Full resets.                                                            *)
LEMMA InitSame ==
  ASSUME NEW s, SoundSession(s), NEW c \in Clients
  PROVE  /\ Same(s, resetSession(s, c)) /\ Same(s, handleInitBegin(s, c))
         /\ Same(s, handleInitComplete(s, c)) /\ Same(s, handleInitCancel(s, c))
<1> DEFINE none == << >>
           e == [s EXCEPT !.resetstream = none]
<1>1. Sound(s) /\ Same(s, s) /\ DOMAIN s = SessFields
  BY SameOf DEF SoundSession, Sound
<1>2. c = s.initUser => s.hist.resetStreamState = "None"
  BY SessionHistoryAssumption DEF SoundSession, SoundState, NoUser
<1>3. Same(s, resetSession(s, c))
  <2> DEFINE a == [s EXCEPT !.initUser = c]
             b == [a EXCEPT !.state = "Reset", !.resetstream = << >>]
             r == FALSE
  <2>1. resetSession(s, c) \in {s, sendDirectMessage(notifyAll(clearAutoReset(b, r)), c, InitMsg)}
    BY DEF resetSession, switchToReset
  <2>2. Same(s, b)
    BY <1>1 DEF Same
  <2> HIDE DEF b, r
  <2>3. Same(s, clearAutoReset(b, r))
    BY <2>2, SameBy
  <2>4. Same(s, notifyAll(clearAutoReset(b, r)))
    BY <2>3, SameBy
  <2>5. Same(s, sendDirectMessage(notifyAll(clearAutoReset(b, r)), c, InitMsg))
    BY <2>4, SameBy
  <2> QED BY <1>1, <2>1, <2>5
<1>4. ASSUME NEW t, Sound(t), t.hist.resetStreamState = "None" PROVE Same(t, switchToRunning(t))
  <2> DEFINE a == [t EXCEPT !.initUser = NoUser]
             b == performReset(a)
             u == [b EXCEPT !.resetstream = << >>, !.state = "Running"]
             r == FALSE
  <2>1. /\ DOMAIN a = SessFields /\ a.hist = t.hist /\ a.clients = t.clients /\ a.position = t.position
        /\ a.status = t.status /\ a.state = t.state /\ a.resetstream = t.resetstream /\ a.ops = t.ops
        /\ a.flags = t.flags
    BY <1>4 DEF Sound, SessFields
  <2> HIDE DEF a
  <2>2. Sound(a)
    BY <1>4, <2>1 DEF Sound, Present
  <2>3. Sound(b) /\ SameUsers(a, b)
    BY <1>4, <2>1, <2>2, PerformResetSound
  <2>4. switchToRunning(t) = clearAutoReset(u, r)
    BY DEF switchToRunning, a
  <2> HIDE DEF b, r
  <2>5. Same(t, u)
    BY <1>4, <2>1, <2>3 DEF Same, Sound, SessFields, SameUsers
  <2> HIDE DEF u
  <2> QED BY <2>4, <2>5, SameBy
<1>5. Same(s, e) /\ Sound(e) /\ e.hist = s.hist
  <2>1. /\ DOMAIN e = SessFields /\ e.hist = s.hist /\ e.clients = s.clients /\ e.position = s.position
        /\ e.status = s.status /\ e.state = s.state /\ e.resetstream = none /\ e.ops = s.ops
        /\ e.flags = s.flags
    BY <1>1 DEF SessFields
  <2>2. IsSequence(none)
    BY Literals
  <2> HIDE DEF e, none
  <2> QED BY <1>1, <2>1, <2>2 DEF Sound, Present, Same
<1>6. Same(s, handleInitBegin(s, c))
  BY <1>1, <1>5 DEF handleInitBegin
<1>7. Same(s, handleInitComplete(s, c))
  BY <1>1, <1>2, <1>4 DEF handleInitComplete
<1>8. Same(s, handleInitCancel(s, c))
  <2>1. handleInitCancel(s, c) \in {s, notifyAll(switchToRunning(e))} /\
        (c # s.initUser => handleInitCancel(s, c) = s)
    BY DEF handleInitCancel, abortReset
  <2> HIDE DEF e
  <2>2. c = s.initUser => Same(s, switchToRunning(e))
    BY <1>2, <1>4, <1>5 DEF Same
  <2>3. c = s.initUser => Same(s, notifyAll(switchToRunning(e)))
    BY <2>2, SameBy
  <2> QED BY <1>1, <2>1, <2>3
<1> QED BY <1>3, <1>6, <1>7, <1>8

----------------------------------------------------------------------------
(* Every step.                                                             *)

(* The session becomes one in step with its clients.                       *)
Goes == \E t, k, n : Become(t, k) /\ InStep(t, k, Present(t), n)

(* A connection is busy.                                                   *)
LEMMA BusyKeeps ==
  ASSUME NEW s, NEW k, NEW P, NEW n, InStep(s, k, P, n), NEW c
  PROVE  \A x : InStep([s EXCEPT !.uploading[c] = x], k, P, n) /\ Same(s, [s EXCEPT !.uploading[c] = x])
<1> SUFFICES ASSUME NEW x
             PROVE  InStep([s EXCEPT !.uploading[c] = x], k, P, n) /\ Same(s, [s EXCEPT !.uploading[c] = x])
  OBVIOUS
<1> DEFINE t == [s EXCEPT !.uploading[c] = x]
<1>1. Sound(s) /\ Fits(s) /\ DOMAIN s = SessFields
  BY DEF InStep, Sound
<1>2. /\ DOMAIN t = SessFields /\ t.hist = s.hist /\ t.clients = s.clients /\ t.payload = s.payload
      /\ t.inbox = s.inbox /\ t.position = s.position /\ t.flags = s.flags /\ t.status = s.status
      /\ t.state = s.state /\ t.resetstream = s.resetstream /\ t.candidates = s.candidates /\ t.ops = s.ops
  BY <1>1 DEF SessFields
<1> HIDE DEF t
<1>3. Sound(t) /\ Same(s, t)
  BY <1>1, <1>2 DEF Sound, Present, Same, SessFields
<1>4. Plain(s, t)
  BY <1>1, <1>2 DEF Plain, Fits
<1>5. InStep(t, k, P, n)
  BY <1>3, <1>4, PlainKeeps
<1> QED BY <1>3, <1>5 DEF t

(* A delay is over.                                                        *)
LEMMA DelayKeeps ==
  ASSUME NEW s, NEW k, NEW P, NEW n, InStep(s, k, P, n), NEW x
  PROVE  InStep([s EXCEPT !.delayed = x], k, P, n) /\ Same(s, [s EXCEPT !.delayed = x])
<1> DEFINE t == [s EXCEPT !.delayed = x]
<1>1. Sound(s) /\ Fits(s) /\ DOMAIN s = SessFields
  BY DEF InStep, Sound
<1>2. /\ DOMAIN t = SessFields /\ t.hist = s.hist /\ t.clients = s.clients /\ t.payload = s.payload
      /\ t.inbox = s.inbox /\ t.position = s.position /\ t.flags = s.flags /\ t.status = s.status
      /\ t.state = s.state /\ t.resetstream = s.resetstream /\ t.candidates = s.candidates /\ t.ops = s.ops
  BY <1>1 DEF SessFields
<1> HIDE DEF t
<1>3. Sound(t) /\ Same(s, t)
  BY <1>1, <1>2 DEF Sound, Present, Same, SessFields
<1>4. Plain(s, t)
  BY <1>1, <1>2 DEF Plain, Fits
<1>5. InStep(t, k, P, n)
  BY <1>3, <1>4, PlainKeeps
<1> QED BY <1>3, <1>5 DEF t

(* What a client may have sent.                                            *)
LEMMA RequestFields ==
  ASSUME NEW m \in Requests
  PROVE  /\ m.type = "Image" => m \in Pictures
         /\ m.type = "Stream" => m.image \in Images
         /\ m.type = "Finish" => m.messageCount = 1
         /\ m.type = "Start" => m.correlator \in Nat
BY DEF Requests, Images, Pictures, Recorded

(* Whatever a client has sent, the server handles it.                      *)
LEMMA HandleGoes ==
  ASSUME SoundSession(sv), InStep(sv, cl, Present(sv), 5),
         "LeaveUnseen" \notin Features, NEW c \in Clients, HandleMessage(c)
  PROVE  Goes
<1> DEFINE P == Present(sv)
           m == Head(cl[c].up)
           j == [cl EXCEPT ![c].up = Tail(@)]
           five == 5
<1>1. c \in P /\ cl[c].up # << >>
  BY DEF HandleMessage, HandleImage, HandleReady, HandleResetSession, HandleInitBegin,
         HandleInitComplete, HandleInitCancel, HandleStart, HandleStream, HandleAbort,
         HandleFinish, Command, Handle
<1>2. /\ InStep(sv, j, P, five) /\ m \in Requests
      /\ m.type = "Start" /\ m.correlator = sv.payload /\ Armed(sv, c) => Starter(sv, j[c], c)
      /\ m.type = "Stream" /\ Streaming(sv) /\ c = sv.hist.ctxId => m.image.canvas = ForkView(sv).canvas
  <2> HIDE DEF P, five
  <2> QED BY <1>1, UpKeeps DEF P, five
<1>3. Sound(sv) /\ SoundStream(sv) /\ SoundState(sv)
  BY DEF SoundSession
<1>4. ASSUME NEW t, NEW type, Handle(c, type, t), InStep(t, j, P, five), Same(sv, t)
      PROVE  Goes
  <2>1. Become(t, j)
    BY <1>4 DEF Handle
  <2>2. Present(t) = P
    BY <1>4 DEF Same, Present
  <2> HIDE DEF five, j, P
  <2> QED BY <1>4, <2>1, <2>2 DEF Goes
<1>5. ASSUME NEW type, NEW t, Command(c, type, t), InStep(t, j, P, five), Same(sv, t)
      PROVE  Goes
  <2> DEFINE u == [sv EXCEPT !.uploading[c] = TRUE]
  <2>1. Handle(c, type, t) \/ Handle(c, type, u)
    BY <1>5 DEF Command
  <2>2. InStep(u, j, P, five) /\ Same(sv, u)
    <3> HIDE DEF j, P, five
    <3> QED BY <1>2, BusyKeeps
  <2> HIDE DEF u, j, P, five
  <2> QED BY <1>4, <1>5, <2>1, <2>2
<1> HIDE DEF j, five
<1>6. five \in Nat /\ five >= 2
  BY DEF five
<1>7. CASE HandleImage(c)
  <2> DEFINE t == addClientMessage(sv, c, m)
  <2>1. m.type = "Image" /\ Become(t, j)
    BY <1>7 DEF HandleImage, Handle, j
  <2>2. m \in Pictures
    BY <1>2, <2>1, RequestFields
  <2> HIDE DEF m
  <2>3. InStep(t, j, Present(t), five - 2)
    BY <1>2, <1>6, <2>2, AddClientMessageKeeps
  <2> HIDE DEF t
  <2> QED BY <2>1, <2>3 DEF Goes
<1>8. CASE HandleReady(c)
  <2> DEFINE t == readyToAutoReset(sv, c, m.payload)
  <2>1. InStep(t, j, P, five) /\ Same(sv, t)
    <3> DEFINE x == m.payload
    <3> HIDE DEF x, P
    <3> QED BY <1>2, <1>3, ReadyKeeps, ReadySame DEF x
  <2>2. Command(c, "Ready", t)
    BY <1>8 DEF HandleReady
  <2> HIDE DEF t, P
  <2> QED BY <1>5, <2>1, <2>2
<1>9. CASE HandleResetSession(c)
  <2> DEFINE t == resetSession(sv, c)
  <2>1. NoLeaves(sv)
    BY <1>9 DEF HandleResetSession, ResetAllowed, NoLeaveUnseen, NoLeaves
  <2>2. InStep(t, j, P, five) /\ Same(sv, t)
    <3> HIDE DEF P
    <3> QED BY <1>1, <1>2, <2>1, ResetSessionKeeps, InitSame DEF P
  <2>3. Command(c, "ResetSession", t)
    BY <1>9 DEF HandleResetSession
  <2> HIDE DEF t, P
  <2> QED BY <1>5, <2>2, <2>3
<1>10. CASE HandleInitBegin(c)
  <2> DEFINE t == handleInitBegin(sv, c)
  <2>1. InStep(t, j, P, five) /\ Same(sv, t)
    BY <1>2, <1>3, InitKeeps, InitSame
  <2>2. Command(c, "InitBegin", t)
    BY <1>10 DEF HandleInitBegin
  <2> HIDE DEF t, P
  <2> QED BY <1>5, <2>1, <2>2
<1>11. CASE HandleInitComplete(c)
  <2> DEFINE t == handleInitComplete(sv, c)
  <2>1. InStep(t, j, P, five) /\ Same(sv, t)
    BY <1>2, <1>3, InitKeeps, InitSame
  <2>2. Command(c, "InitComplete", t)
    BY <1>11 DEF HandleInitComplete
  <2> HIDE DEF t, P
  <2> QED BY <1>5, <2>1, <2>2
<1>12. CASE HandleInitCancel(c)
  <2> DEFINE t == handleInitCancel(sv, c)
  <2>1. InStep(t, j, P, five) /\ Same(sv, t)
    BY <1>2, <1>3, InitKeeps, InitSame
  <2>2. Command(c, "InitCancel", t)
    BY <1>12 DEF HandleInitCancel
  <2> HIDE DEF t, P
  <2> QED BY <1>5, <2>1, <2>2
<1>13. CASE HandleStart(c)
  <2> DEFINE co == m.correlator
             t == handleStreamResetStart(sv, c, co)
  <2>1. m.type = "Start" /\ Command(c, "Start", t)
    BY <1>13 DEF HandleStart, Command, Handle
  <2>2. Armed(sv, c) /\ co = sv.payload => Starter(sv, j[c], c)
    BY <1>2, <2>1
  <2> HIDE DEF co
  <2>3. InStep(t, j, P, five)
    BY <1>1, <1>2, <2>2, StreamStartKeeps
  <2>4. Same(sv, t)
    BY <1>3, StreamStartSame
  <2> HIDE DEF t, P
  <2> QED BY <1>5, <2>1, <2>3, <2>4
<1>14. CASE HandleStream(c)
  <2> DEFINE x == m.image
             t == onResetStream(sv, c, x)
  <2>1. m.type = "Stream" /\ Handle(c, "Stream", t)
    BY <1>14 DEF HandleStream, Handle
  <2>2. x \in Images /\ (Streaming(sv) /\ c = sv.hist.ctxId => x.canvas = ForkView(sv).canvas)
    BY <1>2, <2>1, RequestFields
  <2> HIDE DEF x
  <2>3. InStep(t, j, P, five)
    <3> HIDE DEF P
    <3> QED BY <1>1, <1>2, <2>2, StreamKeeps DEF P
  <2>4. Same(sv, t)
    BY <1>3, StreamSame
  <2> HIDE DEF t, P
  <2> QED BY <1>4, <2>1, <2>3, <2>4
<1>15. CASE HandleAbort(c)
  <2> DEFINE t == handleStreamResetAbort(sv, c)
  <2>1. InStep(t, j, P, five) /\ Same(sv, t)
    <3> HIDE DEF P
    <3> QED BY <1>2, <1>3, StreamAbortKeeps, StreamSame
  <2>2. Command(c, "Abort", t)
    BY <1>15 DEF HandleAbort
  <2> HIDE DEF t, P
  <2> QED BY <1>5, <2>1, <2>2
<1>16. CASE HandleFinish(c)
  <2> DEFINE e == m.messageCount
             t == handleStreamResetFinish(sv, c, e)
  <2>1. m.type = "Finish" /\ Command(c, "Finish", t)
    BY <1>16 DEF HandleFinish, Command, Handle
  <2>2. e = 1
    BY <1>2, <2>1, RequestFields
  <2> HIDE DEF e
  <2>3. InStep(t, j, P, five)
    <3> HIDE DEF P
    <3> QED BY <1>2, <1>3, <2>2, StreamFinishKeeps
  <2>4. Same(sv, t)
    BY <1>3, StreamFinishSame
  <2> HIDE DEF t, P
  <2> QED BY <1>5, <2>1, <2>3, <2>4
<1> QED BY <1>7, <1>8, <1>9, <1>10, <1>11, <1>12, <1>13, <1>14, <1>15, <1>16 DEF HandleMessage

(* The session and its clients are in step after a step of the session.    *)
LEMMA StepIsBecome ==
  ASSUME NEW t, NEW k, Become(t, k), NEW n, InStep(t, k, Present(t), n)
  PROVE  Goes
BY DEF Goes

(* The server acts by itself.                                              *)
LEMMA TimerGoes ==
  ASSUME SoundSession(sv), NEW n, InStep(sv, cl, Present(sv), n)
  PROVE  /\ TimerFires => Goes
         /\ DelayExpires => Goes
         /\ \A c \in Clients : AllSent(c) => Goes
<1> DEFINE P == Present(sv)
<1>1. Sound(sv) /\ Same(sv, sv)
  BY SameOf DEF SoundSession
<1>2. ASSUME TimerFires PROVE Goes
  <2> DEFINE t == triggerAutoReset(sv)
  <2>1. InStep(t, cl, P, n)
    <3> HIDE DEF P
    <3> QED BY TriggerKeeps DEF P
  <2>2. Same(sv, t)
    BY <1>1, TriggerSame
  <2>3. Become(t, cl)
    BY <1>2 DEF TimerFires
  <2> HIDE DEF t
  <2>4. Present(t) = P
    BY <2>2 DEF Same, Present
  <2> QED BY <2>1, <2>3, <2>4, StepIsBecome
<1>3. ASSUME DelayExpires PROVE Goes
  <2> DEFINE x == FALSE
             t == [sv EXCEPT !.delayed = x]
  <2>1. Become(t, cl)
    BY <1>3 DEF DelayExpires
  <2> HIDE DEF x
  <2>2. InStep(t, cl, P, n) /\ Same(sv, t)
    <3> HIDE DEF P
    <3> QED BY DelayKeeps DEF P
  <2> HIDE DEF t
  <2>3. Present(t) = P
    BY <2>2 DEF Same, Present
  <2> QED BY <2>1, <2>2, <2>3, StepIsBecome
<1>4. ASSUME NEW c \in Clients, AllSent(c) PROVE Goes
  <2> DEFINE x == FALSE
             s == [sv EXCEPT !.uploading[c] = x]
             t == sendNextHistoryBatch(s, c)
  <2>1. Become(t, cl) /\ c \in P
    BY <1>4 DEF AllSent
  <2> HIDE DEF x
  <2>2. InStep(s, cl, P, n) /\ Same(sv, s)
    <3> HIDE DEF P
    <3> QED BY BusyKeeps DEF P
  <2> HIDE DEF s
  <2>3. Present(s) = P
    BY <2>2 DEF Same, Present
  <2>4. InStep(t, cl, P, n)
    <3> HIDE DEF P
    <3> QED BY <2>1, <2>2, <2>3, BatchKeeps
  <2>5. Sound(s)
    BY <2>2 DEF InStep
  <2>6. Passes(s, t)
    BY <2>5, BatchPasses
  <2> HIDE DEF t
  <2>7. Same(s, t)
    BY <2>5, <2>6, SameOf
  <2>8. Present(t) = P
    BY <2>3, <2>7 DEF Same, Present
  <2> QED BY <2>1, <2>4, <2>8, StepIsBecome
<1> QED BY <1>2, <1>3, <1>4

(* Users come and go.                                                      *)
LEMMA UsersGo ==
  ASSUME SoundSession(sv), InStep(sv, cl, Present(sv), 5), "LeaveUnseen" \notin Features,
         \A c \in Clients \ Present(sv) : cl[c] = NewClient, NEW c \in Clients
  PROVE  /\ Join(c) => Goes
         /\ Leave(c) => Goes
<1> DEFINE five == 5
<1>1. five \in Nat /\ five >= 5 /\ five >= 2 /\ InStep(sv, cl, Present(sv), five)
  OBVIOUS
<1> HIDE DEF five
<1>2. ASSUME Join(c) PROVE Goes
  <2> DEFINE t == joinUser(sv, c)
  <2>1. Become(t, cl) /\ c \notin Present(sv) /\ cl[c] = NewClient
    BY <1>2 DEF Join
  <2>2. InStep(t, cl, Present(t), five - 5)
    BY <1>1, <2>1, JoinUserKeeps
  <2> HIDE DEF t
  <2> QED BY <2>1, <2>2, StepIsBecome
<1>3. ASSUME Leave(c) PROVE Goes
  <2> DEFINE t == removeUser(sv, c)
  <2>1. Become(t, cl) /\ c \in Present(sv)
    BY <1>3 DEF Leave
  <2>2. StateUpTo(sv, c)
    BY DEF SoundSession, SoundState, StateUpTo
  <2>3. sv.state = "Reset" => c = sv.initUser
    BY <1>3 DEF Leave
  <2>4. InStep(t, cl, Present(sv) \ {c}, five - 2) /\ Present(t) = Present(sv) \ {c}
    <3> DEFINE P == Present(sv)
    <3>1. InStep(sv, cl, P, five)
      BY <1>1
    <3> HIDE DEF P
    <3>2. InStep(t, cl, P \ {c}, five - 2) /\ Present(t) = Present(sv) \ {c}
      BY <1>1, <2>1, <2>2, <2>3, <3>1, RemoveUserKeeps
    <3> QED BY <3>2 DEF P
  <2> HIDE DEF t
  <2> QED BY <2>1, <2>4, StepIsBecome
<1> QED BY <1>2, <1>3

(* What is counted are steps.                                              *)
Counts == [draws : Nat, joins : Nat, commands : Nat, retries : Nat]

(* What users do.                                                          *)
LEMMA ActsGo ==
  ASSUME SoundSession(sv), InStep(sv, cl, Present(sv), 5), "LeaveUnseen" \notin Features,
         count \in Counts, NEW c \in Clients
  PROVE  /\ Draw(c) => Goes
         /\ RequestReset(c) => Goes
         /\ SetOwners(c) => Goes
         /\ opWord(c) => Goes
<1> DEFINE five == 5
<1>1. five \in Nat /\ five >= 4 /\ five >= 3 /\ five >= 2 /\ InStep(sv, cl, Present(sv), five)
  OBVIOUS
<1> HIDE DEF five
<1>2. ASSUME Draw(c) PROVE Goes
  <2> DEFINE m == DrawMsg(c, count.draws + 1)
             t == addClientMessage(sv, c, m)
  <2>1. Become(t, cl)
    BY <1>2 DEF Draw
  <2>2. m \in Pictures
    <3>1. count.draws + 1 \in Nat
      BY DEF Counts
    <3> QED BY <3>1 DEF DrawMsg, Pictures, Recorded
  <2> HIDE DEF m
  <2>3. InStep(t, cl, Present(t), five - 2)
    BY <1>1, <2>2, AddClientMessageKeeps
  <2> HIDE DEF t
  <2> QED BY <2>1, <2>3, StepIsBecome
<1>3. ASSUME RequestReset(c) PROVE Goes
  <2> DEFINE t == resetSession(sv, c)
  <2>1. Become(t, cl) /\ c \in Present(sv) /\ NoLeaves(sv)
    BY <1>3 DEF RequestReset, Acts, ResetAllowed, NoLeaveUnseen, NoLeaves
  <2>2. InStep(t, cl, Present(sv), five)
    <3> DEFINE P == Present(sv)
    <3>1. InStep(sv, cl, P, five)
      BY <1>1
    <3> HIDE DEF P
    <3>2. InStep(t, cl, P, five)
      BY <2>1, <3>1, ResetSessionKeeps
    <3> QED BY <3>2 DEF P
  <2>3. Same(sv, t)
    BY InitSame
  <2> HIDE DEF t
  <2>4. Present(t) = Present(sv)
    BY <2>3 DEF Same, Present
  <2> QED BY <2>1, <2>2, <2>4, StepIsBecome
<1>4. ASSUME SetOwners(c) PROVE Goes
  <2>1. PICK ids : Become(changeOwners(sv, c, ids), cl)
    BY <1>4 DEF SetOwners
  <2> DEFINE t == changeOwners(sv, c, ids)
  <2>2. InStep(t, cl, Present(t), five - 4)
    BY <1>1, ChangeOwnersKeeps
  <2>3. Become(t, cl)
    BY <2>1
  <2> HIDE DEF t
  <2> QED BY <2>2, <2>3, StepIsBecome
<1>5. ASSUME opWord(c) PROVE Goes
  <2> DEFINE t == changeOpStatus(sv, c)
  <2>1. Become(t, cl)
    BY <1>5 DEF opWord
  <2>2. InStep(t, cl, Present(t), five - 3)
    BY <1>1, OpStatusKeeps
  <2> HIDE DEF t
  <2> QED BY <2>1, <2>2, StepIsBecome
<1> QED BY <1>2, <1>3, <1>4, <1>5

(* A client sends its image.                                               *)
LEMMA SendImageGoes ==
  ASSUME SoundSession(sv), NEW n, InStep(sv, cl, Present(sv), n),
         \A c \in Clients \ Present(sv) : cl[c] = NewClient, NEW c \in Clients, SendImage(c)
  PROVE  Goes
<1> DEFINE P == Present(sv)
           i == [Up(cl, c, <<[type |-> "Stream", image |-> ImageMsg(cl[c].image)]>>)
                   EXCEPT ![c].stream = "Streaming"]
           a == [Up(cl, c, <<[type |-> "Abort"]>>) EXCEPT ![c].stream = "None"]
<1>1. cl[c].stream = "Generating" /\ cl[c].imageFor = cl[c].correlator
  BY DEF SendImage
<1>2. c \in Present(sv)
  BY <1>1 DEF NewClient
<1>3. InStep(sv, i, P, n) /\ InStep(sv, a, P, n)
  <2> HIDE DEF P
  <2> QED BY <1>1, <1>2, SendImageKeeps DEF SoundSession, P
<1>4. Become(sv, i) \/ Become(sv, a)
  BY DEF SendImage
<1> HIDE DEF i, a
<1> QED BY <1>3, <1>4, StepIsBecome

(* Where the first message of the kind is, if there is one.                *)
LEMMA NoticedAt ==
  ASSUME NEW ms \in Seq(Messages)
  PROVE  LET n == SelectInSeq(ms, Noticed)
         IN  n = 0 \/ (n \in 1 .. Len(ms) /\ Noticed(ms[n]))
<1> DEFINE I == {i \in 1 .. Len(ms) : Noticed(ms[i])}
           n == SelectInSeq(ms, Noticed)
<1>1. n = IF I # {} THEN Min(I) ELSE 0
  BY DEF SelectInSeq
<1>2. I \subseteq Nat
  BY LenProperties
<1>3. CASE I = {}
  BY <1>1, <1>3
<1>4. CASE I # {}
  <2>1. PICK x \in I : \A y \in I : x <= y
    BY <1>2, <1>4, LeastNumber
  <2>2. Min(I) \in I
    BY <2>1 DEF Min
  <2> QED BY <1>1, <1>4, <2>2
<1> QED BY <1>3, <1>4

(* A client reads.                                                         *)
LEMMA ReadGoes ==
  ASSUME NEW n, InStep(sv, cl, Present(sv), n), NEW c \in Clients, Read(c)
  PROVE  Goes
<1> DEFINE P == Present(sv)
           ms == sv.inbox[c]
           i == SelectInSeq(ms, Noticed)
           u == ShowsAll(cl[c], SubSeq(ms, 1, i - 1))
           q == SubSeq(ms, i + 1, Len(ms))
           t == [sv EXCEPT !.inbox[c] = q]
           all == [sv EXCEPT !.inbox[c] = << >>]
           k == [cl EXCEPT ![c] = ShowsAll(cl[c], ms)]
           Told(answer) == [cl EXCEPT ![c] = [Remembers(u, ms[i]) EXCEPT !.up = @ \o answer]]
<1>1. /\ Sound(sv) /\ DOMAIN sv = SessFields /\ cl \in [Clients -> Views] /\ ms \in Seq(Messages)
      /\ c \in P /\ sv.inbox \in [Clients -> Seq(Messages)]
  BY DEF InStep, Sound, Fits, Read
<1>2. i = 0 \/ (i \in 1 .. Len(ms) /\ Noticed(ms[i]))
  <2> HIDE DEF ms
  <2> QED BY <1>1, NoticedAt
<1>3. \A x : Present([sv EXCEPT !.inbox[c] = x]) = P
  BY <1>1 DEF Present, SessFields
<1>4. CASE i = 0
  <2>1. Become(all, k)
    BY <1>4 DEF Read
  <2>2. InStep(all, k, P, n)
    <3> HIDE DEF P
    <3>1. InStep([sv EXCEPT !.inbox[c] = << >>], [cl EXCEPT ![c] = ShowsAll(cl[c], sv.inbox[c])], P, n)
      BY <1>1, ReadAllKeeps DEF P
    <3> QED BY <3>1
  <2>3. Present(all) = P
    BY <1>3
  <2> HIDE DEF all, k
  <2> QED BY <2>1, <2>2, <2>3, StepIsBecome
<1>5. CASE i # 0
  <2>1. i \in 1 .. Len(ms) /\ Noticed(ms[i])
    BY <1>2, <1>5
  <2>2. PICK answer \in Answers([cl EXCEPT ![c] = u][c], ms[i]) :
          Become([sv EXCEPT !.inbox[c] = SubSeq(@, i + 1, Len(@))],
                 Up([[cl EXCEPT ![c] = u] EXCEPT ![c] = Remembers(@, ms[i])], c, answer))
    BY <1>5 DEF Read
  <2>3. answer \in Answers(u, ms[i])
    <3> HIDE DEF u, ms, i
    <3> QED BY <1>1, <2>2
  <2>4. Up([[cl EXCEPT ![c] = u] EXCEPT ![c] = Remembers(@, ms[i])], c, answer) = Told(answer)
    <3> HIDE DEF u, ms, i
    <3> QED BY <1>1 DEF Up
  <2>5. InStep(t, Told(answer), P, n)
    <3> DEFINE j == i
    <3>1. j \in 1 .. Len(sv.inbox[c]) /\ Noticed(sv.inbox[c][j])
      BY <2>1
    <3>2. u = ShowsAll(cl[c], SubSeq(sv.inbox[c], 1, j - 1))
      OBVIOUS
    <3>3. answer \in Answers(u, sv.inbox[c][j])
      BY <2>3, SMTT(30)
    <3> HIDE DEF u, j, P
    <3>4. InStep([sv EXCEPT !.inbox[c] = SubSeq(sv.inbox[c], j + 1, Len(sv.inbox[c]))],
                 [cl EXCEPT ![c] = [Remembers(u, sv.inbox[c][j]) EXCEPT !.up = @ \o answer]], P, n)
      BY <1>1, <3>1, <3>2, <3>3, ReadKeeps DEF P
    <3> QED BY <3>4 DEF j
  <2>6. Become(t, Told(answer))
    <3>1. [sv EXCEPT !.inbox[c] = SubSeq(@, i + 1, Len(@))] = t
      OBVIOUS
    <3> HIDE DEF Told, t, i, u, ms
    <3> QED BY <2>2, <2>4, <3>1
  <2>7. Present(t) = P
    BY <1>3
  <2> HIDE DEF Told, t
  <2> QED BY <2>5, <2>6, <2>7, StepIsBecome
<1> QED BY <1>4, <1>5

(* Every step.                                                             *)
LEMMA StepGoes ==
  ASSUME SoundSession(sv), InStep(sv, cl, Present(sv), 5), "LeaveUnseen" \notin Features,
         \A c \in Clients \ Present(sv) : cl[c] = NewClient, count \in Counts, SyncNext
  PROVE  Goes
<1> DEFINE five == 5
<1>1. InStep(sv, cl, Present(sv), five)
  OBVIOUS
<1> HIDE DEF five
<1>2. CASE TimerFires \/ DelayExpires
  BY <1>1, <1>2, TimerGoes
<1>3. ASSUME NEW c \in Clients, Join(c) \/ Leave(c) PROVE Goes
  BY <1>3, UsersGo
<1>4. ASSUME NEW c \in Clients, AllSent(c) PROVE Goes
  BY <1>1, <1>4, TimerGoes
<1>5. ASSUME NEW c \in Clients, Draw(c) \/ RequestReset(c) \/ SetOwners(c) \/ opWord(c) PROVE Goes
  BY <1>5, ActsGo
<1>6. ASSUME NEW c \in Clients, SendImage(c) PROVE Goes
  BY <1>1, <1>6, SendImageGoes
<1>7. ASSUME NEW c \in Clients, Read(c) PROVE Goes
  BY <1>1, <1>7, ReadGoes
<1>8. ASSUME NEW c \in Clients, HandleMessage(c) PROVE Goes
  BY <1>8, HandleGoes
<1> QED BY <1>2, <1>3, <1>4, <1>5, <1>6, <1>7, <1>8 DEF SyncNext

(* What users do is counted.                                               *)
LEMMA CountsOn ==
  ASSUME count \in Counts, [SyncNext]_vars
  PROVE  count' \in Counts
<1>1. ASSUME NEW what \in {"draws", "joins", "commands", "retries"},
             count' = [count EXCEPT ![what] = @ + 1]
      PROVE  count' \in Counts
  BY <1>1 DEF Counts
<1>2. \/ UNCHANGED count
      \/ \E what \in {"draws", "joins", "commands", "retries"} : count' = [count EXCEPT ![what] = @ + 1]
  <2>1. CASE UNCHANGED vars
    BY <2>1 DEF vars
  <2>2. CASE TimerFires \/ DelayExpires
    BY <2>2 DEF TimerFires, DelayExpires, Count
  <2>3. ASSUME NEW c \in Clients, Join(c) \/ Draw(c) \/ RequestReset(c) \/ SetOwners(c) \/ opWord(c)
        PROVE  \E what \in {"draws", "joins", "commands", "retries"} : count' = [count EXCEPT ![what] = @ + 1]
    BY <2>3 DEF Join, Draw, RequestReset, SetOwners, opWord, Count
  <2>4. ASSUME NEW c \in Clients, Leave(c) \/ AllSent(c) \/ SendImage(c) \/ Read(c)
        PROVE  UNCHANGED count
    BY <2>4, Zenon DEF Leave, AllSent, SendImage, Read
  <2>5. ASSUME NEW c \in Clients, HandleMessage(c) PROVE UNCHANGED count
    BY <2>5, Zenon DEF HandleMessage, HandleImage, HandleReady, HandleResetSession, HandleInitBegin,
       HandleInitComplete, HandleInitCancel, HandleStart, HandleStream, HandleAbort,
       HandleFinish, Command, Handle
  <2> QED BY <2>1, <2>2, <2>3, <2>4, <2>5 DEF SyncNext
<1> QED BY <1>1, <1>2

(* The server and its clients fit together: it is sound, and whatever is   *)
(* under way, everybody ends up with what the history holds.               *)
Together ==
  /\ SoundSession(sv) /\ InStep(sv, cl, Present(sv), 0)
  /\ \A c \in Clients \ Present(sv) : cl[c] = NewClient
  /\ count \in Counts

(* Room for what one step adds beyond the limit: a join with what comes    *)
(* with it.                                                                *)
EmergencyLeft == Room(sv, 5)

(* While there is room the session and its clients stay in step.           *)
LEMMA StepTogether ==
  ASSUME "ResetPending" \notin Features, "LeaveUnseen" \notin Features,
         Together, EmergencyLeft, [SyncNext]_vars
  PROVE  Together'
<1>1. SoundSession(sv') /\ count' \in Counts
  BY StepSound, CountsOn DEF Together
<1>2. InStep(sv', cl', Present(sv'), 0) /\ \A c \in Clients \ Present(sv') : cl'[c] = NewClient
  <2>1. CASE UNCHANGED vars
    <3>1. sv' = sv /\ cl' = cl
      BY <2>1 DEF vars
    <3> QED BY <3>1 DEF Together
  <2>2. CASE SyncNext
    <3>1. InStep(sv, cl, Present(sv), 5)
      BY DEF Together, InStep, EmergencyLeft
    <3>2. Goes
      BY <2>2, <3>1, StepGoes DEF Together
    <3>3. PICK t, k, n : Become(t, k) /\ InStep(t, k, Present(t), n)
      BY <3>2 DEF Goes
    <3>4. sv' = t /\ cl' = Kept(t, k)
      BY <3>3 DEF Become, Kept
    <3>5. InStep(t, Kept(t, k), Present(t), n)
      <4>1. SoundStream(t)
        BY <1>1, <3>4 DEF SoundSession
      <4> QED BY <3>3, <4>1, BecomeKeeps
    <3>6. InStep(t, Kept(t, k), Present(t), 0)
      <4>1. n \in Nat /\ 0 <= n
        BY <3>5 DEF InStep
      <4> QED BY <3>5, <4>1, LessRoom
    <3>7. \A c \in Clients \ Present(t) : Kept(t, k)[c] = NewClient
      BY DEF Kept
    <3> QED BY <3>4, <3>6, <3>7
  <2> QED BY <2>1, <2>2
<1> QED BY <1>1, <1>2 DEF Together

(* Three messages, the last after the others.                              *)
LEMMA TripleIs ==
  ASSUME NEW S, NEW a \in S, NEW b \in S, NEW c \in S
  PROVE  <<a, b>> \o <<c>> = <<a, b, c>>
<1> DEFINE x == <<a, b>>
           y == <<c>>
           z == <<a, b, c>>
<1>1. x \in Seq(S) /\ y \in Seq(S) /\ z \in Seq(S) /\ Len(x) = 2 /\ Len(y) = 1 /\ Len(z) = 3
  OBVIOUS
<1>2. x[1] = a /\ x[2] = b /\ y[1] = c /\ z[1] = a /\ z[2] = b /\ z[3] = c
  OBVIOUS
<1> HIDE DEF x, y, z
<1>3. /\ Len(x \o y) = 3 /\ (x \o y)[1] = a /\ (x \o y)[2] = b /\ (x \o y)[3] = c
      /\ x \o y \in Seq(S)
  <2>1. /\ x \o y \in Seq(S) /\ Len(x \o y) = Len(x) + Len(y)
        /\ \A i \in 1 .. Len(x) : (x \o y)[i] = x[i]
        /\ \A i \in 1 .. Len(y) : (x \o y)[i + Len(x)] = y[i]
    <3>1. x \in Seq(S) /\ y \in Seq(S)
      BY <1>1
    <3> QED BY <3>1, ConcatIs
  <2>2. 1 \in 1 .. Len(x) /\ 2 \in 1 .. Len(x) /\ 1 \in 1 .. Len(y) /\ 1 + Len(x) = 3
    BY <1>1
  <2> QED BY <1>1, <1>2, <2>1, <2>2
<1>4. x \o y = z
  BY <1>1, <1>2, <1>3, SeqEqual
<1> QED BY <1>4 DEF x, y, z

(* What the host has uploaded shows its canvas and the host.               *)
LEMMA UploadShows ==
  ASSUME NEW host \in Clients
  PROVE  LET ms == <<JoinMsg(host), OwnerMsg(0), ImageMsg(<<0>>)>>
         IN  /\ ms \in Seq(Recorded)
             /\ Reading(Blank, ms).canvas = <<0>> /\ Reading(Blank, ms).users = {host}
             /\ Reading(Blank, ms).starts = Blank.starts
<1> DEFINE a == JoinMsg(host)
           b == OwnerMsg(0)
           i == ImageMsg(<<0>>)
           q == <<a, b>>
           ms == <<a, b, i>>
<1>1. /\ a \in Messages /\ b \in Messages /\ i \in Messages
      /\ a \in Recorded /\ b \in Recorded /\ i \in Recorded
  <2>1. <<0>> \in Seq(Nat) /\ 0 \in Nat
    OBVIOUS
  <2>2. a \in Recorded
    BY DEF a, JoinMsg, Recorded
  <2>3. b \in Recorded
    BY DEF b, OwnerMsg, Recorded
  <2>4. i \in Recorded
    <3> DEFINE x == <<0>>
    <3>1. x \in Seq(Nat)
      BY <2>1
    <3> HIDE DEF x
    <3>2. ImageMsg(x) \in Recorded
      BY <3>1 DEF ImageMsg, Recorded
    <3> QED BY <3>2 DEF x
  <2> QED BY <2>2, <2>3, <2>4, MessageSets
<1>2. /\ a.type = "Join" /\ a.user = host /\ b.type = "SessionOwner"
      /\ i.type = "Image" /\ i.canvas = <<0>>
  BY DEF JoinMsg, OwnerMsg, ImageMsg
<1> HIDE DEF a, b, i
<1>3. q = <<a>> \o <<b>> /\ ms = q \o <<i>> /\ q \in Seq(Messages) /\ ms \in Seq(Recorded)
      /\ <<a>> \in Seq(Messages) /\ <<b>> \in Seq(Messages) /\ <<i>> \in Seq(Messages)
  <2>1. <<a>> \o <<b>> = q
    BY <1>1, PairIs
  <2>2. q \o <<i>> = ms
    BY <1>1, TripleIs
  <2>3. /\ q \in Seq(Messages) /\ <<a>> \in Seq(Messages) /\ <<b>> \in Seq(Messages)
        /\ <<i>> \in Seq(Messages)
    BY <1>1
  <2>4. ms \in Seq(Recorded)
    BY <1>1
  <2> QED BY <2>1, <2>2, <2>3, <2>4
<1>4. Blank \in Readers /\ Blank.canvas = << >> /\ Blank.users = {}
  BY NewClientView, ReaderIs DEF Blank
<1> HIDE DEF q, ms
<1>5. Reading(Blank, ms) = Sees(Sees(Sees(Blank, a), b), i)
  <2>1. Reading(Blank, <<a>>) = Sees(Blank, a) /\ Sees(Blank, a) \in Readers
    BY <1>1, <1>4, ReadingOne, SeesIs
  <2>2. Reading(Blank, q) = Sees(Sees(Blank, a), b) /\ Sees(Sees(Blank, a), b) \in Readers
    <3>1. Reading(Blank, <<a>> \o <<b>>) = Reading(Reading(Blank, <<a>>), <<b>>)
      <4> DEFINE x == <<a>>
                 y == <<b>>
      <4>1. x \in Seq(Messages) /\ y \in Seq(Messages)
        BY <1>3
      <4> HIDE DEF x, y
      <4>2. Reading(Blank, x \o y) = Reading(Reading(Blank, x), y)
        BY <1>4, <4>1, ReadingParts
      <4> QED BY <4>2 DEF x, y
    <3>2. Reading(Sees(Blank, a), <<b>>) = Sees(Sees(Blank, a), b) /\ Sees(Sees(Blank, a), b) \in Readers
      BY <1>1, <2>1, ReadingOne, SeesIs
    <3> QED BY <1>3, <2>1, <3>1, <3>2
  <2>3. Reading(Blank, q \o <<i>>) = Reading(Reading(Blank, q), <<i>>)
    BY <1>3, <1>4, ReadingParts, ZenonT(30)
  <2>4. Reading(Sees(Sees(Blank, a), b), <<i>>) = Sees(Sees(Sees(Blank, a), b), i)
    BY <1>1, <2>2, ReadingOne
  <2> QED BY <1>3, <2>2, <2>3, <2>4
<1> DEFINE r == Sees(Blank, a)
           u == Sees(r, b)
           v == Sees(u, i)
<1>6. r \in Readers /\ r.canvas = << >> /\ r.users = {host} /\ r.starts = Blank.starts
  <2>1. /\ r \in Readers /\ r.canvas = Blank.canvas /\ r.users = Blank.users \cup {a.user}
        /\ r.starts = Blank.starts
    BY <1>1, <1>2, <1>4, SeesIs
  <2> HIDE DEF r
  <2> QED BY <1>2, <1>4, <2>1
<1> HIDE DEF r
<1>7. u \in Readers /\ u.canvas = << >> /\ u.users = {host} /\ u.starts = Blank.starts
  <2>1. u = r
    BY <1>1, <1>2, <1>6, SeesIs DEF Quiet
  <2> QED BY <1>6, <2>1
<1> HIDE DEF u
<1>8. v.canvas = <<0>> /\ v.users = {host} /\ v.starts = Blank.starts
  <2>1. v.canvas = u.canvas \o i.canvas /\ v.users = u.users /\ v.starts = u.starts
    BY <1>1, <1>2, <1>7, SeesIs
  <2> HIDE DEF v
  <2>2. << >> \o <<0>> = <<0>>
    OBVIOUS
  <2> QED BY <1>2, <1>7, <2>1, <2>2
<1>9. Reading(Blank, ms) = v
  BY <1>5 DEF r, u
<1> HIDE DEF v
<1> QED BY <1>3, <1>8, <1>9 DEF ms, a, b, i

(* A session that has just been hosted, and its clients.                   *)
LEMMA InitTogether ==
  ASSUME SyncInit, EmergencyLeft
  PROVE  Together
<1> DEFINE ms == <<JoinMsg(Host), OwnerMsg(0), ImageMsg(<<0>>)>>
           h == NewHistory(ms)
           host == [NewClient EXCEPT !.users = {Host}, !.canvas = <<0>>]
           nobody == Host
<1>1. Host \in Clients /\ 0 \in Nat
  BY SessionSyncAssumption
<1>2. SoundSession(sv)
  BY <1>1, NewSessionSound DEF SyncInit
<1>3. cl = [c \in Clients |-> IF c = Host THEN host ELSE NewClient]
  BY DEF SyncInit
<1>4. /\ sv.hist = h /\ sv.clients = <<Host>> /\ sv.state = "Running" /\ sv.status = "NotSent"
      /\ sv.payload = 0 /\ sv.candidates = << >> /\ sv.resetstream = << >>
      /\ sv.flags = [c \in Clients |-> {}] /\ sv.inbox = [c \in Clients |-> << >>]
      /\ sv.position = [c \in Clients |-> IF c = Host THEN 2 ELSE -1]
  BY DEF SyncInit, NewSession
<1>5. /\ h.messages = ms /\ h.resetStream = << >> /\ h.resetStreamMessageCount = 0
      /\ h.resetStreamState = "None" /\ h.lastIndex = 2
  <2>1. h.lastIndex = Len(ms) - 1 /\ h.messages = ms /\ h.resetStream = << >>
        /\ h.resetStreamMessageCount = 0 /\ h.resetStreamState = "None"
    <3> HIDE DEF ms
    <3> QED BY DEF NewHistory
  <2>2. Len(ms) = 3
    BY Literals
  <2> HIDE DEF ms, h
  <2> QED BY <2>1, <2>2
<1>6. /\ ms \in Seq(Recorded) /\ Reading(Blank, ms).canvas = <<0>>
      /\ Reading(Blank, ms).users = {Host} /\ Reading(Blank, ms).starts = Blank.starts
  BY <1>1, UploadShows
<1> HIDE DEF ms, h
<1>7. Present(sv) = {Host}
  BY <1>4 DEF Present, ToSet
<1>8. /\ NewClient \in Views /\ NewClient.up = << >> /\ NewClient.correlator = 0
      /\ NewClient.imageFor = 0
  BY NewClientView
<1>9. /\ host \in Views /\ host.canvas = <<0>> /\ host.users = {Host} /\ host.up = << >>
      /\ host.correlator = 0 /\ host.imageFor = 0
  <2>1. <<0>> \in Seq(Nat) /\ {Host} \in SUBSET Clients
    BY <1>1
  <2> DEFINE x == <<0>>
             y == {Host}
             z == [NewClient EXCEPT !.users = y, !.canvas = x]
  <2>2. x \in Seq(Nat) /\ y \in SUBSET Clients
    BY <2>1
  <2> HIDE DEF x, y
  <2>3. z \in Views /\ z.canvas = x /\ z.users = y /\ z.up = NewClient.up
        /\ z.correlator = NewClient.correlator /\ z.imageFor = NewClient.imageFor
    BY <1>8, <2>2 DEF Views
  <2> HIDE DEF z
  <2>4. host = z
    BY DEF x, y, z
  <2> HIDE DEF host
  <2> QED BY <1>8, <2>3, <2>4 DEF x, y
<1> HIDE DEF host
<1>10. /\ cl \in [Clients -> Views] /\ cl[Host] = host
       /\ \A c \in Clients : cl[c].up = << >> /\ cl[c].correlator = 0
       /\ \A c \in Clients : sv.inbox[c] = << >> /\ sv.flags[c] = {}
  BY <1>1, <1>3, <1>4, <1>8, <1>9
<1>11. Sound(sv) /\ ~Streaming(sv) /\ ~Asked(sv) /\ \A c \in Clients : ~Armed(sv, c)
  BY <1>2, <1>4, <1>5, <1>10 DEF SoundSession, Streaming, Asked, Armed
<1>12. Fits(sv)
  <2>1. << >> \in Seq(Snapshots) /\ << >> \in Seq(Pictures) /\ << >> \in Seq(Messages)
        /\ << >> \in Seq(Int)
    OBVIOUS
  <2>2. \A c \in Clients \ Present(sv) : sv.inbox[c] = << >> /\ sv.position[c] = -1
    BY <1>4, <1>7, <1>10
  <2> QED BY <1>4, <1>5, <1>6, <2>1, <2>2 DEF Fits
<1>13. Late(sv) = Reading(Blank, ms)
  BY <1>4, <1>5 DEF Late
<1>14. End(sv, cl, Host) = Reader(host)
  <2>1. getBatch(sv.hist, sv.position[Host]) = << >>
    BY <1>1, <1>4, <1>5 DEF getBatch
  <2>2. Flow(sv, Host) = << >>
    BY <1>1, <1>10, <2>1 DEF Flow
  <2> QED BY <1>9, <1>10, <2>2, ReaderIs, ReadingOne DEF End
<1>15. Agreed(sv, cl, Present(sv))
  <2>1. Late(sv).canvas = <<0>> /\ Late(sv).users = {Host}
    BY <1>6, <1>13
  <2>2. End(sv, cl, Host).canvas = <<0>> /\ End(sv, cl, Host).users = {Host}
    BY <1>9, <1>14, ReaderIs
  <2>3. \A c \in Present(sv) : Alike(End(sv, cl, c), Late(sv))
    BY <1>7, <2>1, <2>2 DEF Alike
  <2> QED BY <1>4, <1>7, <2>1, <2>3 DEF Agreed
<1>16. Forked(sv) /\ Marked(sv, cl) /\ Armings(sv) /\ Streamer(sv, cl)
  BY <1>4, <1>5, <1>11 DEF Forked, Marked, Armings, Streamer
<1>17. Dated(sv, cl)
  <2>1. Blank.starts = {<<NewClient.imageFor, NewClient.image>>}
    BY <1>8, ReaderIs DEF Blank
  <2>2. Reader(host).starts = {<<host.imageFor, host.image>>}
    BY <1>9, ReaderIs
  <2>3. Below(1, Late(sv).starts)
    BY <1>6, <1>8, <1>13, <2>1 DEF Below
  <2>4. \A c \in Present(sv) : Below(1, End(sv, cl, c).starts)
    BY <1>7, <1>9, <1>14, <2>2 DEF Below
  <2>5. ~Unstarted(sv) /\ sv.payload + 1 = 1
    BY <1>4, <1>11 DEF Unstarted
  <2> QED BY <2>3, <2>4, <2>5 DEF Dated, StartsBelow
<1>18. Asking(sv, cl)
  <2>1. Len(<< >>) = 0
    BY Literals
  <2>2. ASSUME NEW c \in Clients PROVE AskingOne(sv, cl[c], c)
    <3>1. sv.inbox[c] = << >> /\ cl[c].up = << >> /\ cl[c].correlator = 0 /\ sv.payload = 0
      BY <1>4, <1>10
    <3> QED BY <1>11, <2>1, <3>1 DEF AskingOne, AskedBelow, AskedLast, Answered
  <2> QED BY <2>2 DEF Asking
<1>19. Room(sv, 0)
  BY <1>2, SessionHistoryAssumption, SMTT(30) DEF EmergencyLeft, Room, SoundSession, Sound, SoundHist
<1>20. InStep(sv, cl, Present(sv), 0)
  BY <1>1, <1>7, <1>10, <1>11, <1>12, <1>15, <1>16, <1>17, <1>18, <1>19 DEF InStep
<1>21. \A c \in Clients \ Present(sv) : cl[c] = NewClient
  BY <1>3, <1>7
<1>22. count \in Counts
  BY DEF SyncInit, Counts
<1> QED BY <1>2, <1>20, <1>21, <1>22 DEF Together

(* What is shown when all has arrived is what has been read.               *)
LEMMA TogetherAgree ==
  ASSUME Together
  PROVE  UsersAgree /\ CanvasesAgree
<1>1. /\ Sound(sv) /\ Fits(sv) /\ cl \in [Clients -> Views] /\ Agreed(sv, cl, Present(sv))
      /\ Present(sv) \subseteq Clients
  BY DEF Together, InStep
<1>2. Newcomer.canvas = Late(sv).canvas /\ Newcomer.users = Late(sv).users
  <2> DEFINE ms == sv.hist.messages
  <2>1. ms \in Seq(Recorded)
    BY <1>1 DEF Fits
  <2> HIDE DEF ms
  <2>2. ms \in Seq(Messages)
    BY <2>1, SeqOfMore, MessageSets
  <2>3. /\ ShowsAll(NewClient, ms).canvas = Reading(Reader(NewClient), ms).canvas
        /\ ShowsAll(NewClient, ms).users = Reading(Reader(NewClient), ms).users
    BY <2>2, NewClientView, ShowsReads
  <2> QED BY <2>3 DEF Newcomer, Late, Blank, ms
<1>3. ASSUME NEW c \in Present(sv)
      PROVE  CaughtUp(c).canvas = End(sv, cl, c).canvas /\ CaughtUp(c).users = End(sv, cl, c).users
  <2> DEFINE v == cl[c]
             ms == Flow(sv, c)
  <2>1. v \in Views /\ ms \in Seq(Messages)
    BY <1>1, Reached
  <2> HIDE DEF v, ms
  <2>2. /\ ShowsAll(v, ms).canvas = Reading(Reader(v), ms).canvas
        /\ ShowsAll(v, ms).users = Reading(Reader(v), ms).users
    BY <2>1, ShowsReads
  <2> QED BY <2>2 DEF CaughtUp, End, Flow, v, ms
<1>4. /\ Late(sv).users = Present(sv)
      /\ \A c \in Present(sv) : End(sv, cl, c).canvas = Late(sv).canvas
                                /\ End(sv, cl, c).users = Late(sv).users
  BY <1>1 DEF Agreed, Alike
<1>5. UsersAgree
  BY <1>2, <1>3, <1>4 DEF UsersAgree
<1>6. CanvasesAgree
  BY <1>2, <1>3, <1>4 DEF CanvasesAgree
<1> QED BY <1>5, <1>6

(* As long as there is room for what a step adds beyond the limit, the     *)
(* session and its clients stay in step.                                   *)
THEOREM SessionTogether ==
  ASSUME "ResetPending" \notin Features, "LeaveUnseen" \notin Features
  PROVE  SyncSpec /\ []EmergencyLeft => []Together
<1>1. SyncInit /\ EmergencyLeft => Together
  BY InitTogether
<1>2. Together /\ EmergencyLeft /\ [SyncNext]_vars => Together'
  BY StepTogether
<1> QED BY <1>1, <1>2, PTL DEF SyncSpec

(* Through joins and leaves, resets of both kinds and messages under way,  *)
(* all end up with the list of who is in the session, newcomers too.       *)
THEOREM SessionUsersAgree ==
  ASSUME "ResetPending" \notin Features, "LeaveUnseen" \notin Features
  PROVE  SyncSpec /\ []EmergencyLeft => []UsersAgree
<1>1. Together => UsersAgree
  BY TogetherAgree
<1> QED BY <1>1, SessionTogether, PTL

(* However clients have come by their canvas, they end up with the one     *)
(* that a newcomer gets from the history.                                  *)
THEOREM SessionCanvasesAgree ==
  ASSUME "ResetPending" \notin Features, "LeaveUnseen" \notin Features
  PROVE  SyncSpec /\ []EmergencyLeft => []CanvasesAgree
<1>1. Together => CanvasesAgree
  BY TogetherAgree
<1> QED BY <1>1, SessionTogether, PTL
=============================================================================
