------------------------------ MODULE SessionSync ------------------------------
(***************************************************************************)
(* A session of the server with its clients.  Each client has a connection *)
(* to the server, a queue each way: what the server sends is the session's *)
(* inbox of the client, what the client sends is its own up.  A client     *)
(* shows a canvas and a list of users, which are what it has read so far.  *)
(***************************************************************************)
EXTENDS ThinSession

CONSTANTS
  Host,        \* the user who has started the session
  Features,    \* the kinds of traffic a run has, from AllFeatures
  MaxDraws, MaxJoins, MaxCommands,  \* bound what the users do
  MaxRetries   \* bounds how often the server asks again after a delay

AllFeatures == {"ResetPending", "LeaveUnseen"}

ASSUME SessionSyncAssumption ==
  /\ Host \in Clients
  /\ Features \subseteq AllFeatures
  /\ {MaxDraws, MaxJoins, MaxCommands, MaxRetries} \subseteq Nat

VARIABLES
  sv,     \* the session
  cl,     \* the clients
  count   \* how often the users have done what is bounded

vars == <<sv, cl, count>>

NoCorrelator == 0

NewClient ==
  [canvas |-> << >>, users |-> {}, up |-> << >>, correlator |-> NoCorrelator,
   stream |-> "None", image |-> << >>, imageFor |-> NoCorrelator]

SyncInit ==
  /\ sv = NewSession(Host)
  /\ cl = [c \in Clients |-> IF c = Host THEN [NewClient EXCEPT !.users = {Host}, !.canvas = <<0>>]
                             ELSE NewClient]
  /\ count = [draws |-> 0, joins |-> 0, commands |-> 0, retries |-> 0]

(* The session becomes t; a client that is not in it has no state.         *)
Become(t, k) ==
  /\ sv' = t
  /\ cl' = [c \in Clients |-> IF c \in Present(t) THEN k[c] ELSE NewClient]

Count(what, max) == count[what] < max /\ count' = [count EXCEPT ![what] = @ + 1]

----------------------------------------------------------------------------
(* What a client shows.                                                    *)

Shows(v, m) ==
  CASE m.type = "Draw"  -> [v EXCEPT !.canvas = Append(@, m.n)]
    [] m.type = "Image" -> [v EXCEPT !.canvas = @ \o m.canvas]
    [] m.type = "Reset" -> [v EXCEPT !.canvas = << >>]
    [] m.type = "Join"  -> [v EXCEPT !.users = @ \cup {m.user}]
    [] m.type = "Leave" -> [v EXCEPT !.users = @ \ {m.user}]
    [] OTHER -> v

ShowsAll(v, ms) == FoldLeft(Shows, v, ms)

(* What somebody sees who joins and gets the whole history.                *)
Newcomer == ShowsAll(NewClient, sv.hist.messages)

(* What c sees when it has got what is there for it now.                   *)
CaughtUp(c) ==
  ShowsAll(cl[c], sv.inbox[c] \o getBatch(sv.hist, sv.position[c]))

----------------------------------------------------------------------------
(* Users and connections.                                                  *)

Join(c) ==
  /\ c \notin Present(sv) /\ Count("joins", MaxJoins)
  /\ Become(joinUser(sv, c), cl)

(* The session goes on while somebody is in it.                            *)
Leave(c) ==
  /\ c \in Present(sv) /\ Len(sv.clients) > 1
  /\ "LeaveUnseen" \in Features \/ sv.state = "Running" \/ c = sv.initUser
  /\ Become(removeUser(sv, c), cl)
  /\ UNCHANGED count

AllSent(c) ==
  /\ c \in Present(sv) /\ sv.uploading[c]
  /\ Become(sendNextHistoryBatch([sv EXCEPT !.uploading[c] = FALSE], c), cl)
  /\ UNCHANGED count

TimerFires ==
  /\ sv.timer
  /\ Become(triggerAutoReset(sv), cl)
  /\ UNCHANGED count

DelayExpires ==
  /\ sv.delayed /\ Count("retries", MaxRetries)
  /\ Become([sv EXCEPT !.delayed = FALSE], cl)

----------------------------------------------------------------------------
(* What users and clients send.                                            *)

Up(k, c, ms) == [k EXCEPT ![c].up = @ \o ms]

(* The image is built on another thread while the client goes on.          *)
SendImage(c) ==
  /\ cl[c].stream = "Generating" /\ cl[c].imageFor = cl[c].correlator
  /\ \/ Become(sv, [Up(cl, c, <<[type |-> "Stream", image |-> ImageMsg(cl[c].image)]>>)
                      EXCEPT ![c].stream = "Streaming"])
     \/ Become(sv, [Up(cl, c, <<[type |-> "Abort"]>>) EXCEPT ![c].stream = "None"])
  /\ UNCHANGED count

----------------------------------------------------------------------------
(* What a client does with a message.                                      *)

Snapshot(k) == <<[type |-> "InitBegin"], ImageMsg(k.canvas), [type |-> "InitComplete"]>>

(* Clients may not answer: they are not caught up, or there is no image.   *)
Answers(k, m) ==
  CASE m.type = "Query" ->
         {<< >>, <<[type |-> "Ready", payload |-> m.payload]>>}
    [] m.type = "Request" /\ m.stream ->
         {<< >>, <<[type |-> "Start", correlator |-> m.correlator]>>}
    [] m.type = "Request" /\ ~m.stream -> {<< >>, <<[type |-> "ResetSession"]>>}
    [] m.type = "Init" -> {Snapshot(k), <<[type |-> "InitCancel"]>>}
    [] m.type = "Progress" /\ ~m.cancel /\ k.stream = "Streaming" ->
         {<<[type |-> "Finish", messageCount |-> 1]>>}
    [] OTHER -> {<< >>}

Remembers(k, m) ==
  CASE m.type = "Query"    -> [k EXCEPT !.correlator = NoCorrelator]
    [] m.type = "Request"  -> [k EXCEPT !.correlator = m.correlator]
    [] m.type = "Progress" -> IF ~m.cancel /\ k.stream = "Generating" THEN k
                              ELSE [k EXCEPT !.stream = "None"]
    [] m.type = "StreamStart" /\ m.correlator = k.correlator ->
         [k EXCEPT !.stream = "Generating", !.image = k.canvas, !.imageFor = m.correlator]
    [] OTHER -> Shows(k, m)

(* Messages a client does more with than show them.                        *)
Noticed(m) == m.type \in {"Query", "Request", "Init", "Progress", "StreamStart"}

(* What has arrived is read together, up to a message of this kind: no     *)
(* other order of the reads could be told from this one.                   *)
Read(c) ==
  /\ c \in Present(sv) /\ sv.inbox[c] # << >>
  /\ LET ms == sv.inbox[c]
         n == SelectInSeq(ms, Noticed)
         k == [cl EXCEPT ![c] = ShowsAll(@, IF n = 0 THEN ms ELSE SubSeq(ms, 1, n - 1))]
     IN IF n = 0 THEN Become([sv EXCEPT !.inbox[c] = << >>], k)
        ELSE \E answer \in Answers(k[c], ms[n]) :
          Become([sv EXCEPT !.inbox[c] = SubSeq(@, n + 1, Len(@))],
                 Up([k EXCEPT ![c] = Remembers(@, ms[n])], c, answer))
  /\ UNCHANGED count

----------------------------------------------------------------------------
(* What the server does with a message.                                    *)

Handle(c, type, t) ==
  /\ c \in Present(sv) /\ cl[c].up # << >> /\ Head(cl[c].up).type = type
  /\ Become(t, [cl EXCEPT ![c].up = Tail(@)])
  /\ UNCHANGED count

(* Commands for operators; who is none gets an error.                      *)
Command(c, type, t) ==
  Handle(c, type, IF c \in sv.ops THEN t ELSE [sv EXCEPT !.uploading[c] = TRUE])

HandleImage(c) == Handle(c, "Image", addClientMessage(sv, c, Head(cl[c].up)))

HandleReady(c) == Command(c, "Ready", readyToAutoReset(sv, c, Head(cl[c].up).payload))

NoLeaveUnseen ==
  \A c \in Present(sv) : \A m \in ToSet(getBatch(sv.hist, sv.position[c])) :
    m.type # "Leave"

ResetAllowed ==
  /\ "ResetPending" \in Features \/ ~isResetStreamPending(sv.hist)
  /\ "LeaveUnseen" \in Features \/ NoLeaveUnseen

HandleResetSession(c) ==
  ResetAllowed /\ Command(c, "ResetSession", resetSession(sv, c))

HandleInitBegin(c)    == Command(c, "InitBegin", handleInitBegin(sv, c))
HandleInitComplete(c) == Command(c, "InitComplete", handleInitComplete(sv, c))
HandleInitCancel(c)   == Command(c, "InitCancel", handleInitCancel(sv, c))

HandleStart(c)  == Command(c, "Start", handleStreamResetStart(sv, c, Head(cl[c].up).correlator))
HandleStream(c) == Handle(c, "Stream", onResetStream(sv, c, Head(cl[c].up).image))
HandleAbort(c)  == Command(c, "Abort", handleStreamResetAbort(sv, c))
HandleFinish(c) == Command(c, "Finish", handleStreamResetFinish(sv, c, Head(cl[c].up).messageCount))

HandleMessage(c) ==
  \/ HandleImage(c) \/ HandleReady(c) \/ HandleResetSession(c)
  \/ HandleInitBegin(c) \/ HandleInitComplete(c) \/ HandleInitCancel(c)
  \/ HandleStart(c) \/ HandleStream(c) \/ HandleAbort(c) \/ HandleFinish(c)

----------------------------------------------------------------------------
(* What users do.  It does not depend on what their client has read, so    *)
(* while it is under way it is as if it was not sent yet: the step is what *)
(* the server does with it, after all that the client has sent before.     *)

Acts(c) == c \in Present(sv) /\ cl[c].up = << >>

Draw(c) ==
  /\ Acts(c) /\ Count("draws", MaxDraws)
  /\ Become(addClientMessage(sv, c, DrawMsg(c, count.draws + 1)), cl)

RequestReset(c) ==
  /\ Acts(c) /\ c \in sv.ops /\ ResetAllowed /\ Count("commands", MaxCommands)
  /\ Become(resetSession(sv, c), cl)

SetOwners(c) ==
  /\ Acts(c) /\ c \in sv.ops /\ Count("commands", MaxCommands)
  /\ \E ids \in SUBSET (Present(sv) \ {c}) : Become(changeOwners(sv, c, ids), cl)

(* The user gives the password for operators.                              *)
opWord(c) ==
  /\ Acts(c) /\ HasOpword /\ Count("commands", MaxCommands)
  /\ Become(changeOpStatus(sv, c), cl)

SyncNext ==
  \/ TimerFires \/ DelayExpires
  \/ \E c \in Clients :
       \/ Join(c) \/ Leave(c) \/ AllSent(c)
       \/ Draw(c) \/ RequestReset(c) \/ SetOwners(c) \/ opWord(c) \/ SendImage(c)
       \/ Read(c) \/ HandleMessage(c)

SyncSpec == SyncInit /\ [][SyncNext]_vars

(* What the system does by itself: timers fire, connections deliver.       *)
SystemNext ==
  \/ TimerFires
  \/ \E c \in Clients : AllSent(c) \/ Read(c) \/ HandleMessage(c)

Handled(c) ==
  cl[c].up = << >> \/ (Head(cl[c].up).type = "ResetSession" /\ ~ResetAllowed)

Idle ==
  /\ ~sv.timer
  /\ \A c \in Present(sv) : ~sv.uploading[c] /\ sv.inbox[c] = << >> /\ Handled(c)

(* Weak fairness of SystemNext, which is enabled unless the system is idle: *)
(* the event loops of the server and the clients do not stop.              *)
Fairness == []<>Idle \/ []<><<SystemNext>>_vars

FairSpec == SyncSpec /\ Fairness

----------------------------------------------------------------------------
(* Properties.                                                             *)

TypeOK ==
  /\ sv.state \in {"Running", "Reset"}
  /\ sv.status \in {"NotSent", "Queried", "QueriedWaiting", "Requested"}
  /\ sv.hist.resetStreamState \in {"None", "Streaming", "Prepared"}
  /\ Present(sv) \subseteq Clients /\ sv.ops \subseteq Present(sv)

(* However a client has come by it, through resets that were streamed past *)
(* it and resets that blanked its canvas, it ends up with what a newcomer  *)
(* gets from the history.                                                  *)
CanvasesAgree == \A c \in Present(sv) : CaughtUp(c).canvas = Newcomer.canvas

(* Clients and newcomers end up with the list of the users in the session. *)
UsersAgree ==
  /\ Newcomer.users = Present(sv)
  /\ \A c \in Present(sv) : CaughtUp(c).users = Present(sv)

(* The indices count the messages, no client is ahead of them, and the     *)
(* fork of a streamed reset is where its start index says.                 *)
IndicesExact ==
  /\ sv.hist.lastIndex - sv.hist.firstIndex + 1 = Len(sv.hist.messages)
  /\ sv.hist.sizeInBytes = Size(sv.hist.messages)
  /\ \A c \in Present(sv) : sv.position[c] <= sv.hist.lastIndex
  /\ sv.hist.resetStreamState # "None" =>
       sv.hist.resetStreamStartIndex - sv.hist.firstIndex = sv.hist.resetStreamIndex

(* A streamed reset is always in the hands of an operator who is in the    *)
(* session and was asked to do it.                                         *)
StreamerAsked ==
  sv.hist.resetStreamState = "Streaming" =>
    /\ sv.hist.ctxId \in Present(sv) \cap sv.ops
    /\ sv.status = "Requested" /\ sv.flags[sv.hist.ctxId] = {"Streaming"}

(* A session that has stopped for a reset waits for an operator who is in  *)
(* the session, and only such a session has somebody to wait for.          *)
ResetterPresent ==
  IF sv.state = "Reset" THEN sv.initUser \in Present(sv) \cap sv.ops
  ELSE sv.initUser = NoUser /\ sv.resetstream = << >>

(* The server does not wait for operators to answer its query forever.     *)
QueryEnds ==
  sv.status \in {"Queried", "QueriedWaiting"} ~> sv.status \in {"NotSent", "Requested"}

(* Every client gets what is in the history, also after a reset.           *)
Behind(c) == c \in Present(sv) /\ sv.position[c] < sv.hist.lastIndex

Delivered == \A c \in Clients : Behind(c) ~> ~Behind(c)
=============================================================================
