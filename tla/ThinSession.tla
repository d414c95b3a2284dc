------------------------------ MODULE ThinSession ------------------------------
(***************************************************************************)
(* A running session of the server (session.cpp, thinsession.cpp): who is  *)
(* in it, how far each client has been sent the history, full resets that  *)
(* stop the session and streamed resets that do not, and the dialogue in   *)
(* which the server finds an operator to reset a session that has grown    *)
(* too large.                                                              *)
(*                                                                         *)
(* A session is a record; each method that changes it is an operator from  *)
(* session to session with the method's name.  Qt calls the slots of a     *)
(* signal at once, so what newMessagesAvailable causes is part of the      *)
(* method that adds the message.                                           *)
(***************************************************************************)
EXTENDS SessionHistory, SequencesExt

CONSTANTS
  CanStream,  \* clients that offer the gzip1 capability
  Quality,    \* what a client says of its system and network, as one number
  Invited,    \* users who join by an invite that makes them operators
  HasOpword   \* whether users can become operators by a password

ASSUME ThinSessionAssumption ==
  /\ {CanStream, Invited} \subseteq SUBSET Clients
  /\ Quality \in [Clients -> Nat]
  /\ HasOpword \in BOOLEAN

(* Messages sent past the history.                                         *)
QueryMsg(payload)      == [type |-> "Query", payload |-> payload]
RequestMsg(co, stream) == [type |-> "Request", correlator |-> co, stream |-> stream]
ProgressMsg(cancel)    == [type |-> "Progress", cancel |-> cancel]
ResetMsg               == [type |-> "Reset"]
InitMsg                == [type |-> "Init"]

(* A session whose host has just uploaded the canvas.                    *)
NewSession(host) ==
  [hist |-> NewHistory(<<JoinMsg(host), OwnerMsg(0), ImageMsg(<<0>>)>>),
   state |-> "Running", initUser |-> NoUser, resetstream |-> << >>,
   status |-> "NotSent", timer |-> FALSE, delayed |-> FALSE,
   payload |-> 0, candidates |-> << >>,
   clients |-> <<host>>, ops |-> {host},
   flags |-> [c \in Clients |-> {}],
   position |-> [c \in Clients |-> IF c = host THEN 2 ELSE -1],
   uploading |-> [c \in Clients |-> c = host],
   inbox |-> [c \in Clients |-> << >>]]

Present(s) == ToSet(s.clients)

----------------------------------------------------------------------------
(* Sending.                                                                *)

isAwaitingReset(s, c) == "Awaiting" \in s.flags[c] /\ "Streaming" \notin s.flags[c]

isControl(m) == m.type \notin {"Join", "Leave", "SessionOwner"}

Send(s, c, ms) ==
  [s EXCEPT !.inbox[c] = @ \o ms, !.uploading[c] = @ \/ ms # << >>]

(* Client::sendDirectMessage for each of the clients cs.                   *)
sendDirectMessages(s, cs, m) ==
  LET Gets(c) == c \in cs /\ (isControl(m) \/ ~isAwaitingReset(s, c))
  IN [s EXCEPT !.inbox = [c \in Clients |-> IF Gets(c) THEN Append(@[c], m) ELSE @[c]],
               !.uploading = [c \in Clients |-> Gets(c) \/ @[c]]]

sendDirectMessage(s, c, m) == sendDirectMessages(s, {c}, m)

directToAll(s, m) == sendDirectMessages(s, Present(s), m)

(* Alerts and status updates: they keep the connection busy for a while.   *)
notifyAll(s) == [s EXCEPT !.uploading = [c \in Clients |-> c \in Present(s) \/ @[c]]]

----------------------------------------------------------------------------
(* Streamed resets take effect when nobody is behind their start.          *)

clearAutoReset(s, retry) ==
  [s EXCEPT !.timer = FALSE, !.status = "NotSent",
            !.flags = [c \in Clients |-> {}],
            !.hist = abortStreamedReset(@, -1),
            !.delayed = retry]

checkStreamedResetStart(s) ==
  /\ isResetStreamPending(s.hist)
  /\ \A c \in Present(s) : s.position[c] >= s.hist.resetStreamStartIndex

addToHistoryPosition(s, offset) ==
  [s EXCEPT !.position =
     [c \in Clients |-> IF c \in Present(s) THEN @[c] + offset ELSE @[c]]]

resolvePendingStreamedReset(s) ==
  LET resolved == [s EXCEPT !.hist = resolveStreamedReset(@)]
  IN IF ~checkStreamedResetStart(s) THEN s
     ELSE IF ~resolveOk(s.hist) THEN clearAutoReset(resolved, TRUE)
     ELSE notifyAll(clearAutoReset(
            addToHistoryPosition(resolved, Size(ResolvedMessages(s.hist))), FALSE))

sendNextHistoryBatch(s, c) ==
  LET r == resolvePendingStreamedReset(s)
  IN IF s.uploading[c] \/ s.state # "Running" THEN s
     ELSE Send([r EXCEPT !.position[c] = r.hist.lastIndex], c,
               getBatch(r.hist, r.position[c]))

(* One client after the other; sent[i] is when the i-th has had its turn.  *)
newMessagesAvailable(s) ==
  LET sent[i \in 0..Len(s.clients)] ==
        IF i = 0 THEN s ELSE sendNextHistoryBatch(sent[i - 1], s.clients[i])
  IN sent[Len(s.clients)]

----------------------------------------------------------------------------
(* Adding to the history.                                                  *)

(* Mutant: nobody is told that there is a message.                         *)
addMessage_untold(s, m) ==
  IF ~hasRegularSpaceFor(s.hist, 1) THEN s
  ELSE [s EXCEPT !.hist = addMessageInternal(@, <<m>>)]

addMessage(s, m) ==
  IF ~hasRegularSpaceFor(s.hist, 1) THEN s
  ELSE newMessagesAvailable([s EXCEPT !.hist = addMessageInternal(@, <<m>>)])

addEmergencyMessage(s, m) ==
  newMessagesAvailable([s EXCEPT !.hist = addMessageInternal(@, <<m>>)])

(* Mutant: the timer is not started.                                       *)
checkAutoResetQuery_untimed(s) ==
  IF \/ s.state # "Running" \/ s.status # "NotSent" \/ s.delayed
     \/ s.hist.sizeInBytes <= effectiveAutoResetThreshold(s.hist)
  THEN s
  ELSE LET q == [s EXCEPT !.payload = @ + 1, !.candidates = << >>, !.status = "Queried",
                          !.flags = [c \in Clients |->
                             IF c \in Present(s) \cap s.ops THEN {"Queried"} ELSE {}]]
       IN sendDirectMessages(notifyAll(q), Present(q) \cap q.ops, QueryMsg(q.payload))

checkAutoResetQuery(s) ==
  IF \/ s.state # "Running" \/ s.status # "NotSent" \/ s.delayed
     \/ s.hist.sizeInBytes <= effectiveAutoResetThreshold(s.hist)
  THEN s
  ELSE LET q == [s EXCEPT !.payload = @ + 1, !.candidates = << >>,
                          !.status = "Queried", !.timer = TRUE,
                          !.flags = [c \in Clients |->
                             IF c \in Present(s) \cap s.ops THEN {"Queried"} ELSE {}]]
       IN sendDirectMessages(notifyAll(q), Present(q) \cap q.ops, QueryMsg(q.payload))

IsEmergency(m) == m.type \in {"Join", "Leave", "SessionOwner"}

(* Out of space, drawing is lost, only the most important gets through and *)
(* everybody is warned (for a drawing not more often than every 10 s: the  *)
(* model may as well go on when the warning has been sent).                *)
addToHistory(s, m) ==
  IF hasRegularSpaceFor(s.hist, 1) THEN checkAutoResetQuery(addMessage(s, m))
  ELSE notifyAll(IF ~IsEmergency(m) THEN s
                 ELSE IF hasEmergencySpaceFor(s.hist, 1) THEN addEmergencyMessage(s, m)
                 ELSE directToAll(s, m))

(* Mutant: the users of the session are left out.                          *)
serverSideStateMessages_no_users(s) == <<OwnerMsg(0)>>

serverSideStateMessages(s) ==
  [i \in DOMAIN s.clients |-> JoinMsg(s.clients[i])] \o <<OwnerMsg(0)>>

----------------------------------------------------------------------------
(* Full resets.  The session stops until the operator has sent the image.  *)

switchToReset(s) ==
  clearAutoReset([s EXCEPT !.state = "Reset", !.resetstream = << >>], FALSE)

onSessionReset(s) == addMessage(notifyAll(clearAutoReset(s, FALSE)), CaughtUpMsg)

(* Mutant: nobody is told to blank the canvas.                             *)
performReset_unannounced(s) ==
  LET resetImage == serverSideStateMessages(s) \o s.resetstream
  IN IF s.resetstream = << >> THEN s
     ELSE IF ~resetOk(resetImage) THEN notifyAll(s)
     ELSE onSessionReset([s EXCEPT !.hist = reset(@, resetImage)])

performReset(s) ==
  LET resetImage == serverSideStateMessages(s) \o s.resetstream
  IN IF s.resetstream = << >> THEN s
     ELSE IF ~resetOk(resetImage) THEN notifyAll(s)
     ELSE onSessionReset(directToAll([s EXCEPT !.hist = reset(@, resetImage)], ResetMsg))

switchToRunning(s) ==
  clearAutoReset([performReset([s EXCEPT !.initUser = NoUser])
                    EXCEPT !.resetstream = << >>, !.state = "Running"], FALSE)

abortReset(s) == notifyAll(switchToRunning([s EXCEPT !.resetstream = << >>]))

resetSession(s, c) ==
  IF s.state # "Running" THEN s
  ELSE sendDirectMessage(notifyAll(switchToReset([s EXCEPT !.initUser = c])), c, InitMsg)

handleInitBegin(s, c) == IF c # s.initUser THEN s ELSE [s EXCEPT !.resetstream = << >>]

handleInitComplete(s, c) == IF c # s.initUser THEN s ELSE switchToRunning(s)

handleInitCancel(s, c) == IF c # s.initUser THEN s ELSE abortReset(s)

----------------------------------------------------------------------------
(* Joining, leaving and operators.                                         *)

ensureOperatorExists(s) ==
  IF HasOpword \/ s.clients = << >> \/ Present(s) \cap s.ops # {} THEN s
  ELSE addToHistory(notifyAll([s EXCEPT !.ops = {Head(s.clients)}]), OwnerMsg(0))

onClientJoin(s, c) == addMessage(s, CaughtUpMsg)

invalidateAutoResetCandidates(s, cs) ==
  [s EXCEPT !.candidates = [i \in DOMAIN @ |-> IF @[i] \in cs THEN NoUser ELSE @[i]]]

(* Mutants: a reset goes on without who does it.                           *)
onClientLeave_stream_goes_on(s, c) ==
  LET cancelled == IF c = s.initUser /\ s.state = "Reset" THEN abortReset(s) ELSE s
  IN resolvePendingStreamedReset(invalidateAutoResetCandidates(cancelled, {c}))

onClientLeave_reset_goes_on(s, c) ==
  LET t == invalidateAutoResetCandidates(s, {c})
  IN IF StreamedResetBy(t.hist, c)
     THEN clearAutoReset([t EXCEPT !.hist = abortStreamedReset(@, c)], TRUE)
     ELSE resolvePendingStreamedReset(t)

onClientLeave(s, c) ==
  LET cancelled == IF c = s.initUser /\ s.state = "Reset" THEN abortReset(s) ELSE s
      t == invalidateAutoResetCandidates(cancelled, {c})
  IN IF StreamedResetBy(t.hist, c)
     THEN clearAutoReset([t EXCEPT !.hist = abortStreamedReset(@, c)], TRUE)
     ELSE resolvePendingStreamedReset(t)

(* Mutant: nobody is told of the leave.                                    *)
removeUser_unannounced(s, c) ==
  LET out == [s EXCEPT !.clients = RemoveFirst(@, c), !.ops = @ \ {c},
                       !.flags[c] = {}, !.position[c] = -1,
                       !.uploading[c] = FALSE, !.inbox[c] = << >>]
  IN ensureOperatorExists(onClientLeave(out, c))

(* Mutant: who leaves stays an operator.                                   *)
removeUser_still_operator(s, c) ==
  LET out == [s EXCEPT !.clients = RemoveFirst(@, c),
                       !.flags[c] = {}, !.position[c] = -1,
                       !.uploading[c] = FALSE, !.inbox[c] = << >>]
  IN ensureOperatorExists(addToHistory(onClientLeave(out, c), LeaveMsg(c)))

removeUser(s, c) ==
  LET out == [s EXCEPT !.clients = RemoveFirst(@, c), !.ops = @ \ {c},
                       !.flags[c] = {}, !.position[c] = -1,
                       !.uploading[c] = FALSE, !.inbox[c] = << >>]
  IN ensureOperatorExists(addToHistory(onClientLeave(out, c), LeaveMsg(c)))

(* ThinSession::onClientDeop for each of the clients cs, of whom one at    *)
(* most is the streamer.                                                   *)
onClientsDeop(s, cs) ==
  LET t == invalidateAutoResetCandidates(s, cs)
      c == s.hist.ctxId
  IN IF ~(s.hist.resetStreamState = "Streaming" /\ c \in cs) THEN t
     ELSE clearAutoReset(
            sendDirectMessage([t EXCEPT !.hist = abortStreamedReset(@, c)], c, ProgressMsg(TRUE)),
            TRUE)

(* Who loses the operator status in the middle of a reset is kicked.       *)
updateOwnership(s, ids) ==
  LET lost == (Present(s) \cap s.ops) \ ids
      t == [onClientsDeop(s, lost) EXCEPT !.ops = ids \cap Present(s)]
      u == IF t.ops # s.ops THEN notifyAll(t) ELSE t
  IN IF s.state = "Reset" /\ s.initUser \in lost THEN removeUser(u, s.initUser) ELSE u

changeOpStatus(s, c) == addToHistory(updateOwnership(s, s.ops \cup {c}), OwnerMsg(0))

(* The reply to the login is on its way already.                           *)
joinUser(s, c) ==
  LET in == [s EXCEPT !.clients = Append(@, c), !.uploading[c] = TRUE]
      joined == addToHistory(onClientJoin(in, c), JoinMsg(c))
  IN ensureOperatorExists(IF c \in Invited THEN changeOpStatus(joined, c) ELSE joined)

addToInitStream(s, c, m) ==
  LET t == [s EXCEPT !.resetstream = Append(@, m)]
  IN IF SizeLimit > 0 /\ Size(t.resetstream) > SizeLimit THEN removeUser(t, c) ELSE t

addClientMessage(s, c, m) ==
  IF s.initUser = c THEN addToInitStream(s, c, m) ELSE addToHistory(s, m)

changeOwners(s, by, ids) ==
  addClientMessage(updateOwnership(s, ids \cup {by}), by, OwnerMsg(by))

----------------------------------------------------------------------------
(* Finding somebody to reset the session.                                  *)

CandidateValid(s, i) == s.candidates[i] \in Present(s) \cap s.ops

(* A streaming client is better, then a better system, then who answered   *)
(* first.                                                                  *)
Better(s, i, j) ==
  LET c == s.candidates[i]
      d == s.candidates[j]
  IN \/ c \in CanStream /\ d \notin CanStream
     \/ /\ c \in CanStream <=> d \in CanStream
        /\ Quality[c] > Quality[d] \/ (Quality[c] = Quality[d] /\ i < j)

triggerAutoReset(s) ==
  LET t == [s EXCEPT !.timer = FALSE]
      valid == {i \in DOMAIN t.candidates : CandidateValid(t, i)}
      best == t.candidates[CHOOSE i \in valid : \A j \in valid \ {i} : Better(t, i, j)]
      stream == best \in CanStream
      asked == [t EXCEPT !.status = "Requested", !.candidates = << >>,
                         !.flags[best] = IF stream THEN {"Awaiting", "Streaming"} ELSE {"Awaiting"}]
  IN CASE t.status = "Queried" -> clearAutoReset(t, TRUE)
       [] t.status \in {"NotSent", "Requested"} -> t
       [] t.status = "QueriedWaiting" /\ valid = {} -> clearAutoReset(t, TRUE)
       [] OTHER -> sendDirectMessage(asked, best, RequestMsg(t.payload, stream))

readyToAutoReset(s, c, payload) ==
  LET others == \E d \in Present(s) \ {c} : "Queried" \in s.flags[d]
      t == [s EXCEPT !.candidates = Append(@, c), !.flags[c] = {"Responded"},
                     !.status = "QueriedWaiting", !.timer = TRUE]
  IN IF "Queried" \notin s.flags[c] THEN s
     ELSE IF s.status \notin {"Queried", "QueriedWaiting"} THEN [s EXCEPT !.flags[c] = {}]
     ELSE IF payload # s.payload THEN s
     ELSE IF others THEN t ELSE triggerAutoReset(t)

handleStreamResetStart(s, c, correlator) ==
  LET h == startStreamedReset(s.hist, c, correlator, serverSideStateMessages(s))
  IN IF s.status # "Requested" THEN s
     ELSE IF ~({"Awaiting", "Streaming"} \subseteq s.flags[c]) THEN s
     ELSE IF correlator # s.payload THEN clearAutoReset(s, TRUE)
     ELSE IF StartResult(s.hist) # "Ok" THEN s
     ELSE [newMessagesAvailable([s EXCEPT !.hist = h]) EXCEPT !.flags[c] = {"Streaming"}]

onResetStream(s, c, m) ==
  LET result == AddResult(s.hist, c)
      t == [s EXCEPT !.hist = addStreamResetMessage(@, c, m)]
  IN IF result = "Ok" THEN sendDirectMessage(t, c, ProgressMsg(FALSE))
     ELSE IF result = "OutOfSpace"
          THEN clearAutoReset(sendDirectMessage(t, c, ProgressMsg(TRUE)), TRUE)
          ELSE sendDirectMessage(t, c, ProgressMsg(TRUE))

handleStreamResetAbort(s, c) ==
  IF ~StreamedResetBy(s.hist, c) THEN s
  ELSE clearAutoReset([s EXCEPT !.hist = abortStreamedReset(@, c)], TRUE)

handleStreamResetFinish(s, c, expected) ==
  LET result == PrepareResult(s.hist, c, expected)
      t == [s EXCEPT !.hist = prepareStreamedReset(@, c, expected)]
  IN CASE result = "Ok" -> resolvePendingStreamedReset([t EXCEPT !.flags[c] = {}])
       [] result = "InvalidMessageCount" -> clearAutoReset(t, TRUE)
       [] OTHER -> t
=============================================================================
