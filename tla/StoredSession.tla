----------------------------- MODULE StoredSession -----------------------------
(***************************************************************************)
(* A session that survives the server (session.cpp, loginhandler.cpp and   *)
(* filedhistory.cpp): users come by name and get ids, draw, leave, come    *)
(* back, reset the session in both ways; the server stops in good order or *)
(* not at all, and loads the session again from its files.                 *)
(***************************************************************************)
EXTENDS FiledHistory, IdQueue

CONSTANTS
  MaxUsers,    \* how many may be in the session
  Drawings,    \* the numbers of what is drawn
  Features,    \* what a run adds, from {"ResetPending"}
  MaxJoins, MaxResets, MaxStreams, MaxFetches, MaxStops   \* bound what happens

ASSUME StoredSessionAssumption ==
  /\ Clients = 1..MaxId
  /\ MaxUsers \in 1..MaxId
  /\ Features \subseteq {"ResetPending"}
  /\ {MaxJoins, MaxResets, MaxStreams, MaxFetches, MaxStops} \subseteq Nat
  /\ Drawings \subseteq Nat

VARIABLES
  clients,       \* m_clients: who is in the session, by id and name
  userEntries,   \* the USER entries of the journal, oldest first
  idQueue,       \* m_idqueue
  joining,       \* who has joined and is still to be entered in the journal
  given,         \* the ids that have been given out, for LateReuse
  count          \* how often has happened what is bounded

filed == <<files, journal, fh, call, server>>
vars  == <<files, journal, fh, call, server, clients, userEntries, idQueue, joining, given, count>>

StoredInit ==
  /\ FiledInit
  /\ clients = << >> /\ userEntries = << >> /\ idQueue = NewIdQueue
  /\ joining = << >> /\ given = {}
  /\ count = [drawn |-> 0, joins |-> 0, resets |-> 0,
               streams |-> 0, fetches |-> 0, stops |-> 0]

Counted(what, max) == count[what] < max /\ count' = [count EXCEPT ![what] = @ + 1]

Drawn(n) == n = count.drawn + 1 /\ n \in Drawings /\ count' = [count EXCEPT !.drawn = n]

Present == {clients[i].id : i \in DOMAIN clients}

----------------------------------------------------------------------------
(* Users.  Nobody is made operator by another: it is who came first.       *)

Others(i) == RemoveAt(clients, i)

(* SessionHistory::joinUser: the id is the name's from now on.             *)
joinUser(q, id, name) ==
  /\ idQueue' = setIdForName(q, id, name)
  /\ userEntries' = Append(userEntries, [id |-> id, name |-> name])

(* What joinUser and removeUser of the session add to the history.         *)
WithJoin(h, id) == addToHistory(addMessage(h, CaughtUpMsg), JoinMsg(id))

WithLeave(h, id, isOperator, others) ==
  LET left == addToHistory(AbortedBy(h, id), LeaveMsg(id))
  IN IF isOperator /\ others # << >> THEN addToHistory(left, OwnerMsg(0)) ELSE left

(* The first part of joinUser of the session: c gets its id and everybody  *)
(* is told.                                                                *)
Welcome(c) == joining' = <<c>> /\ given' = given \cup {c.id}

Join(name, id) ==
  LET a == assignId(idQueue, name, Present)
      h == WithJoin(fh, id)
  IN /\ Ready /\ Counted("joins", MaxJoins)
     /\ \A i \in DOMAIN clients : clients[i].name # name
     /\ Len(clients) < MaxUsers
     /\ id = a.id
     /\ clients' = Append(clients, [id |-> id, name |-> name])
     /\ fh' = IF clients = << >> THEN addToHistory(h, OwnerMsg(0)) ELSE h
     /\ idQueue' = a.queue
     /\ Welcome([id |-> id, name |-> name])
     /\ UNCHANGED <<files, journal, call, server, userEntries>>

(* Mutant: the old connection leaves only afterwards.                      *)
Rejoin_late(i) ==
  LET c        == clients[i]
      rejoined == Append(Others(i), c)
  IN /\ Ready /\ Counted("joins", MaxJoins)
     /\ files' = filesAfterAbort(files, fh, c.id)
     /\ fh' = WithLeave(WithJoin(fh, c.id), c.id, i = 1, rejoined)
     /\ clients' = rejoined
     /\ idQueue' = reserveId(idQueue, c.id)
     /\ Welcome(c)
     /\ UNCHANGED <<journal, call, server, userEntries>>

(* The same user by a new connection: the old one leaves first.            *)
Rejoin(i) ==
  LET c        == clients[i]
      rejoined == Append(Others(i), c)
  IN /\ Ready /\ Counted("joins", MaxJoins)
     /\ files' = filesAfterAbort(files, fh, c.id)
     /\ fh' = WithJoin(WithLeave(fh, c.id, i = 1, rejoined), c.id)
     /\ clients' = rejoined
     /\ idQueue' = reserveId(idQueue, c.id)
     /\ Welcome(c)
     /\ UNCHANGED <<journal, call, server, userEntries>>

(* The second part: the history's joinUser, which writes to the journal.   *)
Enter ==
  /\ Ready /\ joining # << >>
  /\ joinUser(idQueue, joining[1].id, joining[1].name)
  /\ joining' = << >>
  /\ UNCHANGED <<files, journal, fh, call, server, clients, given, count>>

removeUser(i) ==
  LET id == clients[i].id
  IN /\ Ready
     /\ files' = filesAfterAbort(files, fh, id)
     /\ fh' = WithLeave(fh, id, i = 1, Others(i))
     /\ clients' = Others(i)
     /\ idQueue' = reserveId(idQueue, id)
     /\ UNCHANGED <<journal, call, server, userEntries, joining, given, count>>

Draw(id) ==
  /\ Ready
  /\ \E n \in Drawings : Drawn(n) /\ fh' = addToHistory(fh, DrawMsg(id, n))
  /\ UNCHANGED <<files, journal, call, server, clients, userEntries, idQueue, joining, given>>

----------------------------------------------------------------------------
(* Resets.                                                                 *)

serverSideStateMessages ==
  [i \in DOMAIN clients |-> JoinMsg(clients[i].id)] \o <<OwnerMsg(0)>>

(* The image has been uploaded.                                            *)
FullReset ==
  /\ Ready /\ Counted("resets", MaxResets)
  /\ "ResetPending" \in Features \/ ~isResetStreamPending(fh)
  /\ clients # << >>
  /\ reset_start(serverSideStateMessages \o <<ImageMsg(0)>>)
  /\ UNCHANGED <<clients, userEntries, idQueue, joining, given>>

StreamStart(id) ==
  /\ Ready /\ Counted("streams", MaxStreams)
  /\ openResetStream(id, serverSideStateMessages)
  /\ UNCHANGED <<clients, userEntries, idQueue, joining, given>>

StreamData(id) ==
  /\ Ready
  /\ fh.resetStreamMessageCount < 1
  /\ addResetStreamMessage(id, ImageMsg(0))
  /\ UNCHANGED <<clients, userEntries, idQueue, joining, given, count>>

StreamAbort(id) ==
  /\ Ready /\ StreamedResetBy(fh, id)
  /\ files' = filesAfterAbort(files, fh, id)
  /\ fh' = AbortedBy(fh, id)
  /\ UNCHANGED <<journal, call, server, clients, userEntries, idQueue, joining, given, count>>

StreamFinish(id) ==
  /\ Ready
  /\ prepareResetStream(id, 1)
  /\ UNCHANGED <<clients, userEntries, idQueue, joining, given, count>>

(* Once every client has been sent what came before the stream.            *)
StreamResolve ==
  /\ Ready /\ resolveStreamedReset_start
  /\ UNCHANGED <<clients, userEntries, idQueue, joining, given, count>>

Proceed ==
  /\ \/ resolveStreamedReset_journal \/ resolveStreamedReset_finish
     \/ reset_journal \/ reset_finish(CaughtUpMsg)
  /\ UNCHANGED <<clients, userEntries, idQueue, joining, given, count>>

----------------------------------------------------------------------------
(* The server.                                                             *)

Flush == Ready /\ flushRecording /\ UNCHANGED <<clients, userEntries, idQueue, joining, given, count>>

Fetch ==
  /\ Ready /\ Counted("fetches", MaxFetches)
  /\ \E after \in (fh.firstIndex - 1)..(fh.lastIndex - 1) : getBatch_load(after)
  /\ UNCHANGED <<clients, userEntries, idQueue, joining, given>>

CleanUp ==
  /\ Ready
  /\ \E before \in fh.firstIndex..fh.lastIndex :
       cleanup(fh.blocks, before) # fh.blocks /\ cleanupBatches(before)
  /\ UNCHANGED <<clients, userEntries, idQueue, joining, given, count>>

NoOneLeft ==
  clients' = << >> /\ idQueue' = NewIdQueue /\ joining' = << >> /\ given' = given

Fail ==
  /\ Counted("stops", MaxStops)
  /\ \E k \in 0..Len(fh.recording.unsaved), torn \in BOOLEAN : Crash(k, torn)
  /\ NoOneLeft /\ UNCHANGED userEntries

(* When the server shuts down it first makes everybody leave.              *)
Stop ==
  /\ Ready /\ clients = << >> /\ Counted("stops", MaxStops)
  /\ Shutdown
  /\ NoOneLeft /\ UNCHANGED userEntries

End ==
  /\ Ready
  /\ terminate
  /\ NoOneLeft /\ userEntries' = << >> /\ UNCHANGED count

(* The queue as load() and scanBlocks() leave it.                          *)
Entered(q, e) == setIdForName(q, e.id, e.name)

Freed(q, m) == IF m.type = "Leave" THEN reserveId(q, m.user) ELSE q

loadedIdQueue(ms) == FoldLeft(Freed, FoldLeft(Entered, NewIdQueue, userEntries), ms)

Farewells(S) ==
  {f \in [1..Cardinality(S) -> {LeaveMsg(c) : c \in S}] :
     \A c \in S : \E i \in DOMAIN f : f[i] = LeaveMsg(c)}

Restart ==
  /\ server = "down"
  /\ \/ /\ Last(journal) \in DOMAIN files
        /\ LET ms == ScannedMessages(files[Last(journal)])
           IN \E bye \in Farewells(UsersLeftIn(ms)) : load(bye) /\ idQueue' = loadedIdQueue(ms \o bye)
     \/ loadFails /\ UNCHANGED idQueue
  /\ UNCHANGED <<clients, userEntries, joining, given, count>>

----------------------------------------------------------------------------
SessionNext ==
  \/ \E name \in Names, id \in Clients : Join(name, id)
  \/ \E i \in DOMAIN clients : Rejoin(i) \/ removeUser(i)
  \/ \E id \in Present :
       \/ Draw(id)
       \/ StreamStart(id) \/ StreamData(id) \/ StreamAbort(id) \/ StreamFinish(id)
  \/ FullReset \/ StreamResolve

(* The server does nothing else until the user has been entered.           *)
Next ==
  \/ joining = << >> /\ (SessionNext \/ Flush \/ Fetch \/ CleanUp \/ Stop \/ End)
  \/ Enter \/ Proceed \/ Fail \/ Restart

StoredSpec == StoredInit /\ [][Next]_vars

(* The server goes on with what it has begun, and a timer flushes the      *)
(* recording.                                                              *)
StoredFairSpec == StoredSpec /\ WF_vars(Proceed) /\ WF_vars(Enter) /\ WF_vars(Flush)

----------------------------------------------------------------------------
(* What the files hold, as DurableHistory has it.                          *)

Recovered ==
  IF journal = << >> \/ Last(journal) \notin DOMAIN files THEN << >>
  ELSE ScannedMessages(files[Last(journal)])

InReset == call.at \in {"opened", "named"}

(* The history once what has been decided is done.                         *)
Settled == IF call.at = "journalled" THEN Resolved(fh) ELSE fh

SettledMessages ==
  CASE server # "up" -> << >>
    [] InReset       -> call.messages
    [] OTHER         -> Recorded(files, Settled.recording)

StreamMessages ==
  SubSeq(Recorded(files, fh.streamRecording), 1, totalMessageCount(fh.streamBlocks))

Streamed(h) ==
  IF h.resetStreamState = "None"
  THEN [messages |-> << >>, index |-> -1, size |-> 0, start |-> 0, count |-> 0]
  ELSE [messages |-> StreamMessages, index |-> h.forkPos - 1, size |-> h.resetStreamSize,
        start |-> h.resetStreamStartIndex, count |-> h.resetStreamMessageCount]

InMemory(h, stream) ==
  [messages |-> SettledMessages, firstIndex |-> h.firstIndex, lastIndex |-> h.lastIndex,
   sizeInBytes |-> h.sizeInBytes, autoResetBaseSize |-> h.autoResetBaseSize,
   resetStreamState |-> h.resetStreamState, ctxId |-> h.ctxId,
   resetStream |-> stream.messages, resetStreamIndex |-> stream.index,
   resetStreamSize |-> stream.size, resetStreamStartIndex |-> stream.start,
   resetStreamMessageCount |-> stream.count]

Messages ==
  {DrawMsg(c, n) : c \in Clients, n \in Drawings} \cup
  {JoinMsg(c) : c \in Clients} \cup {LeaveMsg(c) : c \in Clients} \cup
  {StreamStartMsg(c, 0) : c \in Clients} \cup
  {ImageMsg(0), OwnerMsg(0), SoftResetMsg, CaughtUpMsg}

Durable == INSTANCE DurableHistory WITH
  hist     <- InMemory(Settled, Streamed(Settled)),
  saved    <- Recovered,
  stale    <- call.at = "opened"

----------------------------------------------------------------------------
(* Properties.                                                             *)

StoredTypeOK ==
  /\ server \in {"up", "down", "gone"}
  /\ call.at \in {"none", "copied", "journalled", "opened", "named"}
  /\ fh.resetStreamState \in {"None", "Streaming", "Prepared"}
  /\ Present \subseteq Clients
  /\ ToSet(idQueue.ids) = Clients /\ Len(idQueue.ids) = MaxId

(* Wherever the server is stopped, in the middle of a reset too, it comes  *)
(* back with the history it had, less some last messages or a whole full   *)
(* reset (filedhistory.cpp is an implementation of DurableHistory).        *)
ImplementsDurable == Durable!Spec

(* The journal never names a recording that is not there or has no header, *)
(* at no point of a reset at which the server may stop.                    *)
Recoverable ==
  server # "gone" =>
    /\ journal # << >>
    /\ Last(journal) \in DOMAIN files
    /\ files[Last(journal)] # << >> /\ Head(files[Last(journal)]) = HeaderCell

(* From every place in the history the blocks give what follows it, once   *)
(* and in order, and it does not matter which of them have been read.      *)
BatchesExact ==
  LET ms == SettledMessages
  IN Ready =>
       \A after \in (fh.firstIndex - 1)..fh.lastIndex :
         LET batch == Batch(after)
             from  == after - fh.firstIndex + 1
         IN /\ batch.messages = SubSeq(ms, from + 1, from + Len(batch.messages))
            /\ batch.last = after + Len(batch.messages)
            /\ after < fh.lastIndex => batch.messages # << >>

(* Who has joined in the history and not left is in the session, and       *)
(* nobody joins twice without leaving, also after a restart.               *)
PresentAgree ==
  LET ms == SettledMessages
  IN Ready =>
       /\ UsersLeftIn(ms) = Present
       /\ \A i, j \in DOMAIN ms :
            i < j /\ ms[i].type = "Join" /\ ms[j] = ms[i] =>
              \E k \in i..j : ms[k] = LeaveMsg(ms[i].user)

IdsHad == {getIdForName(idQueue, name) : name \in Names}

(* A newcomer does not get an id that some name has had while there is one *)
(* that nobody has ever been given, also after a restart.                  *)
LateReuse ==
  [][\A name \in Names, id \in IdsHad :
       Join(name, id) /\ getIdForName(idQueue, name) = NoId =>
         Clients \subseteq given]_vars

(* What has been drawn does not stay in memory only: it gets to the file,  *)
(* or out of the history.                                                  *)
Kept(n) == \E c \in Clients : DrawMsg(c, n) \in ToSet(SettledMessages)

Saved(n) == \E c \in Clients : DrawMsg(c, n) \in ToSet(Recovered)

SavedEventually == \A n \in Drawings : Kept(n) ~> (Saved(n) \/ ~Kept(n))
=============================================================================
