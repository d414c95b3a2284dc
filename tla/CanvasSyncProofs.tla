-------------------------- MODULE CanvasSyncProofs ---------------------------
(***************************************************************************)
(* A client in a session runs its canvas history as CanvasHistory says, so *)
(* that what is proved of the history alone holds in the session; and its  *)
(* fork holds nothing but commands that are still under way. From this     *)
(* follows that save points and canvases are those that the log of the     *)
(* session draws, and that clients converge.                               *)
(***************************************************************************)
EXTENDS CanvasSync, CanvasHistoryProofs

----------------------------------------------------------------------------
(* The commands of a session are messages.                                 *)

(* Drawing commands are messages.                                          *)
LEMMA DrawByType ==
  ASSUME NEW user \in Users \cup {Nobody}, NEW n \in Nat, NEW area \in Area
  PROVE  DrawBy(user, n, area) \in Message /\ IsDraw(DrawBy(user, n, area))
BY DEF DrawBy, Message, IsDraw

(* Undos and redos are messages, those of user 0 included.                 *)
LEMMA UndoByType ==
  ASSUME NEW type \in {"Undo", "Redo"}, NEW user \in Users \cup {Nobody},
         NEW override \in Users \cup {Nobody}
  PROVE  UndoBy(type, user, override) \in Message
<1>1. UserAttrs(AnyId) \in Area
  BY HistoryAssumption DEF HistoryAssumption, UserAttrs, Area, Domains
<1> QED BY <1>1 DEF UndoBy, Message

(* Undos of a user are commands of that user, for somebody in the session. *)
LEMMA UndosType ==
  ASSUME NEW user \in Users, NEW m \in UndosBy(user)
  PROVE  m \in Message /\ m.user = user /\ IsUndo(m) /\ get_undo_context_id(m) # Nobody
<1>1. PICK type \in {"Undo", "Redo"}, override \in Users \cup {Nobody} :
        m = UndoBy(type, user, override)
  BY DEF UndosBy, Overrides
<1>2. m \in Message
  BY <1>1, UndoByType
<1> QED BY <1>1, <1>2, NobodyAssumption
        DEF NobodyAssumption, UndoBy, IsUndo, get_undo_context_id

(* What the client adds to its commands when it disconnects is a drawing   *)
(* command of nobody.                                                      *)
LEMMA PenUpType == PenUpByNobody \in Message /\ IsDraw(PenUpByNobody)
<1>1. Everything(AnyId) \in Area
  BY HistoryAssumption DEF HistoryAssumption, Everything, Area, Domains
<1> QED BY <1>1, DrawByType DEF PenUpByNobody

(* Two elements make a sequence.                                           *)
LEMMA PairType ==
  ASSUME NEW S, NEW x \in S, NEW y \in S
  PROVE  <<x, y>> \in Seq(S) /\ <<x, y>> # << >> /\ Len(<<x, y>>) = 2
OBVIOUS

----------------------------------------------------------------------------
(* What a session adds to a canvas history has its type.                   *)

(* The state that the session adds to a sound history.                     *)
SyncInv ==
  /\ SoundInv
  /\ uplink \in Seq(Message)
  /\ issued \in Nat /\ foreign \in Nat

HistoryStep == SyncInv' /\ [Next]_vars

(* Issuing commands keeps the commands under way and the counters in type. *)
LEMMA IssueType ==
  ASSUME SyncInv, NEW ms \in Seq(Message), Issue(ms)
  PROVE  uplink' \in Seq(Message) /\ issued' \in Nat /\ foreign' \in Nat
<1>1. Len(ms) \in Nat
  BY LenProperties
<1>2. uplink \o ms \in Seq(Message)
  BY ConcatProperties DEF SyncInv
<1> QED BY <1>1, <1>2 DEF Issue, SyncInv

(* A local command.                                                        *)
LEMMA LocalStep ==
  ASSUME SyncInv, NEW m \in Message, m.user = LocalUser, HandleLocal(m), Issue(<<m>>)
  PROVE  HistoryStep
<1>1. Next
  BY DEF Next
<1>2. SoundInv'
  BY <1>1, NextSound DEF SyncInv
<1>3. <<m>> \in Seq(Message)
  OBVIOUS
<1> QED BY <1>1, <1>2, <1>3, IssueType DEF HistoryStep, SyncInv

(* Two local dabs.                                                         *)
LEMMA LocalDabsStep == ASSUME SyncInv, LocalDabs PROVE HistoryStep
<1>1. PICK a1 \in LocalAreas, a2 \in LocalAreas :
        LET ms == <<DrawBy(LocalUser, issued + 1, a1), DrawBy(LocalUser, issued + 2, a2)>>
        IN HandleLocalMultidab(ms) /\ Issue(ms)
  BY DEF LocalDabs
<1> DEFINE x == DrawBy(LocalUser, issued + 1, a1)
           y == DrawBy(LocalUser, issued + 2, a2)
<1>2. {x, y} \subseteq OwnDabMessages /\ OwnDabMessages \subseteq Message
  <2>1. a1 \in Area /\ a2 \in Area /\ issued + 1 \in Nat /\ issued + 2 \in Nat
    BY SyncAssumption DEF SyncAssumption, SyncInv
  <2>2. x \in Message /\ IsDraw(x) /\ y \in Message /\ IsDraw(y)
    BY <2>1, DrawByType, HistoryAssumption DEF HistoryAssumption
  <2>3. x.user = LocalUser /\ y.user = LocalUser
    BY DEF DrawBy
  <2> QED BY <2>2, <2>3 DEF OwnDabMessages, DabMessages
<1> HIDE DEF x, y
<1>3. /\ <<x, y>> \in Seq(OwnDabMessages) /\ <<x, y>> # << >>
      /\ <<x, y>> \in Seq(Message)
  BY <1>2, PairType
<1>4. HandleLocalMultidab(<<x, y>>) /\ Issue(<<x, y>>)
  BY <1>1 DEF x, y
<1>5. Next
  BY <1>3, <1>4 DEF Next
<1>6. SoundInv'
  BY <1>5, NextSound DEF SyncInv
<1> QED BY <1>3, <1>4, <1>5, <1>6, IssueType DEF HistoryStep, SyncInv

(* A message handled is a step of the history.                             *)
LEMMA HandleStep == ASSUME SyncInv, NEW m \in Message, Handle(m) PROVE Next /\ SoundInv'
<1>1. Next
  BY DEF Next
<1> QED BY <1>1, NextSound DEF SyncInv

(* A message of another user or of the server.                             *)
LEMMA ForeignStep ==
  ASSUME SyncInv, NEW m \in Message, Foreign(m) PROVE HistoryStep
<1>1. Handle(m)
  BY DEF Foreign, Deliver
<1>2. Next /\ SoundInv'
  BY <1>1, HandleStep
<1>3. uplink' = uplink /\ issued' = issued /\ foreign' = foreign + 1
  BY DEF Foreign, Deliver, Send
<1> QED BY <1>2, <1>3 DEF HistoryStep, SyncInv

(* An own command that comes back.                                         *)
LEMMA EchoStep == ASSUME SyncInv, Echo PROVE HistoryStep
<1>1. uplink # << >> /\ uplink \in Seq(Message)
  BY DEF Echo, SyncInv
<1>2. Head(uplink) \in Message /\ Tail(uplink) \in Seq(Message)
  BY <1>1, HeadTailProperties
<1>3. Handle(Head(uplink))
  BY DEF Echo, Deliver
<1>4. Next /\ SoundInv'
  BY <1>2, <1>3, HandleStep
<1>5. uplink' = Tail(uplink) /\ issued' = issued /\ foreign' = foreign
  BY DEF Echo, Deliver
<1> QED BY <1>2, <1>4, <1>5 DEF HistoryStep, SyncInv

(* The two dabs of a batch, the first perhaps the client's own.            *)
DabPair(ms, own) ==
  \E user \in Others, area \in RemoteAreas :
    LET m == DrawBy(user, foreign + 1, area)
    IN ms = IF own THEN <<Head(uplink), m>> ELSE <<m, DrawBy(user, foreign + 2, area)>>

(* They are dabs, one of them perhaps the oldest command under way.        *)
LEMMA DabPairType ==
  ASSUME SyncInv, NEW ms, NEW own \in BOOLEAN, DabPair(ms, own),
         own => uplink # << >> /\ IsDraw(Head(uplink))
  PROVE  \E x \in DabMessages, y \in DabMessages :
           /\ ms = <<x, y>>
           /\ own => x = Head(uplink)
           /\ ~own => x.user \in Others /\ x.area \in RemoteAreas
           /\ y.user \in Others /\ y.area \in RemoteAreas
<1>1. PICK user \in Others, area \in RemoteAreas :
        ms = IF own THEN <<Head(uplink), DrawBy(user, foreign + 1, area)>>
             ELSE <<DrawBy(user, foreign + 1, area), DrawBy(user, foreign + 2, area)>>
  BY DEF DabPair
<1>2. user \in Users /\ area \in Area /\ foreign + 1 \in Nat /\ foreign + 2 \in Nat
  BY SyncAssumption DEF SyncAssumption, SyncInv, Others
<1>3. \A n \in Nat : /\ DrawBy(user, n, area) \in DabMessages
                     /\ DrawBy(user, n, area).user = user /\ DrawBy(user, n, area).area = area
  BY <1>2, DrawByType DEF DabMessages, DrawBy
<1>4. own => Head(uplink) \in DabMessages
  BY HeadTailProperties DEF SyncInv, DabMessages
<1> QED BY <1>1, <1>2, <1>3, <1>4

(* What a batch of dabs does.                                              *)
LEMMA DabsTaken ==
  ASSUME Dabs
  PROVE  \E ms : \E own \in BOOLEAN :
           /\ DabPair(ms, own)
           /\ own => uplink # << >> /\ IsDraw(Head(uplink))
           /\ connected /\ connected' = connected
           /\ HandleMultidab(ms) /\ Watch(ms) /\ Archive
           /\ uplink' = IF own THEN Tail(uplink) ELSE uplink
           /\ foreign' = foreign + (IF own THEN 1 ELSE 2)
           /\ issued' = issued
<1>1. PICK user \in Others, area \in RemoteAreas, own \in BOOLEAN :
        LET m  == DrawBy(user, foreign + 1, area)
            ms == IF own THEN <<Head(uplink), m>>
                         ELSE <<m, DrawBy(user, foreign + 2, area)>>
        IN /\ connected
           /\ own => uplink # << >> /\ IsDraw(Head(uplink))
           /\ Send(IF own THEN 1 ELSE 2)
           /\ HandleMultidab(ms) /\ Watch(ms) /\ Archive
           /\ uplink' = IF own THEN Tail(uplink) ELSE uplink
           /\ UNCHANGED <<connected, issued>>
  BY Zenon DEF Dabs
<1> DEFINE m  == DrawBy(user, foreign + 1, area)
           ms == IF own THEN <<Head(uplink), m>> ELSE <<m, DrawBy(user, foreign + 2, area)>>
<1>2. DabPair(ms, own)
  BY DEF DabPair
<1>3. /\ connected /\ connected' = connected /\ issued' = issued
      /\ own => uplink # << >> /\ IsDraw(Head(uplink))
      /\ HandleMultidab(ms) /\ Watch(ms) /\ Archive
      /\ uplink' = IF own THEN Tail(uplink) ELSE uplink
      /\ foreign' = foreign + (IF own THEN 1 ELSE 2)
  BY <1>1 DEF Send
<1> HIDE DEF ms
<1> QED BY <1>2, <1>3

(* A batch of dabs.                                                        *)
LEMMA DabsStep == ASSUME SyncInv, Dabs PROVE HistoryStep
<1>1. PICK ms :
      \E own \in BOOLEAN :
        /\ DabPair(ms, own)
        /\ own => uplink # << >> /\ IsDraw(Head(uplink))
        /\ HandleMultidab(ms)
        /\ uplink' = IF own THEN Tail(uplink) ELSE uplink
        /\ foreign' = foreign + (IF own THEN 1 ELSE 2)
        /\ issued' = issued
  BY DabsTaken
<1>2. ms \in Seq(DabMessages)
  <2>1. PICK x \in DabMessages, y \in DabMessages : ms = <<x, y>>
    BY <1>1, DabPairType
  <2> QED BY <2>1, PairType
<1>3. Next
  BY <1>1, <1>2 DEF Next
<1>4. SoundInv'
  BY <1>3, NextSound DEF SyncInv
<1>5. uplink' \in Seq(Message)
  BY <1>1, HeadTailProperties DEF SyncInv
<1> QED BY <1>1, <1>3, <1>4, <1>5 DEF HistoryStep, SyncInv

(* A disconnect.                                                           *)
LEMMA DisconnectStep == ASSUME SyncInv, Disconnect PROVE HistoryStep
<1>1. Next
  BY DEF Disconnect, Next
<1>2. SoundInv'
  BY <1>1, NextSound DEF SyncInv
<1>3. Append(ch.fork, PenUpByNobody) \in Seq(Message)
  BY PenUpType, AppendProperties DEF SyncInv, SoundInv, Sound, SoundHistory
<1> QED BY <1>1, <1>2, <1>3 DEF HistoryStep, SyncInv, Disconnect

(* The other messages of the server, and what does not concern it.         *)
LEMMA OtherStep ==
  ASSUME SyncInv,
         \/ EchoFiltered \/ ServerSoftReset \/ ServerUndoDepth \/ ServerReset
         \/ Snapshot \/ DrawingInProgress
  PROVE  HistoryStep
<1>1. NewLimit \in Nat
  BY SyncAssumption DEF SyncAssumption
<1>2. Next
  BY <1>1 DEF EchoFiltered, ServerSoftReset, ServerUndoDepth, ServerReset, Snapshot,
              DrawingInProgress, Next
<1>3. SoundInv'
  BY <1>2, NextSound DEF SyncInv
<1>4. uplink' \in Seq(Message)
  BY HeadTailProperties
  DEF SyncInv, EchoFiltered, ServerSoftReset, ServerUndoDepth, ServerReset, Snapshot,
      DrawingInProgress
<1>5. issued' = issued /\ (foreign' = foreign \/ foreign' = foreign + 1)
  BY DEF EchoFiltered, ServerSoftReset, ServerUndoDepth, ServerReset, Snapshot,
         DrawingInProgress, Send
<1> QED BY <1>2, <1>3, <1>4, <1>5 DEF HistoryStep, SyncInv

(* The session begins with a history as CanvasHistory has it.              *)
LEMMA SyncInitial == SyncInit => SyncInv /\ Init
<1> SUFFICES ASSUME SyncInit PROVE SyncInv /\ Init
  OBVIOUS
<1>1. Init
  BY DEF SyncInit, Init
<1> QED BY <1>1, InitSound DEF SyncInv, SyncInit

(* Every step of the session is a step of the history, or none.            *)
LEMMA SyncStep == SyncInv /\ [SyncNext]_syncVars => HistoryStep
<1> SUFFICES ASSUME SyncInv, [SyncNext]_syncVars PROVE HistoryStep
  OBVIOUS
<1>1. LocalUser \in Users /\ Others \subseteq Users
  BY HistoryAssumption DEF HistoryAssumption, Others
<1>2. \A user \in Users, n \in Nat, area \in LocalAreas \cup RemoteAreas :
        DrawBy(user, n, area) \in Message /\ DrawBy(user, n, area).user = user
  BY SyncAssumption, DrawByType DEF SyncAssumption, DrawBy
<1>3. \A user \in Users : UndoPointBy(user) \in Message /\ UndoPointBy(user).user = user
  BY UndoPointType DEF UndoPointBy
<1>4. issued + 1 \in Nat /\ foreign + 1 \in Nat
  BY DEF SyncInv
<1>5. CASE LocalUndoPoint
  BY <1>1, <1>3, <1>5, LocalStep DEF LocalUndoPoint
<1>6. CASE LocalDraw
  BY <1>1, <1>2, <1>4, <1>6, LocalStep DEF LocalDraw
<1>7. CASE LocalUndo
  BY <1>1, <1>7, UndosType, LocalStep DEF LocalUndo
<1>8. CASE RemoteUndoPoint
  BY <1>1, <1>3, <1>8, ForeignStep DEF RemoteUndoPoint
<1>9. CASE RemoteDraw
  BY <1>1, <1>2, <1>4, <1>9, ForeignStep DEF RemoteDraw
<1>10. CASE RemoteUndo
  BY <1>1, <1>10, UndosType, ForeignStep DEF RemoteUndo
<1>11. CASE MarkNextUndone
  BY <1>11, UndoByType, ForeignStep DEF MarkNextUndone
<1>12. CASE UNCHANGED syncVars
  <2>1. UNCHANGED <<ch, drawing, uplink, issued, foreign>>
    BY <1>12 DEF syncVars
  <2>2. UNCHANGED vars
    BY <2>1 DEF vars
  <2>3. SoundInv'
    BY <2>2, NextSound DEF SyncInv
  <2> QED BY <2>1, <2>2, <2>3 DEF HistoryStep, SyncInv
<1> QED BY <1>5, <1>6, <1>7, <1>8, <1>9, <1>10, <1>11, <1>12, LocalDabsStep, DabsStep,
           EchoStep, DisconnectStep, OtherStep DEF SyncNext

(* The history of a client in a session is sound, and what is under way is *)
(* a sequence of messages.                                                 *)
THEOREM SyncInvariant == SyncSpec => []SyncInv
BY SyncInitial, SyncStep, PTL DEF SyncSpec, HistoryStep

(* A client in a session uses its canvas history only in the ways that     *)
(* CanvasHistory has actions for (the calls of paint_engine.c).            *)
THEOREM SyncImplementsHistory == SyncSpec => Spec
<1>1. SyncInv /\ [SyncNext]_syncVars => [Next]_vars
  BY SyncStep DEF HistoryStep
<1> QED BY <1>1, SyncInitial, SyncInvariant, PTL DEF SyncSpec, Spec

(* The canvas history of a client has its type throughout a session        *)
(* (canvas_history.h).                                                     *)
THEOREM SyncTypeCorrect == SyncSpec => []TypeOK
BY SyncImplementsHistory, TypeCorrect, PTL

(* validate_history's assertion on save points holds throughout a session. *)
THEOREM SyncSavePointsValid == SyncSpec => []SavePointsValid
BY SyncImplementsHistory, SavePointsAlwaysValid, PTL

(* A rollback finds the entry it goes back to throughout a session         *)
(* (validate_history's assertion on the fork).                             *)
THEOREM SyncForkStartReachable == SyncSpec => []ForkStartReachable
BY SyncImplementsHistory, ForkStartAlwaysReachable, PTL

----------------------------------------------------------------------------
(* What the handlers of the history do to its fork.                        *)

(* c is a record with these fields, at least.                              *)
HasFork(c) == {"fork", "markDone"} \subseteq DOMAIN c

(* d has the fork of c, and marks the next command as c does.              *)
KeepsFork(c, d) == HasFork(d) /\ d.fork = c.fork /\ d.markDone = c.markDone

(* Saving a state keeps the fork.                                          *)
LEMMA MakeSavePointFork ==
  ASSUME NEW c, HasFork(c), NEW i PROVE KeepsFork(c, make_save_point(c, i))
BY DEF HasFork, KeepsFork, make_save_point

(* Drawing the fork again keeps it.                                        *)
LEMMA ReplayForkFork ==
  ASSUME NEW c, HasFork(c), NEW cs PROVE KeepsFork(c, replay_fork_dec(c, cs))
BY DEF HasFork, KeepsFork, replay_fork_dec, set_fork_start

(* A replay keeps the fork.                                                *)
LEMMA SearchAndReplayFork ==
  ASSUME NEW c, HasFork(c), NEW target, NEW withFork
  PROVE  KeepsFork(c, search_and_replay_from(c, target, withFork))
<1> DEFINE start == search_save_point_index(c.entries, target)
<1>1. \A es : KeepsFork(c, [c EXCEPT !.entries = es])
  BY DEF HasFork, KeepsFork
<1>2. \A d, cs : KeepsFork(c, d) => /\ KeepsFork(c, [d EXCEPT !.current = cs])
                                    /\ KeepsFork(c, replay_fork_dec(d, cs))
  <2>1. \A d, cs : HasFork(d) => KeepsFork(d, replay_fork_dec(d, cs))
    BY ReplayForkFork
  <2> QED BY <2>1 DEF HasFork, KeepsFork
<1>3. \E es, cs :
        LET d == [c EXCEPT !.entries = es]
        IN \/ replay_from(c, start, withFork) = replay_fork_dec(d, cs)
           \/ replay_from(c, start, withFork) = [d EXCEPT !.current = cs]
  BY Zenon DEF replay_from
<1>4. KeepsFork(c, replay_from(c, start, withFork))
  <2>1. PICK es, cs :
          LET d == [c EXCEPT !.entries = es]
          IN \/ replay_from(c, start, withFork) = replay_fork_dec(d, cs)
             \/ replay_from(c, start, withFork) = [d EXCEPT !.current = cs]
    BY <1>3
  <2> DEFINE d == [c EXCEPT !.entries = es]
  <2>2. KeepsFork(c, d)
    BY <1>1
  <2>3. \/ replay_from(c, start, withFork) = replay_fork_dec(d, cs)
        \/ replay_from(c, start, withFork) = [d EXCEPT !.current = cs]
    BY <2>1
  <2> HIDE DEF d
  <2> QED BY <1>2, <2>2, <2>3
<1>5. KeepsFork(c, c)
  BY DEF KeepsFork
<1> QED BY <1>4, <1>5 DEF search_and_replay_from

(* A rollback keeps the fork that is left.                                 *)
LEMMA RollbackFork ==
  ASSUME NEW c, HasFork(c) PROVE KeepsFork(c, rollback(c))
BY SearchAndReplayFork DEF rollback

(* A command that the fork has been reconciled with leaves it alone.       *)
LEMMA HandleCommandFork ==
  ASSUME NEW c, HasFork(c), NEW m \in Message
  PROVE  KeepsFork(c, handle_command(c, m))
<1>1. KeepsFork(c, c)
  BY DEF KeepsFork
<1>2. \A es : KeepsFork(c, [c EXCEPT !.entries = es])
  BY DEF HasFork, KeepsFork
<1>3. KeepsFork(c, handle_undo_point(c))
  <2> DEFINE saved == IF have_local_fork(c) THEN c ELSE make_save_point(c, Len(c.entries))
             stop  == GoneStop(saved)
  <2>1. KeepsFork(c, saved)
    BY <1>1, MakeSavePointFork
  <2>2. \A d, s : HasFork(d) => /\ KeepsFork(d, mark_undone_actions_gone(d, s))
                                /\ KeepsFork(d, truncate_unreachable(d, s))
    BY DEF HasFork, KeepsFork, mark_undone_actions_gone, truncate_unreachable, truncate_history
  <2>3. handle_undo_point(c) = truncate_unreachable(mark_undone_actions_gone(saved, stop.at), stop)
    BY DEF handle_undo_point
  <2> HIDE DEF saved, stop
  <2> QED BY <2>1, <2>2, <2>3 DEF KeepsFork
<1>4. \A es, t, w : KeepsFork(c, search_and_replay_from([c EXCEPT !.entries = es], t, w))
  <2> TAKE es, t, w
  <2> DEFINE d == [c EXCEPT !.entries = es]
  <2>1. KeepsFork(c, d)
    BY <1>2
  <2> HIDE DEF d
  <2>2. KeepsFork(d, search_and_replay_from(d, t, w))
    BY <2>1, SearchAndReplayFork DEF KeepsFork
  <2>3. KeepsFork(c, search_and_replay_from(d, t, w))
    BY <2>1, <2>2 DEF KeepsFork
  <2> QED BY <2>3 DEF d
<1>5. KeepsFork(c, handle_undo(c, m))
  <2>1. \A user : KeepsFork(c, undo(c, user))
    BY <1>1, <1>4 DEF undo
  <2>2. \A user : KeepsFork(c, redo(c, user))
    BY <1>1, <1>4 DEF redo
  <2> QED BY <2>1, <2>2, Zenon DEF handle_undo
<1>6. KeepsFork(c, handle_drawing_command(c, m))
  BY DEF HasFork, KeepsFork, handle_drawing_command
<1>7. m.type = "UndoPoint" \/ IsUndo(m) \/ IsDraw(m)
  BY DEF Message, IsUndo, IsDraw
<1> QED BY <1>3, <1>5, <1>6, <1>7 DEF handle_command, IsUndo, IsDraw

(* What may be left of the fork of c when m comes: its head is             *)
(* acknowledged, or the fork stays as it is, or there is none any more.    *)
ForksAfter(c, m) ==
  IF have_local_fork(c) /\ m.user = Head(c.fork).user THEN {Tail(c.fork), << >>}
  ELSE {c.fork, << >>}

(* d is what is left of c when m has come.                                 *)
Acknowledged(c, d, m) ==
  HasFork(d) /\ d.markDone = c.markDone /\ d.fork \in ForksAfter(c, m)

(* Reconciling the fork with a command, in each of the five ways.          *)
LEMMA ReconciledFork ==
  ASSUME NEW c, HasFork(c), NEW m \in Message, NEW isDrawing, NEW stray
  PROVE  LET r == reconcile_remote_command(c, m, isDrawing, stray)
         IN /\ Acknowledged(c, r.ch, m)
            /\ r.action \in {"Concurrent", "Rollback", "AlreadyDone"}
<1> DEFINE c1 == maybe_append_to_history(c, m)
           behind == c1.fallbehind + 1
           cleared == [c1 EXCEPT !.fork = << >>]
           shifted == [c1 EXCEPT !.fork = Tail(c1.fork)]
           acked == IF Len(c.fork) = 1 THEN clear_fork_fallbehind(shifted) ELSE shifted
           r == reconcile_remote_command(c, m, isDrawing, stray)
           actions == {"Concurrent", "Rollback", "AlreadyDone"}
<1> SUFFICES Acknowledged(c, r.ch, m) /\ r.action \in actions
  OBVIOUS
<1>1. KeepsFork(c, c1)
  BY DEF HasFork, KeepsFork, maybe_append_to_history, append_to_history
<1>2. \A d, n : HasFork(d) => KeepsFork(d, [d EXCEPT !.fallbehind = n])
  BY DEF HasFork, KeepsFork
<1>3. HasFork(cleared) /\ cleared.fork = << >> /\ cleared.markDone = c.markDone
  BY <1>1 DEF HasFork, KeepsFork
<1>4. HasFork(shifted) /\ shifted.fork = Tail(c.fork) /\ shifted.markDone = c.markDone
  BY <1>1 DEF HasFork, KeepsFork
<1>5. \A d : HasFork(d) => KeepsFork(d, clear_fork_fallbehind(d))
  BY DEF HasFork, KeepsFork, clear_fork_fallbehind
<1>6. HasFork(acked) /\ acked.fork = Tail(c.fork) /\ acked.markDone = c.markDone
  <2> HIDE DEF shifted
  <2> QED BY <1>4, <1>5 DEF KeepsFork
<1>7. CASE ~have_local_fork(c)
  <2>1. r = [ch |-> c1, action |-> "Concurrent"]
    BY <1>7, Zenon DEF reconcile_remote_command
  <2> HIDE DEF r, c1
  <2> QED BY <1>1, <1>7, <2>1 DEF Acknowledged, KeepsFork, ForksAfter
<1>8. CASE have_local_fork(c) /\ m.user = Head(c.fork).user
  <2>1. \/ r = [ch |-> acked, action |-> IF IsDraw(m) THEN "AlreadyDone" ELSE "Concurrent"]
        \/ r = [ch |-> [cleared EXCEPT !.fallbehind = 0], action |-> "Rollback"]
    BY <1>8, Zenon DEF reconcile_remote_command
  <2> HIDE DEF r, acked, cleared
  <2>2. /\ HasFork(r.ch) /\ r.ch.markDone = c.markDone
        /\ r.ch.fork \in {Tail(c.fork), << >>}
    <3> DEFINE e == [cleared EXCEPT !.fallbehind = 0]
    <3>1. HasFork(e) /\ e.markDone = c.markDone /\ e.fork = << >>
      BY <1>2, <1>3 DEF KeepsFork
    <3>2. r.ch = acked \/ r.ch = e
      BY <2>1
    <3> HIDE DEF e
    <3> QED BY <1>6, <3>1, <3>2
  <2>3. r.action \in actions
    BY <2>1
  <2> QED BY <1>8, <2>2, <2>3 DEF Acknowledged, ForksAfter
<1>9. CASE have_local_fork(c) /\ m.user # Head(c.fork).user
  <2>1. \E d, n, a :
          /\ d \in {c1, cleared} /\ a \in actions
          /\ r = [ch |-> [d EXCEPT !.fallbehind = n], action |-> a]
    <3>1. \/ r = [ch |-> [cleared EXCEPT !.fallbehind = 0], action |-> "Rollback"]
          \/ r = [ch |-> [c1 EXCEPT !.fallbehind = behind], action |-> "Concurrent"]
          \/ r = [ch |-> [c1 EXCEPT !.fallbehind = behind], action |-> "Rollback"]
          \/ r = [ch |-> [cleared EXCEPT !.fallbehind = behind], action |-> "Rollback"]
      BY <1>9, Zenon DEF reconcile_remote_command
    <3> HIDE DEF r, cleared, c1, behind
    <3> QED BY <3>1
  <2> HIDE DEF r, cleared, c1
  <2>2. PICK d, n, a :
          /\ d \in {c1, cleared} /\ a \in actions
          /\ r = [ch |-> [d EXCEPT !.fallbehind = n], action |-> a]
    BY <2>1
  <2>3. HasFork(d) /\ d.markDone = c.markDone /\ d.fork \in {c.fork, << >>}
    BY <1>1, <1>3, <2>2 DEF KeepsFork
  <2>4. /\ HasFork(r.ch) /\ r.ch.markDone = c.markDone
        /\ r.ch.fork \in {c.fork, << >>}
    <3> DEFINE e == [d EXCEPT !.fallbehind = n]
    <3>1. HasFork(e) /\ e.markDone = d.markDone /\ e.fork = d.fork
      BY <1>2, <2>3 DEF KeepsFork
    <3>2. r.ch = e
      BY <2>2
    <3> HIDE DEF e
    <3> QED BY <2>3, <3>1, <3>2
  <2>5. r.action \in actions
    BY <2>2
  <2> QED BY <1>9, <2>4, <2>5 DEF Acknowledged, ForksAfter
<1> QED BY <1>7, <1>8, <1>9

(* The whole handler of a command that is not marked as undone.            *)
LEMMA HandleFork ==
  ASSUME NEW c, HasFork(c), c.markDone = TRUE, NEW m \in Message,
         ~(IsUndo(m) /\ get_undo_context_id(m) = Nobody), NEW isDrawing, NEW stray
  PROVE  Acknowledged(c, DP_canvas_history_handle(c, m, isDrawing, stray), m)
<1> DEFINE r == reconcile_remote_command(c, m, isDrawing, stray)
           d == handle_remote_command(c, m, isDrawing, stray)
<1>1. DP_canvas_history_handle(c, m, isDrawing, stray) = d
  BY Zenon DEF DP_canvas_history_handle
<1>2. d = CASE r.action = "Concurrent"  -> handle_command(r.ch, m)
            [] r.action = "Rollback"    -> rollback(r.ch)
            [] r.action = "AlreadyDone" -> r.ch
  BY Zenon DEF handle_remote_command
<1>3. Acknowledged(c, r.ch, m) /\ r.action \in {"Concurrent", "Rollback", "AlreadyDone"}
  BY ReconciledFork
<1> HIDE DEF r, d
<1>4. KeepsFork(r.ch, handle_command(r.ch, m)) /\ KeepsFork(r.ch, rollback(r.ch))
  BY <1>3, HandleCommandFork, RollbackFork DEF Acknowledged
<1>5. Acknowledged(c, d, m)
  BY <1>2, <1>3, <1>4 DEF Acknowledged, KeepsFork
<1> QED BY <1>1, <1>5

(* One of several dabs.                                                    *)
LEMMA MultidabStepFork ==
  ASSUME NEW b, HasFork(b.ch), NEW m \in Message, NEW isDrawing, NEW stray
  PROVE  Acknowledged(b.ch, MultidabStep(b, m, isDrawing, stray).ch, m)
<1> DEFINE r == reconcile_remote_command(b.ch, m, isDrawing, stray)
           d == MultidabStep(b, m, isDrawing, stray).ch
<1>1. Acknowledged(b.ch, r.ch, m) /\ r.action \in {"Concurrent", "Rollback", "AlreadyDone"}
  BY ReconciledFork
<1>2. d = r.ch \/ d = rollback(r.ch)
  BY <1>1 DEF MultidabStep
<1> HIDE DEF r, d
<1>3. KeepsFork(r.ch, rollback(r.ch))
  BY <1>1, RollbackFork DEF Acknowledged
<1>4. Acknowledged(b.ch, d, m)
  BY <1>1, <1>2, <1>3 DEF Acknowledged, KeepsFork
<1> QED BY <1>4 DEF d

(* Two dabs of a batch meet the fork one after the other.                  *)
LEMMA HandleMultidabFork ==
  ASSUME NEW c, HasFork(c), NEW x \in Message, NEW y \in Message, NEW isDrawing, NEW stray
  PROVE  LET d == DP_canvas_history_handle_multidab_dec(c, <<x, y>>, isDrawing, stray)
         IN \E e : Acknowledged(c, e, x) /\ Acknowledged(e, d, y)
<1> DEFINE ms == <<x, y>>
           run == CHOOSE f : BatchRun(f, c, ms, isDrawing, stray, 2)
           b == run[2]
           d == DP_canvas_history_handle_multidab_dec(c, ms, isDrawing, stray)
<1>1. Len(ms) = 2 /\ ms[1] = x /\ ms[2] = y
  OBVIOUS
<1>2. BatchRun(run, c, ms, isDrawing, stray, 2)
  BY BatchRuns
<1>3. d = [b.ch EXCEPT !.current = Draw(b.ch.current, b.pending, DOMAIN b.pending)]
  BY <1>1 DEF DP_canvas_history_handle_multidab_dec, BatchRun
<1> HIDE DEF run, ms, d
<1>4. \A i \in 0 .. 2 : run[i] = IF i = 0 THEN [ch |-> c, pending |-> << >>]
                                 ELSE MultidabStep(run[i - 1], ms[i], isDrawing, stray)
  BY <1>2 DEF BatchRun
<1>5. /\ run[0] = [ch |-> c, pending |-> << >>]
      /\ run[1] = MultidabStep(run[0], x, isDrawing, stray)
      /\ run[2] = MultidabStep(run[1], y, isDrawing, stray)
  BY <1>1, <1>4
<1>6. Acknowledged(c, run[1].ch, x)
  <2>1. run[0].ch = c
    BY <1>5
  <2> QED BY <1>5, <2>1, MultidabStepFork
<1>7. Acknowledged(run[1].ch, run[2].ch, y)
  BY <1>5, <1>6, MultidabStepFork DEF Acknowledged
<1>8. Acknowledged(run[1].ch, d, y)
  BY <1>3, <1>7 DEF Acknowledged, HasFork
<1>9. \E e : Acknowledged(c, e, x) /\ Acknowledged(e, d, y)
  BY <1>6, <1>8
<1> QED BY <1>9 DEF d, ms

(* Starting a fork puts nothing into it.                                   *)
LEMMA StartForkFork ==
  ASSUME NEW c, HasFork(c), NEW m PROVE KeepsFork(c, StartFork(c, m))
<1>1. \A b : KeepsFork(c, set_fork_start(c, b))
  BY DEF HasFork, KeepsFork, set_fork_start
<1>2. \A b, i : KeepsFork(c, make_save_point(set_fork_start(c, b), i))
  BY <1>1, MakeSavePointFork DEF KeepsFork
<1>3. KeepsFork(c, c)
  BY DEF KeepsFork
<1> QED BY <1>2, <1>3 DEF StartFork

(* d is c with ms at the end of the fork.                                  *)
ForkGrows(c, d, ms) == HasFork(d) /\ d.markDone = c.markDone /\ d.fork = c.fork \o ms

(* A local command goes to the end of the fork.                            *)
LEMMA HandleLocalFork ==
  ASSUME NEW c, HasFork(c), c.fork \in Seq(Message), NEW m \in Message
  PROVE  ForkGrows(c, DP_canvas_history_handle_local(c, m), <<m>>)
<1> DEFINE pushed == [StartFork(c, m) EXCEPT !.fork = Append(StartFork(c, m).fork, m)]
<1>1. KeepsFork(c, StartFork(c, m))
  BY StartForkFork
<1>2. Append(c.fork, m) = c.fork \o <<m>>
  OBVIOUS
<1>3. ForkGrows(c, pushed, <<m>>)
  BY <1>1, <1>2 DEF ForkGrows, KeepsFork, HasFork
<1>4. DP_canvas_history_handle_local(c, m)
        = IF IsDraw(m) THEN handle_drawing_command(pushed, m) ELSE pushed
  BY DEF DP_canvas_history_handle_local
<1> HIDE DEF pushed
<1> QED BY <1>3, <1>4 DEF ForkGrows, HasFork, handle_drawing_command

(* Local dabs go to the end of the fork.                                   *)
LEMMA HandleLocalMultidabFork ==
  ASSUME NEW c, HasFork(c), NEW ms
  PROVE  ForkGrows(c, DP_canvas_history_handle_local_multidab_dec(c, ms), ms)
<1> DEFINE started == StartFork(c, Head(ms))
           pushed == [started EXCEPT !.fork = started.fork \o ms]
<1>1. KeepsFork(c, started)
  BY StartForkFork
<1>2. DP_canvas_history_handle_local_multidab_dec(c, ms)
        = [pushed EXCEPT !.current = Draw(pushed.current, ms, DOMAIN ms)]
  BY DEF DP_canvas_history_handle_local_multidab_dec
<1> HIDE DEF started
<1>3. ForkGrows(c, pushed, ms)
  BY <1>1 DEF ForkGrows, KeepsFork, HasFork
<1> HIDE DEF pushed
<1> QED BY <1>2, <1>3 DEF ForkGrows, HasFork

(* Clearing the fork leaves none.                                          *)
LEMMA LocalForkClearFork ==
  ASSUME NEW c, HasFork(c)
  PROVE  LET d == DP_canvas_history_local_fork_clear(c)
         IN HasFork(d) /\ d.fork = << >> /\ d.markDone = c.markDone
<1> DEFINE none == [c EXCEPT !.fork = << >>]
<1>1. HasFork(none) /\ none.fork = << >> /\ none.markDone = c.markDone
  BY DEF HasFork
<1> HIDE DEF none
<1>2. KeepsFork(none, rollback(none))
  BY <1>1, RollbackFork
<1>3. DP_canvas_history_local_fork_clear(c) = IF have_local_fork(c) THEN rollback(none) ELSE c
  BY DEF DP_canvas_history_local_fork_clear, none
<1> QED BY <1>1, <1>2, <1>3 DEF KeepsFork, have_local_fork

(* Soft resets and changes of the undo depth keep the fork.                *)
LEMMA ResetKeepingForkFork ==
  ASSUME NEW c, HasFork(c)
  PROVE  LET d == ResetKeepingFork(c)
         IN HasFork(d) /\ d.fork = c.fork /\ d.markDone = TRUE
<1> DEFINE bare == IF have_local_fork(c)
                   THEN search_and_replay_from(c, fork_start_index(c), FALSE) ELSE c
           c2 == reset_to_state(bare, bare.current)
           Started(d) == HasFork(d) /\ d.fork = c.fork /\ d.markDone = TRUE
<1>1. HasFork(bare) /\ bare.fork = c.fork
  BY SearchAndReplayFork DEF KeepsFork
<1> HIDE DEF bare
<1>2. Started(c2)
  BY <1>1 DEF HasFork, reset_to_state
<1>3. ResetKeepingFork(c) = IF have_local_fork(c) THEN replay_fork_dec(c2, c2.current) ELSE c2
  BY DEF ResetKeepingFork, bare
<1> HIDE DEF c2
<1>4. KeepsFork(c2, replay_fork_dec(c2, c2.current))
  BY <1>2, ReplayForkFork
<1> QED BY <1>2, <1>3, <1>4 DEF KeepsFork

(* A session reset leaves no fork.                                         *)
LEMMA ResetFork ==
  ASSUME NEW c, HasFork(c)
  PROVE  LET d == DP_canvas_history_reset(c)
         IN HasFork(d) /\ d.fork = << >> /\ d.markDone = TRUE
BY DEF HasFork, DP_canvas_history_reset, DP_canvas_history_reset_to_state, reset_to_state

(* Without a fork there is none after any command.                         *)
LEMMA NoForkStays ==
  ASSUME NEW c, HasFork(c), c.fork = << >>, NEW m \in Message, NEW isDrawing, NEW stray
  PROVE  LET d == DP_canvas_history_handle(c, m, isDrawing, stray)
         IN HasFork(d) /\ d.fork = << >>
<1> DEFINE r == reconcile_remote_command(c, m, isDrawing, stray)
           h == handle_remote_command(c, m, isDrawing, stray)
           d == DP_canvas_history_handle(c, m, isDrawing, stray)
           Bare(e) == HasFork(e) /\ e.fork = << >>
<1>1. Bare(r.ch) /\ r.action \in {"Concurrent", "Rollback", "AlreadyDone"}
  <2>1. Acknowledged(c, r.ch, m) /\ r.action \in {"Concurrent", "Rollback", "AlreadyDone"}
    BY ReconciledFork
  <2>2. ForksAfter(c, m) = {<< >>}
    BY DEF ForksAfter, have_local_fork
  <2> HIDE DEF r
  <2> QED BY <2>1, <2>2 DEF Acknowledged
<1>2. h = CASE r.action = "Concurrent"  -> handle_command(r.ch, m)
            [] r.action = "Rollback"    -> rollback(r.ch)
            [] r.action = "AlreadyDone" -> r.ch
  BY Zenon DEF handle_remote_command
<1> HIDE DEF r
<1>3. Bare(handle_command(r.ch, m)) /\ Bare(rollback(r.ch))
  BY <1>1, HandleCommandFork, RollbackFork DEF KeepsFork
<1>4. Bare(h)
  BY <1>1, <1>2, <1>3
<1>5. /\ Bare([c EXCEPT !.markDone = FALSE])
      /\ Bare(append_to_history([c EXCEPT !.markDone = TRUE], m, "Undone"))
  BY DEF HasFork, append_to_history
<1> HIDE DEF h
<1>6. d \in {h, [c EXCEPT !.markDone = FALSE],
             append_to_history([c EXCEPT !.markDone = TRUE], m, "Undone")}
  BY Zenon DEF DP_canvas_history_handle, h
<1> HIDE DEF d
<1>7. Bare(d)
  BY <1>4, <1>5, <1>6
<1> QED BY <1>7 DEF d

----------------------------------------------------------------------------
(* Suffixes, position by position.                                         *)

SuffixOf(s, t) ==
  Len(s) <= Len(t) /\ \A i \in 1 .. Len(s) : s[i] = t[Len(t) - Len(s) + i]

(* Position by position is what IsSuffix says.                             *)
LEMMA SuffixIs ==
  ASSUME NEW S, NEW s \in Seq(S), NEW t \in Seq(S), SuffixOf(s, t)
  PROVE  IsSuffix(s, t)
<1> DEFINE r == Reverse(s)
           q == Reverse(t)
<1>1. Len(s) \in Nat /\ Len(t) \in Nat /\ Len(s) <= Len(t)
  BY LenProperties DEF SuffixOf
<1>2. \A u \in Seq(S) : /\ Reverse(u) \in Seq(S) /\ Len(Reverse(u)) = Len(u)
                        /\ \A i \in 1 .. Len(u) : Reverse(u)[i] = u[Len(u) - i + 1]
  <2> TAKE u \in Seq(S)
  <2>1. Len(u) \in Nat /\ \A i \in 1 .. Len(u) : u[i] \in S
    BY LenProperties, ElementOfSeq
  <2>2. Reverse(u) \in [1 .. Len(u) -> S]
    BY <2>1 DEF Reverse
  <2> QED BY <2>1, <2>2, PointwiseSeq DEF Reverse
<1>3. /\ r \in Seq(S) /\ Len(r) = Len(s) /\ q \in Seq(S) /\ Len(q) = Len(t)
      /\ \A i \in 1 .. Len(s) : r[i] = s[Len(s) - i + 1]
      /\ \A i \in 1 .. Len(t) : q[i] = t[Len(t) - i + 1]
  BY <1>2
<1> HIDE DEF r, q
<1>4. \A i \in 1 .. Len(s) : r[i] = q[i]
  <2> TAKE i \in 1 .. Len(s)
  <2>1. i \in 1 .. Len(t) /\ Len(s) - i + 1 \in 1 .. Len(s)
    BY <1>1
  <2>2. s[Len(s) - i + 1] = t[Len(t) - Len(s) + (Len(s) - i + 1)]
    BY <2>1 DEF SuffixOf
  <2>3. Len(t) - Len(s) + (Len(s) - i + 1) = Len(t) - i + 1
    BY <1>1
  <2> QED BY <1>3, <2>1, <2>2, <2>3
<1>5. SubSeq(r, 1, Len(r)) = SubSeq(q, 1, Len(r))
  BY <1>1, <1>3, <1>4
<1> QED BY <1>1, <1>3, <1>5 DEF IsSuffix, IsPrefix, r, q

(* Nothing is the end of everything.                                       *)
LEMMA SuffixEmpty == ASSUME NEW S, NEW t \in Seq(S) PROVE SuffixOf(<< >>, t)
BY DEF SuffixOf

(* When both lose their first element.                                     *)
LEMMA SuffixTail ==
  ASSUME NEW S, NEW s \in Seq(S), NEW t \in Seq(S), SuffixOf(s, t), s # << >>
  PROVE  SuffixOf(Tail(s), Tail(t))
<1>1. /\ Len(s) \in Nat /\ Len(t) \in Nat /\ Len(s) <= Len(t)
      /\ Len(s) # 0 /\ t # << >>
  BY LenProperties, EmptySeq DEF SuffixOf
<1>2. /\ Len(Tail(s)) = Len(s) - 1 /\ Len(Tail(t)) = Len(t) - 1
      /\ \A i \in 1 .. Len(s) - 1 : Tail(s)[i] = s[i + 1]
      /\ \A i \in 1 .. Len(t) - 1 : Tail(t)[i] = t[i + 1]
  BY <1>1, HeadTailProperties
<1>3. \A i \in 1 .. Len(s) - 1 : Tail(s)[i] = Tail(t)[(Len(t) - 1) - (Len(s) - 1) + i]
  <2> TAKE i \in 1 .. Len(s) - 1
  <2> DEFINE k == (Len(t) - 1) - (Len(s) - 1) + i
  <2>1. i + 1 \in 1 .. Len(s) /\ k \in 1 .. Len(t) - 1 /\ k + 1 = Len(t) - Len(s) + (i + 1)
    BY <1>1
  <2>2. s[i + 1] = t[Len(t) - Len(s) + (i + 1)]
    BY <2>1 DEF SuffixOf
  <2> HIDE DEF k
  <2>3. Tail(s)[i] = Tail(t)[k]
    BY <1>2, <2>1, <2>2
  <2> QED BY <2>3 DEF k
<1> QED BY <1>1, <1>2, <1>3 DEF SuffixOf

(* When both get the same elements at the end.                             *)
LEMMA SuffixGrows ==
  ASSUME NEW S, NEW s \in Seq(S), NEW t \in Seq(S), NEW u \in Seq(S), SuffixOf(s, t)
  PROVE  SuffixOf(s \o u, t \o u)
<1>1. Len(s) \in Nat /\ Len(t) \in Nat /\ Len(u) \in Nat /\ Len(s) <= Len(t)
  BY LenProperties DEF SuffixOf
<1>2. \A v \in Seq(S) : /\ Len(v \o u) = Len(v) + Len(u)
                        /\ \A i \in 1 .. Len(v) + Len(u) :
                             (v \o u)[i] = IF i <= Len(v) THEN v[i] ELSE u[i - Len(v)]
  BY ConcatProperties
<1>3. \A i \in 1 .. Len(s) + Len(u) :
        (s \o u)[i] = (t \o u)[(Len(t) + Len(u)) - (Len(s) + Len(u)) + i]
  <2> TAKE i \in 1 .. Len(s) + Len(u)
  <2> DEFINE k == (Len(t) + Len(u)) - (Len(s) + Len(u)) + i
  <2>1. /\ k \in 1 .. Len(t) + Len(u) /\ k = Len(t) - Len(s) + i
        /\ k <= Len(t) <=> i <= Len(s)
        /\ k - Len(t) = i - Len(s)
    BY <1>1
  <2>2. i <= Len(s) => s[i] = t[Len(t) - Len(s) + i]
    BY <1>1 DEF SuffixOf
  <2> HIDE DEF k
  <2>3. (s \o u)[i] = (t \o u)[k]
    BY <1>2, <2>1, <2>2
  <2> QED BY <2>3 DEF k
<1> QED BY <1>1, <1>2, <1>3 DEF SuffixOf

----------------------------------------------------------------------------
(* The fork is under way.                                                  *)

(* The commands of the client.                                             *)
OwnMessages == {m \in Message : m.user = LocalUser}

(* An own command is never the mark that the next one is undone.           *)
LEMMA OwnIsOfSomebody ==
  ASSUME NEW m \in OwnMessages PROVE ~(IsUndo(m) /\ get_undo_context_id(m) = Nobody)
BY HistoryAssumption, NobodyAssumption
DEF HistoryAssumption, NobodyAssumption, OwnMessages, get_undo_context_id

(* The fork of c is a suffix of what is under way, all of it the client's. *)
InFlight(c, up) == HasFork(c) /\ c.markDone = TRUE /\ SuffixOf(c.fork, up)

(* The inductive invariant.  After a disconnect there is no fork.          *)
FlightInv ==
  /\ SyncInv
  /\ connected => uplink \in Seq(OwnMessages) /\ InFlight(ch, uplink)
  /\ ~connected => ch.fork = << >>

(* A sound history has a fork.                                             *)
LEMMA FlightTypes ==
  ASSUME SyncInv PROVE HasFork(ch) /\ ch.fork \in Seq(Message)
BY DEF SyncInv, SoundInv, Sound, SoundHistory, HasFork

(* All of a fork under way is the client's.                                *)
LEMMA InFlightFork ==
  ASSUME NEW c, NEW up \in Seq(OwnMessages), InFlight(c, up), c.fork \in Seq(Message)
  PROVE  /\ c.fork \in Seq(OwnMessages)
         /\ have_local_fork(c) => Head(c.fork).user = LocalUser
<1>1. /\ Len(c.fork) \in Nat /\ Len(up) \in Nat /\ Len(c.fork) <= Len(up)
      /\ \A i \in 1 .. Len(c.fork) : c.fork[i] = up[Len(up) - Len(c.fork) + i]
  BY LenProperties DEF InFlight, SuffixOf
<1>2. \A i \in 1 .. Len(c.fork) : c.fork[i] \in OwnMessages
  <2> TAKE i \in 1 .. Len(c.fork)
  <2>1. Len(up) - Len(c.fork) + i \in 1 .. Len(up)
    BY <1>1
  <2> QED BY <1>1, <2>1, ElementOfSeq
<1>3. c.fork \in Seq(OwnMessages)
  <2>1. c.fork \in [1 .. Len(c.fork) -> OwnMessages]
    BY <1>2, LenProperties, SeqDef
  <2> QED BY <1>1, <2>1, PointwiseSeq
<1>4. have_local_fork(c) => Head(c.fork) \in OwnMessages
  BY <1>3, HeadTailProperties DEF have_local_fork
<1> QED BY <1>3, <1>4 DEF OwnMessages

(* An own command comes back.                                              *)
LEMMA OwnTaken ==
  ASSUME NEW c, NEW up \in Seq(OwnMessages), InFlight(c, up), up # << >>,
         c.fork \in Seq(Message), NEW d, Acknowledged(c, d, Head(up))
  PROVE  InFlight(d, Tail(up))
<1>1. Head(up) \in OwnMessages /\ Tail(up) \in Seq(OwnMessages)
  BY HeadTailProperties
<1>2. Head(up).user = LocalUser
  BY <1>1 DEF OwnMessages
<1>3. c.fork \in Seq(OwnMessages) /\ (have_local_fork(c) => Head(c.fork).user = LocalUser)
  BY InFlightFork
<1>4. d.fork = << >> \/ (have_local_fork(c) /\ d.fork = Tail(c.fork))
  BY <1>2, <1>3 DEF Acknowledged, ForksAfter, have_local_fork
<1>5. SuffixOf(d.fork, Tail(up))
  BY <1>1, <1>3, <1>4, SuffixEmpty, SuffixTail DEF InFlight, have_local_fork
<1> QED BY <1>5 DEF InFlight, Acknowledged

(* A command of somebody else comes.                                       *)
LEMMA OthersTaken ==
  ASSUME NEW c, NEW up \in Seq(OwnMessages), InFlight(c, up), c.fork \in Seq(Message),
         NEW m, m.user # LocalUser, NEW d, Acknowledged(c, d, m)
  PROVE  InFlight(d, up)
<1>1. have_local_fork(c) => Head(c.fork).user = LocalUser
  BY InFlightFork
<1>2. d.fork \in {c.fork, << >>}
  BY <1>1 DEF Acknowledged, ForksAfter
<1>3. SuffixOf(d.fork, up)
  BY <1>2, SuffixEmpty DEF InFlight
<1> QED BY <1>3 DEF InFlight, Acknowledged

(* The client issues commands.                                             *)
LEMMA IssueFlight ==
  ASSUME FlightInv, SyncInv', NEW ms \in Seq(OwnMessages), Issue(ms),
         ForkGrows(ch, ch', ms)
  PROVE  FlightInv'
<1>1. connected /\ connected' = connected /\ uplink' = uplink \o ms
  BY DEF Issue
<1>2. uplink \in Seq(OwnMessages) /\ InFlight(ch, uplink) /\ ch.fork \in Seq(OwnMessages)
  BY <1>1, FlightTypes, InFlightFork DEF FlightInv
<1>3. uplink' \in Seq(OwnMessages)
  BY <1>1, <1>2, ConcatProperties
<1>4. SuffixOf(ch.fork \o ms, uplink \o ms)
  BY <1>2, SuffixGrows DEF InFlight
<1>5. InFlight(ch', uplink')
  BY <1>1, <1>2, <1>4 DEF InFlight, ForkGrows
<1> QED BY <1>1, <1>3, <1>5 DEF FlightInv

(* A local command.                                                        *)
LEMMA LocalFlight ==
  ASSUME FlightInv, SyncInv', NEW m \in OwnMessages, HandleLocal(m), Issue(<<m>>)
  PROVE  FlightInv'
<1>1. m \in Message /\ <<m>> \in Seq(OwnMessages)
  BY DEF OwnMessages
<1>2. ForkGrows(ch, ch', <<m>>)
  BY <1>1, FlightTypes, HandleLocalFork DEF HandleLocal, FlightInv
<1> QED BY <1>1, <1>2, IssueFlight

(* Two local dabs.                                                         *)
LEMMA LocalDabsFlight == ASSUME FlightInv, SyncInv', LocalDabs PROVE FlightInv'
<1>1. PICK a1 \in LocalAreas, a2 \in LocalAreas :
        LET ms == <<DrawBy(LocalUser, issued + 1, a1), DrawBy(LocalUser, issued + 2, a2)>>
        IN HandleLocalMultidab(ms) /\ Issue(ms)
  BY DEF LocalDabs
<1> DEFINE x == DrawBy(LocalUser, issued + 1, a1)
           y == DrawBy(LocalUser, issued + 2, a2)
<1>2. x \in OwnMessages /\ y \in OwnMessages
  <2>1. a1 \in Area /\ a2 \in Area /\ issued + 1 \in Nat /\ issued + 2 \in Nat
    BY SyncAssumption DEF SyncAssumption, FlightInv, SyncInv
  <2>2. x \in Message /\ y \in Message
    BY <2>1, DrawByType, HistoryAssumption DEF HistoryAssumption
  <2>3. x.user = LocalUser /\ y.user = LocalUser
    BY DEF DrawBy
  <2> QED BY <2>2, <2>3 DEF OwnMessages
<1>3. HandleLocalMultidab(<<x, y>>) /\ Issue(<<x, y>>)
  BY <1>1
<1> HIDE DEF x, y
<1>4. <<x, y>> \in Seq(OwnMessages)
  BY <1>2, PairType
<1>5. ForkGrows(ch, ch', <<x, y>>)
  BY <1>3, FlightTypes, HandleLocalMultidabFork DEF HandleLocalMultidab, FlightInv
<1> QED BY <1>3, <1>4, <1>5, IssueFlight

(* A command of another user.                                              *)
LEMMA ForeignFlight ==
  ASSUME FlightInv, SyncInv', NEW m \in Message, m.user # LocalUser,
         ~(IsUndo(m) /\ get_undo_context_id(m) = Nobody), Foreign(m)
  PROVE  FlightInv'
<1>1. connected /\ connected' = connected /\ uplink' = uplink /\ Handle(m)
  BY DEF Foreign, Deliver
<1>2. uplink \in Seq(OwnMessages) /\ InFlight(ch, uplink)
  BY <1>1 DEF FlightInv
<1>3. Acknowledged(ch, ch', m)
  BY <1>1, <1>2, HandleFork DEF Handle, InFlight
<1>4. InFlight(ch', uplink')
  BY <1>1, <1>2, <1>3, FlightTypes, OthersTaken DEF FlightInv
<1> QED BY <1>1, <1>2, <1>4 DEF FlightInv

(* An own command comes back, from the server or, without one, the queue.  *)
LEMMA EchoFlight == ASSUME FlightInv, SyncInv', Echo PROVE FlightInv'
<1>1. /\ connected' = connected /\ uplink # << >> /\ uplink' = Tail(uplink)
      /\ Handle(Head(uplink))
  BY DEF Echo, Deliver
<1>2. Head(uplink) \in Message
  BY <1>1, HeadTailProperties DEF FlightInv, SyncInv
<1>3. CASE connected
  <2>1. uplink \in Seq(OwnMessages) /\ InFlight(ch, uplink)
    BY <1>3 DEF FlightInv
  <2>2. Head(uplink) \in OwnMessages /\ uplink' \in Seq(OwnMessages)
    BY <1>1, <2>1, HeadTailProperties
  <2>3. Acknowledged(ch, ch', Head(uplink))
    BY <1>1, <1>2, <2>1, <2>2, HandleFork, OwnIsOfSomebody DEF Handle, InFlight
  <2>4. InFlight(ch', uplink')
    BY <1>1, <2>1, <2>3, FlightTypes, OwnTaken DEF FlightInv
  <2> QED BY <1>1, <1>3, <2>2, <2>4 DEF FlightInv
<1>4. CASE ~connected
  <2>1. ch'.fork = << >>
    BY <1>1, <1>2, <1>4, FlightTypes, NoForkStays DEF Handle, FlightInv
  <2> QED BY <1>1, <1>4, <2>1 DEF FlightInv
<1> QED BY <1>3, <1>4

(* A batch of dabs, the first perhaps the client's own.                    *)
LEMMA DabsFlight == ASSUME FlightInv, SyncInv', Dabs PROVE FlightInv'
<1>1. PICK ms :
      \E own \in BOOLEAN :
        /\ DabPair(ms, own)
        /\ own => uplink # << >> /\ IsDraw(Head(uplink))
        /\ connected /\ connected' = connected
        /\ HandleMultidab(ms)
        /\ uplink' = IF own THEN Tail(uplink) ELSE uplink
  BY DabsTaken
<1>2. PICK own \in BOOLEAN :
        /\ DabPair(ms, own)
        /\ own => uplink # << >> /\ IsDraw(Head(uplink))
        /\ connected /\ connected' = connected
        /\ HandleMultidab(ms)
        /\ uplink' = IF own THEN Tail(uplink) ELSE uplink
  BY <1>1
<1>3. PICK x \in DabMessages, y \in DabMessages :
        /\ ms = <<x, y>>
        /\ own => x = Head(uplink)
        /\ ~own => x.user \in Others
        /\ y.user \in Others
  BY <1>2, DabPairType DEF FlightInv
<1>4. x \in Message /\ y \in Message /\ LocalUser \notin Others
  BY DEF DabMessages, Others
<1>5. uplink \in Seq(OwnMessages) /\ InFlight(ch, uplink) /\ ch.fork \in Seq(Message)
  BY <1>2, FlightTypes DEF FlightInv
<1>6. PICK stray : ch' = DP_canvas_history_handle_multidab_dec(ch, <<x, y>>, drawing, stray)
  BY <1>2, <1>3 DEF HandleMultidab
<1>7. PICK e : Acknowledged(ch, e, x) /\ Acknowledged(e, ch', y)
  BY <1>4, <1>5, <1>6, HandleMultidabFork DEF InFlight
<1>8. uplink' \in Seq(OwnMessages)
  BY <1>2, <1>5, HeadTailProperties
<1>9. InFlight(e, uplink')
  BY <1>2, <1>3, <1>4, <1>5, <1>7, OwnTaken, OthersTaken
<1>10. e.fork \in Seq(Message)
  <2>1. \/ e.fork \in {ch.fork, << >>}
        \/ ch.fork # << >> /\ e.fork = Tail(ch.fork)
    BY <1>7 DEF Acknowledged, ForksAfter, have_local_fork
  <2> QED BY <1>5, <2>1, HeadTailProperties, EmptySeq
<1>11. InFlight(ch', uplink')
  BY <1>3, <1>4, <1>7, <1>8, <1>9, <1>10, OthersTaken
<1> QED BY <1>2, <1>8, <1>11 DEF FlightInv

(* Resets, filtered commands, the disconnect and what only the client does.*)
LEMMA OtherFlight ==
  ASSUME FlightInv, SyncInv',
         \/ EchoFiltered \/ ServerSoftReset \/ ServerUndoDepth \/ ServerReset
         \/ Snapshot \/ DrawingInProgress \/ Disconnect
  PROVE  FlightInv'
<1>1. HasFork(ch) /\ ch.fork \in Seq(Message)
  BY FlightTypes DEF FlightInv
<1>2. CASE Disconnect
  <2>1. ch'.fork = << >>
    BY <1>1, <1>2, LocalForkClearFork DEF Disconnect, Cleanup, DP_canvas_history_cleanup
  <2> QED BY <1>2, <2>1 DEF FlightInv, Disconnect
<1>3. CASE EchoFiltered
  <2>1. /\ connected /\ connected' = connected /\ uplink # << >>
        /\ uplink' = Tail(uplink) /\ uplink \in Seq(OwnMessages) /\ InFlight(ch, uplink)
    BY <1>3 DEF EchoFiltered, FlightInv
  <2>2. HasFork(ch') /\ ch'.fork = << >> /\ ch'.markDone = TRUE
    BY <1>1, <1>3, <2>1, LocalForkClearFork DEF EchoFiltered, LocalForkClear, InFlight
  <2>3. uplink' \in Seq(OwnMessages)
    BY <2>1, HeadTailProperties
  <2> QED BY <2>1, <2>2, <2>3, SuffixEmpty DEF FlightInv, InFlight
<1>4. CASE ServerReset
  <2>1. /\ connected /\ connected' = connected /\ uplink' = uplink
        /\ uplink \in Seq(OwnMessages)
    BY <1>4 DEF ServerReset, FlightInv
  <2>2. HasFork(ch') /\ ch'.fork = << >> /\ ch'.markDone = TRUE
    BY <1>1, <1>4, ResetFork DEF ServerReset, Reset
  <2> QED BY <2>1, <2>2, SuffixEmpty DEF FlightInv, InFlight
<1>5. CASE ServerSoftReset \/ ServerUndoDepth
  <2>1. /\ connected /\ connected' = connected /\ uplink' = uplink
        /\ uplink \in Seq(OwnMessages) /\ InFlight(ch, uplink)
    BY <1>5 DEF ServerSoftReset, ServerUndoDepth, FlightInv
  <2>2. \E c : /\ HasFork(c) /\ c.fork = ch.fork /\ ch' = ResetKeepingFork(c)
    <3>1. CASE ServerSoftReset
      BY <1>1, <3>1 DEF ServerSoftReset, SoftReset, DP_canvas_history_soft_reset
    <3>2. CASE ServerUndoDepth
      <4>1. PICK limit : ch' = ResetKeepingFork([ch EXCEPT !.limit = limit])
        BY <3>2 DEF ServerUndoDepth, UndoDepthLimitSet, DP_canvas_history_undo_depth_limit_set
      <4>2. HasFork([ch EXCEPT !.limit = limit]) /\ [ch EXCEPT !.limit = limit].fork = ch.fork
        BY <1>1 DEF HasFork
      <4> QED BY <4>1, <4>2
    <3> QED BY <1>5, <3>1, <3>2
  <2>3. HasFork(ch') /\ ch'.fork = ch.fork /\ ch'.markDone = TRUE
    BY <2>2, ResetKeepingForkFork
  <2> QED BY <2>1, <2>3 DEF FlightInv, InFlight
<1>6. CASE Snapshot \/ DrawingInProgress
  <2>1. connected' = connected /\ uplink' = uplink
    BY <1>6 DEF Snapshot, DrawingInProgress
  <2>2. KeepsFork(ch, ch')
    <3>1. KeepsFork(ch, ch) /\ \A i : KeepsFork(ch, make_save_point(ch, i))
      BY <1>1, MakeSavePointFork DEF KeepsFork
    <3> QED BY <1>6, <3>1 DEF Snapshot, SavePointMake, DP_canvas_history_save_point_make,
                              DrawingInProgress, LocalDrawingInProgressSet
  <2> QED BY <2>1, <2>2 DEF FlightInv, InFlight, KeepsFork
<1> QED BY <1>2, <1>3, <1>4, <1>5, <1>6

(* Nothing is under way at first.                                          *)
LEMMA FlightInitial == SyncInit => FlightInv
<1> SUFFICES ASSUME SyncInit PROVE FlightInv
  OBVIOUS
<1>1. ch.fork = << >> /\ ch.markDone = TRUE /\ uplink = << >> /\ connected = TRUE
  BY DEF SyncInit, DP_canvas_history_new
<1>2. SyncInv
  BY SyncInitial
<1>3. << >> \in Seq(OwnMessages)
  BY EmptySeq
<1> QED BY <1>1, <1>2, <1>3, FlightTypes, SuffixEmpty DEF FlightInv, InFlight

(* Every step, as long as no command is marked as undone.                  *)
LEMMA FlightStep ==
  ASSUME "Undone" \notin Features, FlightInv, [SyncNext]_syncVars
  PROVE  FlightInv'
<1>1. SyncInv'
  BY SyncStep DEF FlightInv, HistoryStep
<1>2. LocalUser \in Users /\ Others \subseteq Users /\ LocalUser \notin Others
  BY HistoryAssumption DEF HistoryAssumption, Others
<1>3. \A user \in Users, n \in Nat, area \in LocalAreas \cup RemoteAreas :
        LET m == DrawBy(user, n, area) IN m \in Message /\ m.user = user /\ ~IsUndo(m)
  BY SyncAssumption, DrawByType DEF SyncAssumption, DrawBy, IsUndo
<1>4. \A user \in Users :
        LET m == UndoPointBy(user) IN m \in Message /\ m.user = user /\ ~IsUndo(m)
  BY UndoPointType DEF UndoPointBy, IsUndo
<1>5. issued + 1 \in Nat /\ foreign + 1 \in Nat
  BY DEF FlightInv, SyncInv
<1>6. CASE LocalUndoPoint
  BY <1>1, <1>2, <1>4, <1>6, LocalFlight DEF LocalUndoPoint, OwnMessages
<1>7. CASE LocalDraw
  BY <1>1, <1>2, <1>3, <1>5, <1>7, LocalFlight DEF LocalDraw, OwnMessages
<1>8. CASE LocalUndo
  BY <1>1, <1>2, <1>8, UndosType, LocalFlight DEF LocalUndo, OwnMessages
<1>9. CASE RemoteUndoPoint
  BY <1>1, <1>2, <1>4, <1>9, ForeignFlight DEF RemoteUndoPoint
<1>10. CASE RemoteDraw
  BY <1>1, <1>2, <1>3, <1>5, <1>10, ForeignFlight DEF RemoteDraw
<1>11. CASE RemoteUndo
  BY <1>1, <1>2, <1>11, UndosType, ForeignFlight DEF RemoteUndo
<1>12. ~MarkNextUndone
  BY DEF MarkNextUndone
<1>13. CASE UNCHANGED syncVars
  BY <1>1, <1>13 DEF syncVars, FlightInv
<1> QED BY <1>1, <1>6, <1>7, <1>8, <1>9, <1>10, <1>11, <1>12, <1>13, LocalDabsFlight,
           DabsFlight, EchoFlight, OtherFlight DEF SyncNext

(* The invariant says what ForkInFlight says.                              *)
LEMMA FlightIsInFlight == FlightInv => ForkInFlight
<1> SUFFICES ASSUME FlightInv PROVE ForkInFlight
  OBVIOUS
<1>1. ch.fork \in Seq(Message) /\ uplink \in Seq(Message)
  BY FlightTypes DEF FlightInv, SyncInv
<1>2. SuffixOf(ch.fork, uplink)
  BY <1>1, SuffixEmpty DEF FlightInv, InFlight
<1> QED BY <1>1, <1>2, SuffixIs DEF ForkInFlight

(* The fork is the end of what the client has sent and not got back: no    *)
(* command lingers in it that has come back or was filtered, whatever the  *)
(* order (reconcile_remote_command and its callers).  This is so without   *)
(* Undone traffic: a command marked as undone is not reconciled.           *)
THEOREM ForkAlwaysInFlight ==
  ASSUME "Undone" \notin Features PROVE SyncSpec => []ForkInFlight
<1>1. FlightInv /\ [SyncNext]_syncVars => FlightInv'
  BY FlightStep
<1> QED BY <1>1, FlightInitial, FlightIsInFlight, PTL DEF SyncSpec

----------------------------------------------------------------------------
(* What a log draws.                                                       *)

(* A command of the log and whether it is undone.                          *)
Mark == [undo : {"Done", "Undone", "Gone"}, msg : Message]

(* The commands of the log.                                                *)
LogMsgs(s) == [i \in DOMAIN s |-> s[i].msg]

(* The drawing commands among them that are done.                          *)
LogDraws(s, lo, hi) == {i \in lo .. hi : DoneDraw(s[i])}

(* The canvas cs after the first n commands of s.                          *)
Told(cs, s, n) == Draw(cs, LogMsgs(s), LogDraws(s, 1, n))

(* The commands of a log, and which of them are drawn.                     *)
LEMMA LogIs ==
  ASSUME NEW s \in Seq(Mark)
  PROVE  /\ LogMsgs(s) \in Seq(Message) /\ DOMAIN LogMsgs(s) = 1 .. Len(s)
         /\ Len(s) \in Nat /\ DOMAIN s = 1 .. Len(s)
         /\ \A i \in 1 .. Len(s) : LogMsgs(s)[i] = s[i].msg
<1> DEFINE n == Len(s)
           f == LogMsgs(s)
<1>1. n \in Nat /\ DOMAIN s = 1 .. n /\ \A i \in 1 .. n : s[i] \in Mark
  BY LenProperties, ElementOfSeq
<1>2. \A i \in 1 .. n : s[i].msg \in Message
  BY <1>1 DEF Mark
<1>3. f = [i \in 1 .. n |-> s[i].msg]
  BY <1>1, Zenon DEF LogMsgs
<1>4. f \in [1 .. n -> Message] /\ \A i \in 1 .. n : f[i] = s[i].msg
  BY <1>2, <1>3, Zenon
<1>5. f \in Seq(Message) /\ DOMAIN f = 1 .. n
  BY <1>1, <1>4, PointwiseSeq
<1> QED BY <1>1, <1>4, <1>5, Zenon

(* It draws a canvas.                                                      *)
LEMMA ToldType ==
  ASSUME NEW cs \in Canvas, NEW s \in Seq(Mark), NEW n \in 0 .. Len(s)
  PROVE  Told(cs, s, n) \in Canvas
<1>1. LogMsgs(s) \in Seq(Message) /\ DOMAIN LogMsgs(s) = 1 .. Len(s) /\ Len(s) \in Nat
  BY LogIs
<1>2. LogDraws(s, 1, n) \subseteq 1 .. Len(s)
  BY <1>1 DEF LogDraws
<1> DEFINE D == LogDraws(s, 1, n)
           f == LogMsgs(s)
<1>3. D \subseteq DOMAIN f /\ f \in Seq(Message)
  BY <1>1, <1>2, Zenon
<1> HIDE DEF D, f
<1>4. Draw(cs, f, D) \in Canvas
  BY <1>3, DrawType
<1> QED BY <1>4, Zenon DEF Told, D, f

(* One log after another.                                                  *)
LEMMA ToldConcat ==
  ASSUME NEW cs \in Canvas, NEW a \in Seq(Mark), NEW b \in Seq(Mark), NEW n \in 0 .. Len(b)
  PROVE  /\ a \o b \in Seq(Mark) /\ Len(a \o b) = Len(a) + Len(b)
         /\ Told(cs, a \o b, Len(a) + n) = Told(Told(cs, a, Len(a)), b, n)
<1> DEFINE h == a \o b
           p == Len(a)
           q == Len(b)
           D == LogDraws(a, 1, p)
           F == LogDraws(h, 1, p)
           E == LogDraws(h, p + 1, p + n)
           G == LogDraws(b, 1, n)
           w == LogDraws(h, 1, p + n)
           am == LogMsgs(a)
           bm == LogMsgs(b)
           hm == LogMsgs(h)
           y == Draw(cs, am, D)
<1>1. /\ h \in Seq(Mark) /\ Len(h) = p + q /\ p \in Nat /\ q \in Nat
      /\ \A i \in 1 .. p : h[i] = a[i]
      /\ \A i \in 1 .. q : h[i + p] = b[i]
  BY ConcatIs
<1>2. /\ am \in Seq(Message) /\ DOMAIN am = 1 .. p /\ \A i \in 1 .. p : am[i] = a[i].msg
      /\ bm \in Seq(Message) /\ DOMAIN bm = 1 .. q /\ \A i \in 1 .. q : bm[i] = b[i].msg
      /\ hm \in Seq(Message) /\ DOMAIN hm = 1 .. p + q
      /\ \A i \in 1 .. p + q : hm[i] = h[i].msg
  <2> HIDE DEF h
  <2>1. hm \in Seq(Message) /\ DOMAIN hm = 1 .. Len(h) /\ \A i \in 1 .. Len(h) : hm[i] = h[i].msg
    BY <1>1, LogIs
  <2> QED BY <1>1, <2>1, LogIs
<1> HIDE DEF h, am, bm, hm
<1>3. /\ \A i : i \in D <=> i \in 1 .. p /\ DoneDraw(a[i])
      /\ \A i : i \in F <=> i \in 1 .. p /\ DoneDraw(h[i])
      /\ \A i : i \in E <=> i \in p + 1 .. p + n /\ DoneDraw(h[i])
      /\ \A i : i \in G <=> i \in 1 .. n /\ DoneDraw(b[i])
      /\ \A i : i \in w <=> i \in 1 .. p + n /\ DoneDraw(h[i])
  BY Zenon DEF LogDraws
<1> HIDE DEF p, q, D, E, F, G, w
<1>4. n \in Nat /\ n <= q
  BY <1>1 DEF q
<1>5. /\ D \subseteq DOMAIN am /\ F \subseteq DOMAIN hm /\ E \subseteq DOMAIN hm
      /\ G \subseteq DOMAIN bm
  BY <1>1, <1>2, <1>3, <1>4
<1>a. am \in Seq(Message) /\ bm \in Seq(Message) /\ hm \in Seq(Message)
  BY <1>2
<1>6. Draw(cs, am, D) = Draw(cs, hm, F)
  <2> DEFINE k == 0
  <2>1. k \in Int /\ \A i \in Int : i + k = i
    OBVIOUS
  <2>2. D \subseteq Int
    BY <1>1, <1>3
  <2>3. \A i \in Int : i \in D <=> i \in F
    BY <1>1, <1>3, Zenon
  <2>4. ASSUME NEW i \in D PROVE hm[i] = am[i]
    <3>1. i \in 1 .. p
      BY <1>3
    <3>2. i \in 1 .. p + q
      BY <1>1, <3>1
    <3> QED BY <1>1, <1>2, <3>1, <3>2
  <2>6. \A i \in Int : i \in D <=> i + k \in F
    BY <2>1, <2>3
  <2>7. \A i \in D : hm[i + k] = am[i]
    BY <2>1, <2>2, <2>4
  <2> HIDE DEF k
  <2>5. Shifted(am, D, hm, F, k)
    BY <2>6, <2>7, Zenon DEF Shifted
  <2>8. /\ k \in Int /\ am \in Seq(Message) /\ hm \in Seq(Message)
        /\ D \subseteq DOMAIN am /\ F \subseteq DOMAIN hm
    BY <1>2, <1>5, <2>1, Zenon
  <2> QED BY <2>8, <2>5, DrawAlike
<1>7. y \in Canvas
  BY <1>2, <1>5, DrawType
<1>8. Draw(y, bm, G) = Draw(y, hm, E)
  <2>1. G \subseteq Int /\ p \in Int
    BY <1>1, <1>3
  <2>2. ASSUME NEW i \in Int PROVE i \in G <=> i + p \in E
    <3>1. i \in 1 .. n <=> i + p \in p + 1 .. p + n
      BY <1>1, <1>4
    <3>2. i \in 1 .. n => h[i + p] = b[i]
      BY <1>1, <1>4
    <3> QED BY <1>3, <3>1, <3>2, Zenon
  <2>3. ASSUME NEW i \in G PROVE hm[i + p] = bm[i]
    <3>1. i \in 1 .. n
      BY <1>3
    <3>2. i + p \in 1 .. p + q /\ i \in 1 .. q
      BY <1>1, <1>4, <3>1
    <3> QED BY <1>1, <1>2, <3>2
  <2>4. Shifted(bm, G, hm, E, p)
    BY <2>2, <2>3, Zenon DEF Shifted
  <2>5. p \in Int
    BY <2>1
  <2> QED BY <1>a, <1>5, <1>7, <2>5, <2>4, DrawAlike
<1>9. Draw(Draw(cs, hm, F), hm, E) = Draw(cs, hm, F \cup E)
  <2>1. \A i \in F, j \in E : i < j
    BY <1>1, <1>3, <1>4
  <2>2. hm \in Seq(Message) /\ F \subseteq DOMAIN hm /\ E \subseteq DOMAIN hm
    BY <1>2, <1>5, Zenon
  <2> QED BY <2>1, <2>2, DrawTwice
<1>10. F \cup E = w
  <2>1. \A i : i \in 1 .. p + n <=> i \in 1 .. p \/ i \in p + 1 .. p + n
    BY <1>1, <1>4
  <2>2. \A i : i \in F \cup E <=> i \in w
    BY <1>3, <2>1, Zenon
  <2> QED BY <2>2
<1>11. Draw(cs, hm, w) = Draw(y, bm, G)
  BY <1>6, <1>8, <1>9, <1>10, Zenon
<1> QED BY <1>1, <1>11, Zenon DEF Told, h, p, q, D, G, w, am, bm, hm

(* The log of a history.                                                   *)
LEMMA ToldStrip ==
  ASSUME NEW cs \in Canvas, NEW es \in Seq(SoundEntry)
  PROVE  /\ Strip(es) \in Seq(Mark) /\ Len(Strip(es)) = Len(es)
         /\ \A i \in 0 .. Len(es) : Told(cs, Strip(es), i) = ReplayedTo(es, 0, cs, i)
<1> DEFINE s == Strip(es)
           n == Len(es)
<1>1. n \in Nat /\ DOMAIN es = 1 .. n /\ \A i \in 1 .. n : es[i] \in SoundEntry
  BY LenProperties, ElementOfSeq
<1>2. s \in [1 .. n -> Mark]
  <2>1. \A i \in 1 .. n : [undo |-> es[i].undo, msg |-> es[i].msg] \in Mark
    BY <1>1 DEF SoundEntry, Entry, Mark
  <2>2. s = [i \in 1 .. n |-> [undo |-> es[i].undo, msg |-> es[i].msg]]
    BY <1>1, Zenon DEF Strip
  <2> QED BY <2>1, <2>2, Zenon
<1>3. s \in Seq(Mark) /\ Len(s) = n /\ DOMAIN s = 1 .. n
  BY <1>1, <1>2, PointwiseSeq
<1>4. \A i \in 1 .. n : s[i].undo = es[i].undo /\ s[i].msg = es[i].msg
  BY <1>1, Zenon DEF Strip
<1> HIDE DEF s
<1>5. LogMsgs(s) = Msgs(es)
  BY <1>1, <1>3, <1>4, Zenon DEF LogMsgs, Msgs
<1>6. ASSUME NEW i \in 0 .. n PROVE Told(cs, s, i) = ReplayedTo(es, 0, cs, i)
  <2>1. 0 \in 0 .. Len(es) /\ i \in 0 .. Len(es)
    BY <1>1
  <2>2. ReplayedTo(es, 0, cs, i) = Draw(cs, Msgs(es), DrawsIn(es, 0, i))
    BY <2>1, ReplayIs
  <2>3. LogDraws(s, 1, i) = DrawsIn(es, 0, i)
    <3>1. 0 + 1 = 1 /\ \A j \in 1 .. i : j \in 1 .. n
      BY <1>1
    <3>2. \A j \in 1 .. i : DoneDraw(s[j]) <=> DoneDraw(es[j])
      BY <1>4, <3>1, Zenon DEF DoneDraw
    <3> QED BY <3>1, <3>2 DEF LogDraws, DrawsIn
  <2> QED BY <1>5, <2>2, <2>3, Zenon DEF Told
<1> QED BY <1>3, <1>6, Zenon DEF s, n

(* The log of the first entries of a history.                              *)
LEMMA ToldPart ==
  ASSUME NEW cs \in Canvas, NEW es \in Seq(SoundEntry), NEW k \in 0 .. Len(es)
  PROVE  LET s == Strip(SubSeq(es, 1, k))
         IN s \in Seq(Mark) /\ Len(s) = k /\ Told(cs, s, k) = ReplayedTo(es, 0, cs, k)
<1> DEFINE fs == SubSeq(es, 1, k)
<1>1. Len(es) \in Nat /\ k \in Nat /\ k <= Len(es)
  BY LenProperties
<1>2. fs \in Seq(SoundEntry) /\ Len(fs) = k /\ \A i \in 1 .. k : fs[i] = es[i]
  <2>1. /\ 1 \in 1 .. Len(es) + 1 /\ k \in 1 - 1 .. Len(es)
    BY <1>1
  <2> QED BY <1>1, SubSeqProperties
<1> HIDE DEF fs
<1>3. /\ Strip(fs) \in Seq(Mark) /\ Len(Strip(fs)) = k
      /\ Told(cs, Strip(fs), k) = ReplayedTo(fs, 0, cs, k)
  <2>1. k \in 0 .. Len(fs)
    BY <1>1, <1>2
  <2> QED BY <1>2, <2>1, ToldStrip
<1>4. ReplayedTo(fs, 0, cs, k) = ReplayedTo(es, 0, cs, k)
  <2>1. 0 \in 0 .. Len(fs) /\ k \in 0 .. Len(fs) /\ 0 <= k
    BY <1>1, <1>2
  <2>2. \A j \in 0 + 1 .. k : SameDraw(fs[j], es[j])
    <3> SUFFICES ASSUME NEW j \in 0 + 1 .. k PROVE SameDraw(fs[j], es[j])
      OBVIOUS
    <3>1. fs[j] = es[j]
      BY <1>1, <1>2
    <3> QED BY <3>1, Zenon DEF SameDraw
  <2> QED BY <1>1, <1>2, <2>1, <2>2, ReplaySame
<1> QED BY <1>3, <1>4, Zenon DEF fs

----------------------------------------------------------------------------
(* The session's log and its history.                                      *)

(* The canvas before the first entry that the history still has.           *)
Start == Told(base, archive, Len(archive))

(* The log holds commands, and starts on a canvas.                         *)
LogTyped == archive \in Seq(Mark) /\ base \in Canvas

(* What the first commands of the log draw is what the history says.       *)
LEMMA TruthIs ==
  ASSUME LogTyped, Sound(ch)
  PROVE  /\ Start \in Canvas
         /\ \A i \in 0 .. Len(ch.entries) :
              TruthAt(Len(archive) + i) = ReplayedTo(ch.entries, 0, Start, i)
         /\ Truth = Whole(ch, Start)
<1> DEFINE es == ch.entries
           s == Strip(es)
<1>1. es \in Seq(SoundEntry) /\ Len(es) \in Nat
  BY HistoryHas
<1>2. Len(archive) \in 0 .. Len(archive) /\ Len(archive) \in Nat
  BY LenProperties DEF LogTyped
<1>3. Start \in Canvas
  BY <1>2, ToldType DEF LogTyped, Start
<1>4. s \in Seq(Mark) /\ Len(s) = Len(es)
  BY <1>1, <1>3, ToldStrip
<1>5. \A i : TruthAt(i) = Told(base, archive \o s, i)
  BY Zenon DEF TruthAt, Told, LogMsgs, LogDraws, DoneDraw, log
<1> HIDE DEF s
<1>6. ASSUME NEW i \in 0 .. Len(es)
      PROVE  TruthAt(Len(archive) + i) = ReplayedTo(es, 0, Start, i)
  <2>1. i \in 0 .. Len(s)
    BY <1>4
  <2>2. Told(base, archive \o s, Len(archive) + i) = Told(Start, s, i)
    BY <1>4, <2>1, ToldConcat DEF LogTyped, Start
  <2>3. Told(Start, s, i) = ReplayedTo(es, 0, Start, i)
    BY <1>1, <1>3, ToldStrip DEF s
  <2> QED BY <1>5, <2>2, <2>3, Zenon
<1>7. Truth = Whole(ch, Start)
  <2>1. Len(log) = Len(archive) + Len(es)
    <3>1. Len(archive \o s) = Len(archive) + Len(s)
      BY <1>4, ConcatIs DEF LogTyped
    <3> QED BY <1>4, <3>1, Zenon DEF log, s
  <2>2. Len(es) \in 0 .. Len(es)
    BY <1>1
  <2> QED BY <1>6, <2>1, <2>2, Zenon DEF Truth, Whole
<1> QED BY <1>3, <1>6, <1>7, Zenon

(* What truncation takes from the history.                                 *)
LEMMA ArchiveIs ==
  ASSUME LogTyped, Sound(ch), Archive, ch'.offset - ch.offset \in 0 .. Len(ch.entries)
  PROVE  LogTyped' /\ Start' = Truncated(ch, Start, ch')
<1> DEFINE k == ch'.offset - ch.offset
           s == Strip(SubSeq(ch.entries, 1, k))
<1>1. ch.entries \in Seq(SoundEntry) /\ k \in 0 .. Len(ch.entries)
  BY HistoryHas
<1>2. archive' = archive \o s /\ base' = base
  BY DEF Archive
<1>3. Start \in Canvas
  BY TruthIs
<1> DEFINE y == Start
<1>4. y \in Canvas /\ y = Told(base, archive, Len(archive))
  BY <1>3 DEF Start
<1> HIDE DEF k, y
<1>5. s \in Seq(Mark) /\ Len(s) = k /\ Told(y, s, k) = ReplayedTo(ch.entries, 0, y, k)
  BY <1>1, <1>4, ToldPart
<1> HIDE DEF s
<1>6. k \in 0 .. Len(s)
  BY <1>1, <1>5
<1>7. /\ archive \o s \in Seq(Mark) /\ Len(archive \o s) = Len(archive) + Len(s)
      /\ Told(base, archive \o s, Len(archive) + k) = Told(Told(base, archive, Len(archive)), s, k)
  BY <1>5, <1>6, ToldConcat DEF LogTyped
<1>8. Told(base', archive', Len(archive')) = ReplayedTo(ch.entries, 0, y, k)
  BY <1>2, <1>4, <1>5, <1>7, Zenon
<1> QED BY <1>2, <1>7, <1>8, Zenon DEF LogTyped, Start, Truncated, k, y

(* Nothing is truncated.                                                   *)
LEMMA ArchiveNothing ==
  ASSUME LogTyped, Sound(ch), Archive \/ UNCHANGED <<archive, base>>, ch'.offset = ch.offset
  PROVE  LogTyped' /\ Start' = Start
<1>1. CASE Archive
  <2> DEFINE zero == 0
  <2>1. /\ ch.entries \in Seq(SoundEntry) /\ ch.offset \in Nat /\ Len(ch.entries) \in Nat
    BY HistoryHas
  <2>2. ch'.offset - ch.offset = zero /\ zero \in 0 .. Len(ch.entries) /\ zero = 0
    BY <2>1
  <2> HIDE DEF zero
  <2>3. LogTyped' /\ Start' = Truncated(ch, Start, ch')
    BY <1>1, <2>2, ArchiveIs
  <2>4. Start \in Canvas
    BY TruthIs
  <2> DEFINE y == Start
  <2>5. y \in Canvas
    BY <2>4
  <2> HIDE DEF y
  <2>6. ReplayedTo(ch.entries, zero, y, zero) = y
    BY <2>1, <2>2, <2>5, ReplayNowhere
  <2> QED BY <2>2, <2>3, <2>6, Zenon DEF Truncated, y
<1>2. CASE UNCHANGED <<archive, base>>
  BY <1>2 DEF LogTyped, Start
<1> QED BY <1>1, <1>2

(* The log starts over.                                                    *)
LEMMA RebaseIs ==
  ASSUME NEW cs \in Canvas, Rebase(cs)
  PROVE  LogTyped' /\ Start' = cs
<1> DEFINE none == << >>
<1>1. none \in Seq(Mark) /\ Len(none) = 0
  OBVIOUS
<1>2. archive' = none /\ base' = cs
  BY DEF Rebase
<1>3. LogMsgs(none) \in Seq(Message)
  BY <1>1, LogIs
<1>4. LogDraws(none, 1, 0) = {}
  BY DEF LogDraws
<1> HIDE DEF none
<1>5. Told(cs, none, 0) = cs
  BY <1>3, <1>4, DrawNothing DEF Told
<1> QED BY <1>1, <1>2, <1>5 DEF LogTyped, Start

----------------------------------------------------------------------------
(* Undo points under way.                                                  *)

(* The commands under way, as if they were entries.                        *)
Wrapped(up) == [i \in DOMAIN up |-> [msg |-> up[i]]]

(* How many undo points are under way.                                     *)
UnderWay(up) == UndoPoints(Wrapped(up), 1, Len(up))

(* They are the ones that ForkIsShort counts.                              *)
LEMMA UnderWayIs ==
  ASSUME NEW up \in Seq(Message)
  PROVE  /\ UnderWay(up) \in Nat /\ UnderWay(up) <= Len(up)
         /\ UnderWay(up) = Cardinality({i \in DOMAIN up : up[i].type = "UndoPoint"})
         /\ \A i \in 1 .. Len(up) :
              is_undo_point_entry(Wrapped(up)[i]) <=> up[i].type = "UndoPoint"
<1> DEFINE S == {i \in 1 .. Len(up) : is_undo_point_entry(Wrapped(up)[i])}
           T == {i \in DOMAIN up : up[i].type = "UndoPoint"}
           n == Len(up)
<1>1. n \in Nat /\ DOMAIN up = 1 .. n
  BY LenProperties
<1>2. \A i \in 1 .. n : is_undo_point_entry(Wrapped(up)[i]) <=> up[i].type = "UndoPoint"
  <2> TAKE i \in 1 .. n
  <2>1. Wrapped(up)[i] = [msg |-> up[i]]
    BY <1>1, Zenon DEF Wrapped
  <2> QED BY <2>1 DEF is_undo_point_entry
<1>3. S = T
  BY <1>1, <1>2
<1>4. UnderWay(up) = Cardinality(T)
  BY <1>3, Zenon DEF UnderWay, UndoPoints
<1> HIDE DEF n, T
<1>5. UnderWay(up) \in Nat
  <2>1. 1 \in Int /\ Len(up) \in Int
    BY <1>1 DEF n
  <2> QED BY <2>1, UndoPointsType DEF UnderWay
<1>6. Cardinality(T) <= n
  <2>1. IsFiniteSet(1 .. n) /\ Cardinality(1 .. n) = n
    BY <1>1, FS_Interval
  <2>2. T \subseteq 1 .. n
    BY <1>1 DEF T
  <2> QED BY <2>1, <2>2, FS_Subset
<1> QED BY <1>2, <1>4, <1>5, <1>6, Zenon DEF n, T

(* Of two lists one after the other.                                       *)
LEMMA UnderWayMore ==
  ASSUME NEW f \in Seq(Message), NEW g \in Seq(Message)
  PROVE  UnderWay(f \o g) = UnderWay(f) + UnderWay(g)
<1> DEFINE h == f \o g
           p == Len(f)
           q == Len(g)
           wf == Wrapped(f)
           wg == Wrapped(g)
           wh == Wrapped(h)
<1>1. /\ h \in Seq(Message) /\ Len(h) = p + q /\ p \in Nat /\ q \in Nat
      /\ \A i \in 1 .. p : h[i] = f[i]
      /\ \A i \in 1 .. q : h[i + p] = g[i]
  BY ConcatIs
<1>2. /\ \A i \in 1 .. p : is_undo_point_entry(wf[i]) <=> f[i].type = "UndoPoint"
      /\ \A i \in 1 .. q : is_undo_point_entry(wg[i]) <=> g[i].type = "UndoPoint"
  BY UnderWayIs
<1>3. \A i \in 1 .. p + q : is_undo_point_entry(wh[i]) <=> h[i].type = "UndoPoint"
  <2> HIDE DEF h
  <2> QED BY <1>1, UnderWayIs
<1>4. UnderWay(h) = UndoPoints(wh, 1, p + q)
  BY <1>1, Zenon DEF UnderWay
<1>5. UnderWay(f) = UndoPoints(wf, 1, p) /\ UnderWay(g) = UndoPoints(wg, 1, q)
  BY Zenon DEF UnderWay
<1> HIDE DEF h, p, q, wf, wg, wh
<1>6. UndoPoints(wh, 1, p + q) = UndoPoints(wh, 1, p) + UndoPoints(wh, p + 1, p + q)
  <2>1. 1 \in Int /\ p \in Int /\ p + q \in Int /\ 1 <= p + 1 /\ p <= p + q
    BY <1>1
  <2> QED BY <2>1, UndoPointsSplit
<1>7. UndoPoints(wf, 1, p) = UndoPoints(wh, 1, p)
  <2> DEFINE zero == 0
             one == 1
  <2>1. \A i \in one .. p : is_undo_point_entry(wf[i]) <=> is_undo_point_entry(wh[i + zero])
    <3>1. \A i \in 1 .. p : i + 0 = i /\ i \in 1 .. p + q
      BY <1>1
    <3> QED BY <1>1, <1>2, <1>3, <3>1
  <2>2. one \in Int /\ p \in Int /\ zero \in Int /\ one + zero = 1 /\ p + zero = p /\ one = 1
    BY <1>1
  <2> HIDE DEF zero, one
  <2>3. SameUndoPoints(wf, wh, zero, one, p)
    BY <2>1, Zenon DEF SameUndoPoints
  <2>4. UndoPoints(wf, one, p) = UndoPoints(wh, one + zero, p + zero)
    BY <2>2, <2>3, UndoPointsAlike
  <2> QED BY <2>2, <2>4
<1>8. UndoPoints(wg, 1, q) = UndoPoints(wh, p + 1, p + q)
  <2> DEFINE one == 1
  <2>1. \A i \in one .. q : is_undo_point_entry(wg[i]) <=> is_undo_point_entry(wh[i + p])
    <3>1. \A i \in 1 .. q : i + p \in 1 .. p + q
      BY <1>1
    <3> QED BY <1>1, <1>2, <1>3, <3>1
  <2>2. one \in Int /\ p \in Int /\ q \in Int /\ one + p = p + 1 /\ q + p = p + q /\ one = 1
    BY <1>1
  <2> HIDE DEF one
  <2>3. SameUndoPoints(wg, wh, p, one, q)
    BY <2>1, Zenon DEF SameUndoPoints
  <2>4. UndoPoints(wg, one, q) = UndoPoints(wh, one + p, q + p)
    BY <2>2, <2>3, UndoPointsAlike
  <2> QED BY <2>2, <2>4
<1> QED BY <1>4, <1>5, <1>6, <1>7, <1>8 DEF h

(* Of one command.                                                         *)
LEMMA UnderWayOne ==
  ASSUME NEW m \in Message
  PROVE  UnderWay(<<m>>) = IF m.type = "UndoPoint" THEN 1 ELSE 0
<1>1. <<m>> \in Seq(Message) /\ Len(<<m>>) = 1 /\ <<m>>[1] = m
  OBVIOUS
<1>2. is_undo_point_entry(Wrapped(<<m>>)[1]) <=> m.type = "UndoPoint"
  <2> DEFINE s == <<m>>
  <2>1. s \in Seq(Message) /\ Len(s) = 1 /\ s[1] = m /\ 1 \in 1 .. 1
    BY <1>1
  <2> HIDE DEF s
  <2>2. is_undo_point_entry(Wrapped(s)[1]) <=> s[1].type = "UndoPoint"
    BY <2>1, UnderWayIs
  <2> QED BY <2>1, <2>2 DEF s
<1>3. UnderWay(<<m>>) = UndoPoints(Wrapped(<<m>>), 1, 1)
  BY <1>1, Zenon DEF UnderWay
<1> QED BY <1>2, <1>3, UndoPointsOne

(* When the first one comes back.                                          *)
LEMMA UnderWayTail ==
  ASSUME NEW up \in Seq(Message), up # << >>
  PROVE  /\ Head(up) \in Message /\ Tail(up) \in Seq(Message)
         /\ UnderWay(up) = UnderWay(Tail(up)) + (IF Head(up).type = "UndoPoint" THEN 1 ELSE 0)
<1> DEFINE m == Head(up)
           rest == Tail(up)
<1>1. m \in Message /\ rest \in Seq(Message) /\ up = <<m>> \o rest
  BY HeadTailProperties
<1>2. <<m>> \in Seq(Message)
  BY <1>1
<1>3. UnderWay(rest) \in Nat
  BY <1>1, UnderWayIs
<1> HIDE DEF m, rest
<1> DEFINE one == <<m>>
<1>4. UnderWay(one) = IF m.type = "UndoPoint" THEN 1 ELSE 0
  BY <1>1, UnderWayOne
<1>5. one \in Seq(Message) /\ up = one \o rest
  BY <1>1, <1>2
<1> HIDE DEF one
<1>6. UnderWay(up) = UnderWay(one) + UnderWay(rest)
  BY <1>1, <1>5, UnderWayMore
<1> QED BY <1>1, <1>3, <1>4, <1>6 DEF m, rest

----------------------------------------------------------------------------
(* Commands that the fork is ready for.                                    *)

(* Of two areas neither comes first.                                       *)
LEMMA ConcurrentEither ==
  ASSUME NEW a, NEW b
  PROVE  DP_affected_area_concurrent_with(a, b) <=> DP_affected_area_concurrent_with(b, a)
BY DEF DP_affected_area_concurrent_with, domains_conflict, affected_ids_differ

(* What the fork is compared with is no more lenient than the area that    *)
(* the code meant: where it says concurrent, the two areas are.            *)
StrayIsStrict ==
  \A s \in StrayAreas, l \in LocalAreas, r \in RemoteAreas :
    DP_affected_area_concurrent_with(s, l) => DP_affected_area_concurrent_with(r, l)

(* What a client sends, k commands into its session.                       *)
OwnCommand(m, k) ==
  /\ m \in OwnMessages
  /\ IsDraw(m) => m.area \in LocalAreas /\ m.n <= k

(* A number belongs to one drawing command.                                *)
Numbered(up) ==
  \A i \in 1 .. Len(up), j \in 1 .. Len(up) :
    IsDraw(up[i]) /\ IsDraw(up[j]) /\ up[i].n = up[j].n => up[i] = up[j]

(* A history c, the commands up that its client has sent, and the number k *)
(* of its last one.                                                        *)
Flying(c, up, k) ==
  /\ InFlight(c, up) /\ up \in Seq(OwnMessages) /\ Sound(c)
  /\ \A i \in 1 .. Len(up) : OwnCommand(up[i], k)
  /\ Numbered(up)

(* Every command in the fork is under way.                                 *)
LEMMA FlyingFork ==
  ASSUME NEW c, NEW up, NEW k, Flying(c, up, k)
  PROVE  /\ c.fork \in Seq(OwnMessages) /\ c.fork \in Seq(Message)
         /\ have_local_fork(c) => Head(c.fork).user = LocalUser
         /\ Len(c.fork) \in Nat /\ DOMAIN c.fork = 1 .. Len(c.fork)
         /\ \A i \in 1 .. Len(c.fork) : \E j \in 1 .. Len(up) : c.fork[i] = up[j]
<1>1. up \in Seq(OwnMessages) /\ InFlight(c, up) /\ c.fork \in Seq(Message)
  BY HistoryHas DEF Flying
<1>2. c.fork \in Seq(OwnMessages) /\ (have_local_fork(c) => Head(c.fork).user = LocalUser)
  BY <1>1, InFlightFork
<1>3. /\ Len(c.fork) \in Nat /\ Len(up) \in Nat /\ Len(c.fork) <= Len(up)
      /\ DOMAIN c.fork = 1 .. Len(c.fork)
      /\ \A i \in 1 .. Len(c.fork) : c.fork[i] = up[Len(up) - Len(c.fork) + i]
  BY <1>1, LenProperties DEF InFlight, SuffixOf
<1>4. \A i \in 1 .. Len(c.fork) : Len(up) - Len(c.fork) + i \in 1 .. Len(up)
  BY <1>3
<1> QED BY <1>1, <1>2, <1>3, <1>4

(* An own command that comes back finds itself in the fork.                *)
LEMMA ExpectedOwn ==
  ASSUME NEW c, NEW up, NEW k, Flying(c, up, k), up # << >>, NEW stray,
         have_local_fork(c) => SinceAfter(c, Head(up)) < c.limit
  PROVE  Expected(c, Head(up), stray)
<1> DEFINE m == Head(up)
<1>1. m = up[1] /\ m \in OwnMessages /\ Len(up) \in Nat /\ 1 \in 1 .. Len(up)
  BY HeadTailProperties, LenProperties, EmptySeq DEF Flying
<1>2. m.user = LocalUser /\ m.user # Nobody
  BY <1>1, HistoryAssumption, NobodyAssumption DEF HistoryAssumption, NobodyAssumption, OwnMessages
<1> HIDE DEF m
<1>3. ASSUME have_local_fork(c), IsDraw(m)
      PROVE  /\ m.user = Head(c.fork).user
             /\ match_message(m, Head(c.fork)) => m = Head(c.fork)
  <2> DEFINE h == Head(c.fork)
  <2>1. /\ c.fork \in Seq(OwnMessages) /\ h.user = LocalUser /\ Len(c.fork) \in Nat
        /\ \A i \in 1 .. Len(c.fork) : \E j \in 1 .. Len(up) : c.fork[i] = up[j]
    BY <1>3, FlyingFork
  <2>2. h = c.fork[1] /\ 1 \in 1 .. Len(c.fork)
    BY <1>3, <2>1, EmptySeq, HeadTailProperties DEF have_local_fork
  <2>3. PICK j \in 1 .. Len(up) : h = up[j]
    BY <2>1, <2>2, Zenon
  <2> HIDE DEF h
  <2>4. ASSUME match_message(m, h) PROVE m = h
    <3>1. IsDraw(h) /\ m.n = h.n
      BY <1>3, <2>4 DEF match_message, IsDraw
    <3>2. \A a \in 1 .. Len(up), b \in 1 .. Len(up) :
            IsDraw(up[a]) /\ IsDraw(up[b]) /\ up[a].n = up[b].n => up[a] = up[b]
      BY DEF Flying, Numbered
    <3> QED BY <1>1, <1>3, <2>3, <3>1, <3>2
  <2> QED BY <1>2, <2>1, <2>4 DEF h
<1> QED BY <1>2, <1>3, Zenon DEF Expected, m

(* A command of somebody else that the fork lets pass commutes with it.    *)
LEMMA ExpectedForeign ==
  ASSUME StrayIsStrict, NEW c, NEW up, NEW k, Flying(c, up, k), NEW stray \in StrayAreas,
         NEW m \in Message, m.user \in Others, IsDraw(m) => m.area \in RemoteAreas,
         have_local_fork(c) => SinceAfter(c, m) < c.limit
  PROVE  Expected(c, m, stray)
<1>1. m.user # LocalUser /\ m.user # Nobody
  BY NobodyAssumption DEF NobodyAssumption, Others
<1>2. ASSUME have_local_fork(c), IsDraw(m), fork_entries_concurrent_with(c, stray)
      PROVE  AllApart(c.fork, m)
  <2>1. /\ DOMAIN c.fork = 1 .. Len(c.fork)
        /\ \A i \in 1 .. Len(c.fork) : \E j \in 1 .. Len(up) : c.fork[i] = up[j]
    BY FlyingFork
  <2>2. ASSUME NEW i \in DrawsOf(c.fork) PROVE Apart(c.fork[i], m)
    <3>1. i \in DOMAIN c.fork /\ IsDraw(c.fork[i])
      BY DEF DrawsOf
    <3>2. c.fork[i].area \in LocalAreas
      BY <2>1, <3>1 DEF Flying, OwnCommand
    <3>3. DP_affected_area_concurrent_with(stray, c.fork[i].area)
      BY <1>2, <3>1, Zenon DEF fork_entries_concurrent_with
    <3>4. DP_affected_area_concurrent_with(m.area, c.fork[i].area)
      BY <1>2, <3>2, <3>3 DEF StrayIsStrict
    <3>5. DP_affected_area_concurrent_with(c.fork[i].area, m.area)
      BY <3>4, ConcurrentEither
    <3> QED BY <3>4, <3>5, Zenon DEF Apart, MustStayOrdered
  <2> QED BY <2>2, Zenon DEF AllApart
<1>3. have_local_fork(c) => m.user # Head(c.fork).user
  BY <1>1, FlyingFork
<1> QED BY <1>1, <1>2, <1>3, Zenon DEF Expected

----------------------------------------------------------------------------
(* The inductive invariant of the log, the history and what is under way.  *)

(* Every history can take the command: no redo, no mark for the next one.  *)
Harmless(m) ==
  /\ m.type # "Redo"
  /\ m.type = "UndoPoint" => m.user # Nobody
  /\ IsUndo(m) => "Undo" \in Features /\ get_undo_context_id(m) # Nobody

(* Every command that is under way is.                                     *)
AllHarmless(up) == \A i \in 1 .. Len(up) : Harmless(up[i])

(* The history is right, as seen from what the log says lies before it.    *)
LogKept == LogTyped /\ Kept(ch, Start) /\ Right(ch, Start) /\ ch.markDone = TRUE

(* What is under way are commands of the client, each with its number.     *)
Sending(up, k) == (\A i \in 1 .. Len(up) : OwnCommand(up[i], k)) /\ Numbered(up)

(* No undo point that is under way takes the history past its limit.       *)
Short(c, up) == Since(c) + UnderWay(up) < c.limit /\ Len(up) <= MaxUplink

(* The limit is the one of a new history, unless it may be changed.        *)
LimitKept(c) == "UndoDepth" \notin Features => c.limit = UndoDepthDefault

(* The inductive invariant.                                                *)
SavedInv ==
  /\ FlightInv
  /\ LogKept
  /\ AllHarmless(uplink)
  /\ connected => Sending(uplink, issued) /\ Short(ch, uplink)
  /\ LimitKept(ch)

(* The sessions that the theorems are about: nothing is redone or sent     *)
(* already undone, and the server answers the commands of a fork before    *)
(* undo points bring truncation past the start of it, also where the undo  *)
(* limit may be lowered.                                                   *)
ShortForks ==
  /\ {"Redo", "Undone", "LongFork"} \cap Features = {}
  /\ "UndoDepth" \in Features => MaxUplink < UndoDepthMin

(* What a history whose place is kept draws.                               *)
LEMMA TruthThen ==
  (LogTyped /\ Sound(ch))' => (Start \in Canvas /\ Truth = Whole(ch, Start))'
<1>1. LogTyped /\ Sound(ch) => Start \in Canvas /\ Truth = Whole(ch, Start)
  BY TruthIs
<1> QED BY <1>1, PTL

(* One command fewer.                                                      *)
LEMMA SendingTail ==
  ASSUME NEW up \in Seq(Message), up # << >>, NEW k
  PROVE  /\ Head(up) = up[1] /\ 1 \in 1 .. Len(up)
         /\ Sending(up, k) => Sending(Tail(up), k)
         /\ AllHarmless(up) => Harmless(Head(up)) /\ AllHarmless(Tail(up))
<1> DEFINE n == Len(up)
           rest == Tail(up)
<1>1. /\ n \in Nat /\ 1 \in 1 .. n /\ Head(up) = up[1] /\ Len(rest) = n - 1
      /\ \A i \in 1 .. n - 1 : rest[i] = up[i + 1] /\ i + 1 \in 1 .. n
  BY HeadTailProperties, LenProperties, EmptySeq
<1> HIDE DEF n, rest
<1>2. ASSUME Sending(up, k) PROVE Sending(rest, k)
  <2>1. \A i \in 1 .. n : OwnCommand(up[i], k)
    BY <1>2 DEF Sending, n
  <2>2. \A i \in 1 .. n, j \in 1 .. n :
          IsDraw(up[i]) /\ IsDraw(up[j]) /\ up[i].n = up[j].n => up[i] = up[j]
    BY <1>2 DEF Sending, Numbered, n
  <2>3. \A i \in 1 .. Len(rest) : OwnCommand(rest[i], k)
    BY <1>1, <2>1
  <2>4. \A i \in 1 .. Len(rest), j \in 1 .. Len(rest) :
          IsDraw(rest[i]) /\ IsDraw(rest[j]) /\ rest[i].n = rest[j].n => rest[i] = rest[j]
    BY <1>1, <2>2
  <2> QED BY <2>3, <2>4, Zenon DEF Sending, Numbered
<1>3. ASSUME AllHarmless(up) PROVE Harmless(Head(up)) /\ AllHarmless(rest)
  <2>1. \A i \in 1 .. n : Harmless(up[i])
    BY <1>3 DEF AllHarmless, n
  <2>2. Harmless(Head(up))
    BY <1>1, <2>1
  <2>3. \A i \in 1 .. Len(rest) : Harmless(rest[i])
    BY <1>1, <2>1
  <2> QED BY <2>2, <2>3, Zenon DEF AllHarmless
<1> QED BY <1>1, <1>2, <1>3, Zenon DEF n, rest

(* One command more.                                                       *)
LEMMA SendingMore ==
  ASSUME NEW k \in Nat, NEW up \in Seq(Message), Sending(up, k), AllHarmless(up),
         NEW m \in OwnMessages, Harmless(m),
         IsDraw(m) => m.area \in LocalAreas /\ m.n = k + 1
  PROVE  /\ up \o <<m>> \in Seq(Message)
         /\ Sending(up \o <<m>>, k + 1) /\ AllHarmless(up \o <<m>>)
<1> DEFINE more == up \o <<m>>
           n == Len(up)
<1>1. /\ n \in Nat /\ more \in Seq(Message) /\ Len(more) = n + 1 /\ more[n + 1] = m
      /\ \A i \in 1 .. n : more[i] = up[i] /\ up[i] \in Message
  <2>1. m \in Message
    BY DEF OwnMessages
  <2>2. Append(up, m) = more
    OBVIOUS
  <2> QED BY <2>1, <2>2, AppendProperties, LenProperties, ElementOfSeq
<1>2. /\ \A i \in 1 .. n : OwnCommand(up[i], k)
      /\ \A i \in 1 .. n, j \in 1 .. n :
           IsDraw(up[i]) /\ IsDraw(up[j]) /\ up[i].n = up[j].n => up[i] = up[j]
  BY DEF Sending, Numbered, n
<1> HIDE DEF more, n
<1>3. \A i \in 1 .. n : IsDraw(up[i]) => up[i].n \in Nat /\ up[i].n <= k
  BY <1>1, <1>2 DEF OwnCommand, Message
<1>4. ASSUME NEW i \in 1 .. n + 1 PROVE OwnCommand(more[i], k + 1) /\ Harmless(more[i])
  <2>1. CASE i = n + 1
    BY <1>1, <2>1 DEF OwnCommand
  <2>2. CASE i \in 1 .. n
    <3>1. OwnCommand(up[i], k) /\ (IsDraw(up[i]) => up[i].n <= k + 1) /\ Harmless(up[i])
      BY <1>2, <1>3, <2>2 DEF AllHarmless, n
    <3> QED BY <1>1, <2>2, <3>1 DEF OwnCommand
  <2> QED BY <1>1, <2>1, <2>2
<1>5. ASSUME NEW i \in 1 .. n + 1, NEW j \in 1 .. n + 1, IsDraw(more[i]), IsDraw(more[j]),
             more[i].n = more[j].n
      PROVE  more[i] = more[j]
  <2>1. CASE i = n + 1 /\ j = n + 1
    BY <2>1
  <2>2. CASE i \in 1 .. n /\ j \in 1 .. n
    BY <1>1, <1>2, <1>5, <2>2
  <2>3. CASE i = n + 1 /\ j \in 1 .. n
    BY <1>1, <1>3, <1>5, <2>3
  <2>4. CASE i \in 1 .. n /\ j = n + 1
    BY <1>1, <1>3, <1>5, <2>4
  <2> QED BY <1>1, <2>1, <2>2, <2>3, <2>4
<1> QED BY <1>1, <1>4, <1>5, Zenon DEF Sending, Numbered, AllHarmless, more

(* What the invariant says of the history.                                 *)
LEMMA SavedTypes ==
  ASSUME SavedInv
  PROVE  /\ Sound(ch) /\ HasFork(ch) /\ ch.limit \in Nat /\ Since(ch) \in Nat
         /\ ch.fork \in Seq(Message) /\ ch.offset \in Nat
         /\ uplink \in Seq(Message) /\ Len(uplink) \in Nat /\ UnderWay(uplink) \in Nat
         /\ issued \in Nat /\ foreign \in Nat
         /\ connected => uplink \in Seq(OwnMessages) /\ Flying(ch, uplink, issued)
         /\ ~connected => ch.fork = << >>
<1>1. Sound(ch) /\ Kept(ch, Start) /\ uplink \in Seq(Message) /\ issued \in Nat /\ foreign \in Nat
  BY DEF SavedInv, LogKept, Kept, FlightInv, SyncInv
<1>2. HasFork(ch) /\ ch.fork \in Seq(Message)
  BY FlightTypes DEF SavedInv, FlightInv
<1>3. /\ ch.limit \in Nat /\ ch.entries \in Seq(SoundEntry) /\ ch.offset \in Nat
      /\ fork_start_index(ch) \in Int
  BY <1>1, HistoryHas
<1>4. Since(ch) \in Nat
  <2>1. fork_start_index(ch) + 1 \in Int
    BY <1>3
  <2> QED BY <1>3, <2>1, DepthType DEF Since
<1>5. UnderWay(uplink) \in Nat /\ Len(uplink) \in Nat
  BY <1>1, UnderWayIs, LenProperties
<1>6. connected => uplink \in Seq(OwnMessages) /\ Flying(ch, uplink, issued)
  BY <1>1 DEF SavedInv, FlightInv, Sending, Flying
<1> QED BY <1>1, <1>2, <1>3, <1>4, <1>5, <1>6 DEF SavedInv, FlightInv

(* What ForkIsShort asks.                                                  *)
LEMMA ForkIsShortSays ==
  ASSUME SavedInv, ShortForks, ForkIsShort
  PROVE  Since(ch) + UnderWay(uplink) + 1 < ch.limit
<1>1. uplink \in Seq(Message)
  BY SavedTypes
<1>2. UnderWay(uplink) = Cardinality({i \in DOMAIN uplink : uplink[i].type = "UndoPoint"})
  BY <1>1, UnderWayIs
<1>3. Since(ch) = IF have_local_fork(ch)
                  THEN UndoPoints(ch.entries, fork_start_index(ch) + 1, Len(ch.entries)) ELSE 0
  BY Zenon DEF Since, Depth
<1>4. "LongFork" \notin Features
  BY DEF ShortForks
<1> QED BY <1>2, <1>3, <1>4 DEF ForkIsShort

----------------------------------------------------------------------------
(* What the actions leave of the log and the history.                      *)

(* The log is as it was, and so is what the history says of it.            *)
LEMMA UntouchedLog ==
  ASSUME LogKept, Untouched(ch, Start, ch'), Archive \/ UNCHANGED <<archive, base>>,
         ch'.markDone = ch.markDone
  PROVE  LogKept' /\ Truth' = Truth
<1>1. LogTyped /\ Sound(ch) /\ Kept(ch, Start)
  BY DEF LogKept, Kept
<1>2. /\ Kept(ch', Start) /\ Right(ch', Start) /\ Whole(ch', Start) = Whole(ch, Start)
      /\ ch'.offset = ch.offset
  BY DEF Untouched
<1>3. LogTyped' /\ Start' = Start
  BY <1>1, <1>2, ArchiveNothing
<1>4. Sound(ch')
  BY <1>2 DEF Kept
<1>5. Truth' = Whole(ch', Start')
  BY <1>3, <1>4, TruthThen
<1>6. Truth = Whole(ch, Start)
  BY <1>1, TruthIs
<1>7. Kept(ch', Start') /\ Right(ch', Start') /\ Truth' = Truth
  BY <1>2, <1>3, <1>5, <1>6
<1> QED BY <1>3, <1>7 DEF LogKept

(* The log starts over.                                                    *)
LEMMA StartedLog ==
  ASSUME NEW cs \in Canvas, StartsOver(ch', cs), Rebase(cs)
  PROVE  LogKept' /\ Truth' = cs /\ Since(ch') = 0
<1>1. /\ Kept(ch', cs) /\ Right(ch', cs) /\ Whole(ch', cs) = cs /\ ch'.markDone = TRUE
      /\ Since(ch') = 0
  BY DEF StartsOver
<1>2. LogTyped' /\ Start' = cs
  BY RebaseIs
<1>3. Sound(ch')
  BY <1>1 DEF Kept
<1>4. Truth' = Whole(ch', Start')
  BY <1>2, <1>3, TruthThen
<1>5. Kept(ch', Start') /\ Right(ch', Start') /\ Truth' = cs
  BY <1>1, <1>2, <1>4
<1> QED BY <1>1, <1>2, <1>5 DEF LogKept

(* A command from the server.                                              *)
LEMMA DeliveredLog ==
  ASSUME LogKept, NEW m \in Message, Harmless(m), Deliver(m),
         \A stray \in StrayAreas : Expected(ch, m, stray)
  PROVE  /\ LogKept' /\ ch'.limit = ch.limit
         /\ Since(ch') \in {0, Since(ch), SinceAfter(ch, m)}
         /\ ~IsUndo(m) => Truth' = DrawnAfter(Truth, m)
<1>1. LogTyped /\ Sound(ch) /\ Kept(ch, Start) /\ Right(ch, Start) /\ ch.markDone = TRUE
  BY DEF LogKept, Kept
<1>2. PICK stray \in StrayAreas : ch' = DP_canvas_history_handle(ch, m, drawing, stray)
  BY DEF Deliver, Handle
<1>3. m.type # "Redo" /\ ~(IsUndo(m) /\ get_undo_context_id(m) = Nobody)
  BY DEF Harmless
<1>4. Expected(ch, m, stray)
  BY <1>2
<1>5. Advanced(ch, Start, ch', m)
  BY <1>1, <1>2, <1>3, <1>4, HandleKept
<1>6. ch'.markDone = TRUE
  <2>1. HasFork(ch)
    BY <1>1 DEF Sound, SoundHistory, HasFork
  <2>2. Acknowledged(ch, ch', m)
    BY <1>1, <1>2, <1>3, <2>1, HandleFork
  <2> QED BY <1>1, <2>2 DEF Acknowledged
<1>7. ch'.offset - ch.offset \in 0 .. Len(ch.entries)
  BY <1>5, Zenon DEF Advanced
<1>8. LogTyped' /\ Start' = Truncated(ch, Start, ch')
  BY <1>1, <1>7, ArchiveIs DEF Deliver
<1>9. Kept(ch', Start') /\ Right(ch', Start')
  BY <1>5, <1>8, Zenon DEF Advanced
<1>10. Sound(ch')
  BY <1>9 DEF Kept
<1>11. Truth' = Whole(ch', Start') /\ Truth = Whole(ch, Start)
  BY <1>1, <1>8, <1>10, TruthThen, TruthIs
<1>12. ~IsUndo(m) => Truth' = DrawnAfter(Truth, m)
  BY <1>5, <1>8, <1>11, Zenon DEF Advanced
<1>13. ch'.limit = ch.limit /\ Since(ch') \in {0, Since(ch), SinceAfter(ch, m)}
  BY <1>5, Zenon DEF Advanced
<1> QED BY <1>6, <1>8, <1>9, <1>12, <1>13 DEF LogKept

----------------------------------------------------------------------------
(* Local commands.                                                         *)

(* A local command other than dabs.                                        *)
LEMMA LocalSaved ==
  ASSUME SavedInv, FlightInv', ShortForks, NEW m \in OwnMessages, Harmless(m),
         IsDraw(m) => m.area \in LocalAreas /\ m.n = issued + 1,
         m.type = "UndoPoint" => ForkIsShort, HandleLocal(m), Issue(<<m>>)
  PROVE  SavedInv' /\ Truth' = Truth
<1>1. m \in Message /\ <<m>> \in Seq(Message) /\ Len(<<m>>) = 1
  BY DEF OwnMessages
<1>2. /\ connected /\ connected' /\ issued' = issued + 1 /\ uplink' = uplink \o <<m>>
      /\ Len(uplink) + 1 <= MaxUplink /\ UNCHANGED <<archive, base>>
  BY <1>1 DEF Issue
<1>3. /\ uplink \in Seq(Message) /\ UnderWay(uplink) \in Nat /\ Since(ch) \in Nat /\ issued \in Nat
      /\ HasFork(ch) /\ ch.fork \in Seq(Message) /\ ch.limit \in Nat /\ Len(uplink) \in Nat
  BY SavedTypes
<1>4. LogKept /\ Kept(ch, Start) /\ Right(ch, Start)
  BY DEF SavedInv, LogKept
<1>5. ch' = DP_canvas_history_handle_local(ch, m)
  BY DEF HandleLocal
<1>6. Untouched(ch, Start, ch')
  BY <1>1, <1>4, <1>5, HandleLocalKept
<1>7. ch'.markDone = ch.markDone
  <2>1. ForkGrows(ch, ch', <<m>>)
    BY <1>1, <1>3, <1>5, HandleLocalFork
  <2> QED BY <2>1 DEF ForkGrows
<1>8. LogKept' /\ Truth' = Truth
  BY <1>2, <1>4, <1>6, <1>7, UntouchedLog
<1>9. Sending(uplink', issued') /\ AllHarmless(uplink')
  BY <1>2, <1>3, SendingMore DEF SavedInv
<1>10. Short(ch', uplink')
  <2>1. UnderWay(uplink') = UnderWay(uplink) + (IF m.type = "UndoPoint" THEN 1 ELSE 0)
    BY <1>1, <1>2, <1>3, UnderWayMore, UnderWayOne
  <2>2. Len(uplink') = Len(uplink) + 1
    BY <1>1, <1>2, <1>3, ConcatIs
  <2>3. Since(ch') \in {0, Since(ch)} /\ ch'.limit = ch.limit
    BY <1>6 DEF Untouched
  <2>4. Since(ch) + UnderWay(uplink) < ch.limit
    BY <1>2 DEF SavedInv, Short
  <2>5. m.type = "UndoPoint" => Since(ch) + UnderWay(uplink) + 1 < ch.limit
    BY ForkIsShortSays
  <2> QED BY <1>2, <1>3, <2>1, <2>2, <2>3, <2>4, <2>5 DEF Short
<1>11. LimitKept(ch')
  BY <1>6 DEF SavedInv, LimitKept, Untouched
<1> QED BY <1>2, <1>8, <1>9, <1>10, <1>11 DEF SavedInv

(* Local dabs.                                                             *)
LEMMA LocalDabsSaved ==
  ASSUME SavedInv, FlightInv', ShortForks, LocalDabs PROVE SavedInv' /\ Truth' = Truth
<1>1. PICK a1 \in LocalAreas, a2 \in LocalAreas :
        LET ms == <<DrawBy(LocalUser, issued + 1, a1), DrawBy(LocalUser, issued + 2, a2)>>
        IN HandleLocalMultidab(ms) /\ Issue(ms)
  BY DEF LocalDabs
<1> DEFINE x == DrawBy(LocalUser, issued + 1, a1)
           y == DrawBy(LocalUser, issued + 2, a2)
           ms == <<x, y>>
<1>2. /\ uplink \in Seq(Message) /\ UnderWay(uplink) \in Nat /\ Since(ch) \in Nat /\ issued \in Nat
      /\ HasFork(ch) /\ ch.fork \in Seq(Message) /\ ch.limit \in Nat /\ Len(uplink) \in Nat
  BY SavedTypes
<1>3. /\ x \in OwnMessages /\ IsDraw(x) /\ x.area \in LocalAreas /\ x.n = issued + 1 /\ Harmless(x)
      /\ y \in OwnMessages /\ IsDraw(y) /\ y.area \in LocalAreas /\ y.n = issued + 2 /\ Harmless(y)
  <2>1. a1 \in Area /\ a2 \in Area /\ issued + 1 \in Nat /\ issued + 2 \in Nat
    BY <1>2, SyncAssumption DEF SyncAssumption
  <2>2. x \in Message /\ IsDraw(x) /\ y \in Message /\ IsDraw(y)
    BY <2>1, DrawByType, HistoryAssumption DEF HistoryAssumption
  <2>3. /\ x.user = LocalUser /\ x.n = issued + 1 /\ x.area = a1 /\ x.type = "Draw"
        /\ y.user = LocalUser /\ y.n = issued + 2 /\ y.area = a2 /\ y.type = "Draw"
    BY DEF DrawBy
  <2> QED BY <2>2, <2>3 DEF OwnMessages, Harmless, IsUndo
<1>4. HandleLocalMultidab(ms) /\ Issue(ms)
  BY <1>1
<1> HIDE DEF x, y
<1>5. /\ ms \in Seq(Message) /\ Len(ms) = 2 /\ DrawsOf(ms) = DOMAIN ms
      /\ ms = <<x>> \o <<y>> /\ <<x>> \in Seq(Message) /\ <<y>> \in Seq(Message)
      /\ x \in Message /\ y \in Message
  <2>1. x \in Message /\ y \in Message
    BY <1>3 DEF OwnMessages
  <2>2. ms \in Seq(Message) /\ Len(ms) = 2 /\ DOMAIN ms = 1 .. 2 /\ ms[1] = x /\ ms[2] = y
    BY <2>1
  <2>3. DrawsOf(ms) = DOMAIN ms
    BY <1>3, <2>2 DEF DrawsOf
  <2>4. ms = <<x>> \o <<y>>
    BY <2>1, PairIs, Zenon
  <2>5. <<x>> \in Seq(Message) /\ <<y>> \in Seq(Message)
    BY <2>1
  <2> QED BY <2>1, <2>2, <2>3, <2>4, <2>5, Zenon
<1> DEFINE ux == uplink \o <<x>>
           uy == ux \o <<y>>
<1>6. /\ connected /\ connected' /\ issued' = issued + 2 /\ uplink' = uplink \o ms
      /\ Len(uplink) + 2 <= MaxUplink /\ UNCHANGED <<archive, base>>
  BY <1>4, <1>5 DEF Issue
<1>7. uplink' = uy
  BY <1>2, <1>5, <1>6, ConcatAssociative
<1>8. LogKept /\ Kept(ch, Start) /\ Right(ch, Start)
  BY DEF SavedInv, LogKept
<1>9. ch' = DP_canvas_history_handle_local_multidab_dec(ch, ms)
  BY <1>4 DEF HandleLocalMultidab
<1>10. Untouched(ch, Start, ch')
  BY <1>5, <1>8, <1>9, HandleLocalMultidabKept
<1>11. ch'.markDone = ch.markDone
  <2>1. ForkGrows(ch, ch', ms)
    BY <1>2, <1>9, HandleLocalMultidabFork
  <2> QED BY <2>1 DEF ForkGrows
<1>12. LogKept' /\ Truth' = Truth
  BY <1>6, <1>8, <1>10, <1>11, UntouchedLog
<1>13. Sending(ux, issued + 1) /\ AllHarmless(ux) /\ ux \in Seq(Message)
  <2>1. Sending(uplink, issued) /\ AllHarmless(uplink)
    BY <1>6 DEF SavedInv
  <2> QED BY <1>2, <1>3, <2>1, SendingMore
<1>14. UnderWay(ux) = UnderWay(uplink)
  <2>1. UnderWay(<<x>>) = 0
    BY <1>3, <1>5, UnderWayOne DEF IsDraw
  <2> DEFINE one == <<x>>
  <2>2. one \in Seq(Message) /\ UnderWay(one) = 0
    BY <1>5, <2>1
  <2> HIDE DEF one
  <2>3. UnderWay(uplink \o one) = UnderWay(uplink) + UnderWay(one)
    BY <1>2, <2>2, UnderWayMore
  <2>4. UnderWay(uplink \o one) = UnderWay(uplink)
    BY <1>2, <2>2, <2>3
  <2> QED BY <2>4 DEF one
<1> HIDE DEF ux
<1>15. Sending(uy, issued') /\ AllHarmless(uy)
  <2> DEFINE k == issued + 1
  <2>1. k \in Nat /\ y.n = k + 1 /\ issued' = k + 1
    BY <1>2, <1>3, <1>6
  <2>2. Sending(ux, k)
    BY <1>13
  <2> HIDE DEF k
  <2> QED BY <1>3, <1>13, <2>1, <2>2, SendingMore
<1>16. UnderWay(uy) = UnderWay(uplink)
  <2>1. UnderWay(<<y>>) = 0
    BY <1>3, <1>5, UnderWayOne DEF IsDraw
  <2> DEFINE one == <<y>>
  <2>2. one \in Seq(Message) /\ UnderWay(one) = 0
    BY <1>5, <2>1
  <2> HIDE DEF one
  <2>3. UnderWay(ux \o one) = UnderWay(ux) + UnderWay(one)
    BY <1>13, <2>2, UnderWayMore
  <2>4. UnderWay(ux \o one) = UnderWay(uplink)
    BY <1>2, <1>14, <2>2, <2>3
  <2> QED BY <2>4 DEF one
<1> HIDE DEF uy
<1>17. Short(ch', uplink')
  <2>1. Len(uplink') = Len(uplink) + 2
    BY <1>2, <1>5, <1>6, ConcatIs
  <2>2. Since(ch') \in {0, Since(ch)} /\ ch'.limit = ch.limit
    BY <1>10 DEF Untouched
  <2>3. Since(ch) + UnderWay(uplink) < ch.limit
    BY <1>6 DEF SavedInv, Short
  <2>4. UnderWay(uplink') = UnderWay(uplink)
    BY <1>7, <1>16
  <2>5. Since(ch') + UnderWay(uplink') < ch'.limit
    BY <1>2, <2>2, <2>3, <2>4
  <2>6. Len(uplink') <= MaxUplink
    BY <1>6, <2>1
  <2> QED BY <2>5, <2>6 DEF Short
<1>18. LimitKept(ch')
  BY <1>10 DEF SavedInv, LimitKept, Untouched
<1> QED BY <1>6, <1>7, <1>12, <1>15, <1>17, <1>18 DEF SavedInv

----------------------------------------------------------------------------
(* Commands from the server.                                               *)

(* Without a fork every harmless command is expected.                      *)
LEMMA ExpectedAnyway ==
  ASSUME NEW c, c.fork = << >>, NEW m, Harmless(m), NEW stray
  PROVE  Expected(c, m, stray)
BY DEF Expected, Harmless, have_local_fork

(* How far the undo points behind the fork's start go after a command.     *)
LEMMA SinceGrows ==
  ASSUME SavedInv, NEW m
  PROVE  /\ SinceAfter(ch, m) \in Nat
         /\ SinceAfter(ch, m) <= Since(ch) + (IF m.type = "UndoPoint" THEN 1 ELSE 0)
         /\ \A s \in {0, Since(ch), SinceAfter(ch, m)} :
              s \in Nat /\ s <= Since(ch) + (IF m.type = "UndoPoint" THEN 1 ELSE 0)
<1>1. Since(ch) \in Nat
  BY SavedTypes
<1> QED BY <1>1 DEF SinceAfter

(* A command of another user.                                              *)
LEMMA ForeignSaved ==
  ASSUME SavedInv, FlightInv', ShortForks, StrayIsStrict, NEW m \in Message,
         m.user \in Others, Harmless(m), IsDraw(m) => m.area \in RemoteAreas,
         m.type = "UndoPoint" => ForkIsShort, Foreign(m)
  PROVE  SavedInv' /\ (~IsUndo(m) => Truth' = DrawnAfter(Truth, m))
<1>1. /\ connected /\ connected' = connected /\ issued' = issued /\ uplink' = uplink /\ Deliver(m)
  BY DEF Foreign, Deliver
<1>2. /\ UnderWay(uplink) \in Nat /\ Since(ch) \in Nat /\ ch.limit \in Nat
      /\ Flying(ch, uplink, issued) /\ LogKept
  BY <1>1, SavedTypes DEF SavedInv
<1> DEFINE one == IF m.type = "UndoPoint" THEN 1 ELSE 0
<1>3. Since(ch) + UnderWay(uplink) + one < ch.limit
  BY <1>1, <1>2, ForkIsShortSays DEF SavedInv, Short
<1>4. /\ SinceAfter(ch, m) \in Nat /\ SinceAfter(ch, m) <= Since(ch) + one
      /\ \A s \in {0, Since(ch), SinceAfter(ch, m)} : s \in Nat /\ s <= Since(ch) + one
  BY SinceGrows
<1>5. \A s \in {0, Since(ch), SinceAfter(ch, m)} : s + UnderWay(uplink) < ch.limit
  BY <1>2, <1>3, <1>4
<1>6. SinceAfter(ch, m) < ch.limit
  BY <1>2, <1>3, <1>4
<1>7. \A stray \in StrayAreas : Expected(ch, m, stray)
  BY <1>2, <1>6, ExpectedForeign
<1>8. /\ LogKept' /\ ch'.limit = ch.limit
      /\ Since(ch') \in {0, Since(ch), SinceAfter(ch, m)}
      /\ ~IsUndo(m) => Truth' = DrawnAfter(Truth, m)
  BY <1>1, <1>2, <1>7, DeliveredLog
<1>9. Short(ch', uplink')
  BY <1>1, <1>5, <1>8 DEF Short, SavedInv
<1> QED BY <1>1, <1>8, <1>9 DEF SavedInv, LimitKept

(* An own command comes back.                                              *)
LEMMA EchoSaved ==
  ASSUME SavedInv, FlightInv', Echo
  PROVE  /\ SavedInv'
         /\ Harmless(Head(uplink)) /\ Head(uplink) \in Message
         /\ ~IsUndo(Head(uplink)) => Truth' = DrawnAfter(Truth, Head(uplink))
<1> DEFINE m == Head(uplink)
           one == IF m.type = "UndoPoint" THEN 1 ELSE 0
<1>1. /\ uplink # << >> /\ uplink' = Tail(uplink) /\ connected' = connected /\ issued' = issued
      /\ Deliver(m)
  BY DEF Echo, Deliver
<1>2. /\ uplink \in Seq(Message) /\ UnderWay(uplink) \in Nat /\ Since(ch) \in Nat
      /\ ch.limit \in Nat /\ LogKept /\ AllHarmless(uplink)
  BY SavedTypes DEF SavedInv
<1>3. /\ m \in Message /\ Tail(uplink) \in Seq(Message)
      /\ UnderWay(uplink) = UnderWay(Tail(uplink)) + one
  BY <1>1, <1>2, UnderWayTail
<1>4. Harmless(m) /\ AllHarmless(uplink')
  BY <1>1, <1>2, SendingTail
<1>5. UnderWay(uplink') \in Nat
  BY <1>1, <1>3, UnderWayIs
<1>6. Len(uplink') = Len(uplink) - 1 /\ Len(uplink) \in Nat
  BY <1>1, <1>2, HeadTailProperties, LenProperties
<1>7. /\ SinceAfter(ch, m) \in Nat /\ SinceAfter(ch, m) <= Since(ch) + one
      /\ \A s \in {0, Since(ch), SinceAfter(ch, m)} : s \in Nat /\ s <= Since(ch) + one
  BY SinceGrows
<1> HIDE DEF m
<1>8. connected => \A s \in {0, Since(ch), SinceAfter(ch, m)} : s + UnderWay(uplink') < ch.limit
  BY <1>1, <1>2, <1>3, <1>5, <1>7 DEF SavedInv, Short
<1>9. connected => SinceAfter(ch, m) < ch.limit
  BY <1>2, <1>5, <1>7, <1>8
<1>10. ASSUME NEW stray \in StrayAreas PROVE Expected(ch, m, stray)
  <2>1. CASE connected
    <3>1. Flying(ch, uplink, issued)
      BY <2>1, SavedTypes
    <3> QED BY <1>1, <1>9, <2>1, <3>1, ExpectedOwn DEF m
  <2>2. CASE ~connected
    <3>1. ch.fork = << >>
      BY <2>2, SavedTypes
    <3> QED BY <1>4, <3>1, ExpectedAnyway
  <2> QED BY <2>1, <2>2
<1>11. /\ LogKept' /\ ch'.limit = ch.limit
       /\ Since(ch') \in {0, Since(ch), SinceAfter(ch, m)}
       /\ ~IsUndo(m) => Truth' = DrawnAfter(Truth, m)
  BY <1>1, <1>2, <1>3, <1>4, <1>10, DeliveredLog
<1>12. connected' => Sending(uplink', issued')
  BY <1>1, <1>2, SendingTail DEF SavedInv
<1>13. connected' => Short(ch', uplink')
  <2>1. SUFFICES ASSUME connected' PROVE Short(ch', uplink')
    OBVIOUS
  <2>2. Len(uplink) <= MaxUplink
    BY <1>1, <2>1 DEF SavedInv, Short
  <2>3. Len(uplink') <= MaxUplink
    BY <1>6, <2>2, SyncAssumption DEF SyncAssumption
  <2>4. Since(ch') + UnderWay(uplink') < ch'.limit
    BY <1>1, <1>8, <1>11, <2>1
  <2> QED BY <2>3, <2>4 DEF Short
<1>14. LimitKept(ch')
  BY <1>11 DEF SavedInv, LimitKept
<1> QED BY <1>3, <1>4, <1>11, <1>12, <1>13, <1>14 DEF SavedInv, m

(* Dabs from the server.                                                   *)
LEMMA DabsSaved ==
  ASSUME SavedInv, FlightInv', StrayIsStrict, Dabs
  PROVE  /\ SavedInv'
         /\ \E x \in Message, y \in Message :
              /\ IsDraw(x) /\ Harmless(x) /\ IsDraw(y) /\ Harmless(y) /\ Watch(<<x, y>>)
              /\ Truth' = DrawnAfter(DrawnAfter(Truth, x), y)
<1>1. PICK ms : \E own \in BOOLEAN :
        /\ DabPair(ms, own)
        /\ own => uplink # << >> /\ IsDraw(Head(uplink))
        /\ connected /\ connected' = connected
        /\ HandleMultidab(ms) /\ Watch(ms) /\ Archive
        /\ uplink' = IF own THEN Tail(uplink) ELSE uplink
        /\ issued' = issued
  BY DabsTaken
<1>2. PICK own \in BOOLEAN :
        /\ DabPair(ms, own)
        /\ own => uplink # << >> /\ IsDraw(Head(uplink))
        /\ connected /\ connected' = connected
        /\ HandleMultidab(ms) /\ Watch(ms) /\ Archive
        /\ uplink' = IF own THEN Tail(uplink) ELSE uplink
        /\ issued' = issued
  BY <1>1
<1>3. PICK x \in DabMessages, y \in DabMessages :
        /\ ms = <<x, y>>
        /\ own => x = Head(uplink)
        /\ ~own => x.user \in Others /\ x.area \in RemoteAreas
        /\ y.user \in Others /\ y.area \in RemoteAreas
  BY <1>2, DabPairType DEF SavedInv, FlightInv
<1>4. /\ x \in Message /\ y \in Message /\ IsDraw(x) /\ IsDraw(y) /\ Harmless(x) /\ Harmless(y)
      /\ LocalUser \notin Others /\ x.type # "UndoPoint" /\ y.type # "UndoPoint"
  BY DEF DabMessages, Others, IsDraw, Harmless, IsUndo
<1>5. /\ uplink \in Seq(Message) /\ UnderWay(uplink) \in Nat /\ Since(ch) \in Nat
      /\ ch.limit \in Nat /\ LogKept /\ AllHarmless(uplink) /\ uplink \in Seq(OwnMessages)
      /\ Flying(ch, uplink, issued) /\ Sound(ch) /\ HasFork(ch) /\ ch.fork \in Seq(Message)
      /\ Since(ch) + UnderWay(uplink) < ch.limit /\ Sending(uplink, issued)
      /\ Len(uplink) \in Nat /\ Len(uplink) <= MaxUplink
  BY <1>2, SavedTypes DEF SavedInv, Short
<1>6. PICK stray \in StrayAreas :
        ch' = DP_canvas_history_handle_multidab_dec(ch, <<x, y>>, drawing, stray)
  BY <1>2, <1>3 DEF HandleMultidab
<1> DEFINE e == Between(ch, x, drawing, stray)
           up == uplink'
<1>7. Expected(ch, x, stray)
  <2>1. SinceAfter(ch, x) < ch.limit
    BY <1>4, <1>5 DEF SinceAfter
  <2>2. CASE own
    BY <1>2, <1>3, <1>5, <2>1, <2>2, ExpectedOwn
  <2>3. CASE ~own
    BY <1>3, <1>4, <1>5, <2>1, <2>3, ExpectedForeign
  <2> QED BY <2>2, <2>3
<1>8. Acknowledged(ch, e, x) /\ Sound(e)
  <2> DEFINE b == [ch |-> ch, pending |-> << >>]
  <2>1. b.ch = ch /\ SoundBatch(b)
    BY <1>5 DEF SoundBatch
  <2>2. e = MultidabStep(b, x, drawing, stray).ch
    BY Zenon DEF Between
  <2> HIDE DEF b, e
  <2>3. Acknowledged(b.ch, MultidabStep(b, x, drawing, stray).ch, x)
    BY <1>4, <1>5, <2>1, MultidabStepFork
  <2>4. SoundBatch(MultidabStep(b, x, drawing, stray))
    BY <1>4, <2>1, MultidabStepSound
  <2> QED BY <2>1, <2>2, <2>3, <2>4 DEF SoundBatch
<1> HIDE DEF e
<1>9. /\ up \in Seq(OwnMessages) /\ up \in Seq(Message) /\ Sending(up, issued) /\ AllHarmless(up)
      /\ UnderWay(up) \in Nat /\ UnderWay(up) <= UnderWay(uplink)
      /\ Len(up) \in Nat /\ Len(up) <= Len(uplink)
  <2>1. CASE own
    <3>1. uplink # << >> /\ up = Tail(uplink)
      BY <1>2, <2>1
    <3>2. Tail(uplink) \in Seq(OwnMessages) /\ Len(Tail(uplink)) = Len(uplink) - 1
      BY <1>5, <3>1, HeadTailProperties
    <3>3. /\ UnderWay(uplink) = UnderWay(Tail(uplink))
                                  + (IF Head(uplink).type = "UndoPoint" THEN 1 ELSE 0)
          /\ Tail(uplink) \in Seq(Message)
      BY <1>5, <3>1, UnderWayTail
    <3>4. UnderWay(Tail(uplink)) \in Nat /\ Len(Tail(uplink)) \in Nat
      BY <3>3, UnderWayIs, LenProperties
    <3>5. Sending(Tail(uplink), issued) /\ AllHarmless(Tail(uplink))
      BY <1>5, <3>1, SendingTail
    <3>6. UnderWay(Tail(uplink)) <= UnderWay(uplink) /\ Len(Tail(uplink)) <= Len(uplink)
      BY <1>5, <3>2, <3>3, <3>4
    <3> QED BY <3>1, <3>2, <3>3, <3>4, <3>5, <3>6
  <2>2. CASE ~own
    BY <1>2, <1>5, <2>2
  <2> QED BY <2>1, <2>2
<1>10. Flying(e, up, issued)
  <2>1. InFlight(ch, uplink)
    BY <1>5 DEF Flying
  <2>2. InFlight(e, up)
    <3>1. CASE own
      BY <1>2, <1>3, <1>5, <1>8, <2>1, <3>1, OwnTaken
    <3>2. CASE ~own
      BY <1>2, <1>3, <1>4, <1>5, <1>8, <2>1, <3>2, OthersTaken
    <3> QED BY <3>1, <3>2
  <2> QED BY <1>8, <1>9, <2>2, Zenon DEF Flying, Sending
<1>11. DabTaken(ch, Start, e, x) => Expected(e, y, stray)
  <2>1. SUFFICES ASSUME DabTaken(ch, Start, e, x) PROVE Expected(e, y, stray)
    OBVIOUS
  <2>2. Since(e) \in {0, Since(ch)} /\ e.limit = ch.limit
    BY <2>1 DEF DabTaken
  <2>3. SinceAfter(e, y) < e.limit
    BY <1>4, <1>5, <2>2 DEF SinceAfter
  <2> QED BY <1>3, <1>4, <1>10, <2>3, ExpectedForeign
<1>12. LogTyped /\ Kept(ch, Start) /\ Right(ch, Start) /\ ch.markDone = TRUE
  BY <1>5 DEF LogKept
<1>13. /\ Kept(ch', Start) /\ Right(ch', Start) /\ ch'.offset = ch.offset /\ ch'.limit = ch.limit
       /\ Since(ch') \in {0, Since(ch)}
       /\ Whole(ch', Start) = DrawnAfter(DrawnAfter(Whole(ch, Start), x), y)
  <2>1. LET f == Between(ch, x, drawing, stray)
        IN DabTaken(ch, Start, f, x) => Expected(f, y, stray)
    BY <1>11, Zenon DEF e
  <2> QED BY <1>4, <1>6, <1>7, <1>12, <2>1, MultidabKept
<1>14. LogTyped' /\ Start' = Start
  BY <1>2, <1>5, <1>12, <1>13, ArchiveNothing
<1>15. Truth' = DrawnAfter(DrawnAfter(Truth, x), y)
  <2>1. Sound(ch')
    BY <1>13 DEF Kept
  <2>2. Truth' = Whole(ch', Start') /\ Truth = Whole(ch, Start)
    BY <1>5, <1>12, <1>14, <2>1, TruthThen, TruthIs
  <2> QED BY <1>13, <1>14, <2>2
<1>16. ch'.markDone = TRUE
  <2>1. PICK d : Acknowledged(ch, d, x) /\ Acknowledged(d, ch', y)
    BY <1>4, <1>5, <1>6, HandleMultidabFork
  <2> QED BY <1>12, <2>1 DEF Acknowledged
<1>17. LogKept'
  BY <1>13, <1>14, <1>16 DEF LogKept
<1>18. Short(ch', up)
  BY <1>5, <1>9, <1>13, SyncAssumption DEF Short, SyncAssumption
<1>19. LimitKept(ch')
  BY <1>13 DEF SavedInv, LimitKept
<1>20. SavedInv'
  BY <1>2, <1>9, <1>17, <1>18, <1>19 DEF SavedInv
<1> QED BY <1>2, <1>3, <1>4, <1>15, <1>20

----------------------------------------------------------------------------
(* Resets, filtered commands, the disconnect and what only the client does.*)

(* A filtered command.                                                     *)
LEMMA EchoFilteredSaved ==
  ASSUME SavedInv, FlightInv', EchoFiltered PROVE SavedInv' /\ Truth' = Truth
<1>1. /\ uplink # << >> /\ uplink' = Tail(uplink) /\ connected' = connected /\ issued' = issued
      /\ connected /\ Archive /\ ch' = DP_canvas_history_local_fork_clear(ch)
  BY DEF EchoFiltered, LocalForkClear
<1>2. /\ uplink \in Seq(Message) /\ UnderWay(uplink) \in Nat /\ Since(ch) \in Nat
      /\ ch.limit \in Nat /\ LogKept /\ AllHarmless(uplink) /\ HasFork(ch)
      /\ Kept(ch, Start) /\ Right(ch, Start) /\ Len(uplink) \in Nat
  BY SavedTypes DEF SavedInv, LogKept
<1>3. Untouched(ch, Start, ch') /\ Since(ch') = 0
  BY <1>1, <1>2, LocalForkClearKept
<1>4. ch'.markDone = ch.markDone
  BY <1>1, <1>2, LocalForkClearFork
<1>5. LogKept' /\ Truth' = Truth
  BY <1>1, <1>2, <1>3, <1>4, UntouchedLog
<1>6. Sending(uplink', issued') /\ AllHarmless(uplink')
  BY <1>1, <1>2, SendingTail DEF SavedInv
<1>7. Short(ch', uplink')
  <2>1. /\ UnderWay(uplink) = UnderWay(uplink')
                                + (IF Head(uplink).type = "UndoPoint" THEN 1 ELSE 0)
        /\ Tail(uplink) \in Seq(Message)
    BY <1>1, <1>2, UnderWayTail
  <2>2. UnderWay(uplink') \in Nat /\ Len(uplink') = Len(uplink) - 1
    BY <1>1, <1>2, <2>1, UnderWayIs, HeadTailProperties
  <2>3. Since(ch) + UnderWay(uplink) < ch.limit /\ Len(uplink) <= MaxUplink
    BY <1>1 DEF SavedInv, Short
  <2>4. ch'.limit = ch.limit
    BY <1>3 DEF Untouched
  <2>5. Since(ch') + UnderWay(uplink') < ch'.limit
    BY <1>2, <1>3, <2>1, <2>2, <2>3, <2>4
  <2>6. Len(uplink') <= MaxUplink
    BY <1>2, <2>2, <2>3, SyncAssumption DEF SyncAssumption
  <2> QED BY <2>5, <2>6 DEF Short
<1>8. LimitKept(ch')
  BY <1>3 DEF SavedInv, LimitKept, Untouched
<1> QED BY <1>1, <1>5, <1>6, <1>7, <1>8 DEF SavedInv

(* A save point on request, or a stroke that starts or ends.               *)
LEMMA SnapshotSaved ==
  ASSUME SavedInv, FlightInv', Snapshot \/ DrawingInProgress
  PROVE  SavedInv' /\ Truth' = Truth
<1>1. UNCHANGED <<uplink, connected, archive, base, issued>>
  BY DEF Snapshot, DrawingInProgress
<1>2. CASE Snapshot
  <2>1. /\ Since(ch) \in Nat /\ LogKept /\ HasFork(ch) /\ Kept(ch, Start) /\ Right(ch, Start)
        /\ ch.limit \in Nat /\ UnderWay(uplink) \in Nat
    BY SavedTypes DEF SavedInv, LogKept
  <2>2. ch' = DP_canvas_history_save_point_make(ch)
    BY <1>2 DEF Snapshot, SavePointMake
  <2>3. Untouched(ch, Start, ch')
    BY <2>1, <2>2, SavePointMakeKept
  <2>4. ch'.markDone = ch.markDone
    <3>1. \A i : make_save_point(ch, i).markDone = ch.markDone
      BY <2>1, MakeSavePointFork DEF KeepsFork
    <3> QED BY <2>2, <3>1 DEF DP_canvas_history_save_point_make
  <2>5. LogKept' /\ Truth' = Truth
    BY <1>1, <2>1, <2>3, <2>4, UntouchedLog
  <2>6. Since(ch') \in {0, Since(ch)} /\ ch'.limit = ch.limit
    BY <2>3 DEF Untouched
  <2>7. connected => Short(ch', uplink)
    BY <2>1, <2>6 DEF SavedInv, Short
  <2> QED BY <1>1, <2>5, <2>6, <2>7 DEF SavedInv, LimitKept
<1>3. CASE DrawingInProgress
  <2>1. ch' = ch
    BY <1>3 DEF DrawingInProgress, LocalDrawingInProgressSet
  <2>2. Start' = Start /\ LogTyped'
    BY <1>1 DEF Start, LogTyped, SavedInv, LogKept
  <2>3. Truth' = Truth
    BY <1>1, <2>1 DEF Truth, TruthAt, log
  <2> QED BY <1>1, <2>1, <2>2, <2>3 DEF SavedInv, LogKept
<1> QED BY <1>2, <1>3

(* The commands under way follow a reset.                                  *)
LEMMA ResetSaved ==
  ASSUME SavedInv, FlightInv', LogKept', UNCHANGED <<uplink, connected, issued>>,
         Since(ch') = 0, LimitKept(ch'), connected => UnderWay(uplink) < ch'.limit
  PROVE  SavedInv'
<1>1. UnderWay(uplink) \in Nat
  BY SavedTypes
<1>2. connected => Short(ch', uplink)
  BY <1>1 DEF SavedInv, Short
<1> QED BY <1>2 DEF SavedInv

(* A soft reset, a change of the undo depth, a session reset.              *)
LEMMA ServerResetSaved ==
  ASSUME SavedInv, FlightInv', ShortForks,
         ServerSoftReset \/ ServerUndoDepth \/ ServerReset
  PROVE  /\ SavedInv'
         /\ Truth' = IF ServerReset THEN BlankCanvas ELSE Truth
<1>1. UNCHANGED <<uplink, connected, issued>> /\ connected
  BY DEF ServerSoftReset, ServerUndoDepth, ServerReset
<1>2. /\ Since(ch) \in Nat /\ LogKept /\ Kept(ch, Start) /\ Right(ch, Start) /\ Sound(ch)
      /\ ch.limit \in Nat /\ UnderWay(uplink) \in Nat /\ LogTyped /\ uplink \in Seq(Message)
  BY SavedTypes DEF SavedInv, LogKept
<1>3. UnderWay(uplink) < ch.limit /\ UnderWay(uplink) <= MaxUplink
  <2>1. Since(ch) + UnderWay(uplink) < ch.limit /\ Len(uplink) <= MaxUplink
    BY <1>1 DEF SavedInv, Short
  <2>2. UnderWay(uplink) <= Len(uplink) /\ Len(uplink) \in Nat
    BY <1>2, UnderWayIs, LenProperties
  <2> QED BY <1>2, <2>1, <2>2, SyncAssumption DEF SyncAssumption
<1>4. Truth = Whole(ch, Start) /\ Truth \in Canvas
  BY <1>2, TruthIs, WholeType
<1>5. CASE ServerReset
  <2>1. ch' = DP_canvas_history_reset(ch) /\ Rebase(BlankCanvas)
    BY <1>5 DEF ServerReset, Reset
  <2>2. StartsOver(ch', BlankCanvas) /\ ch'.limit = UndoDepthDefault
    BY <1>2, <2>1, ResetKept
  <2>3. LogKept' /\ Truth' = BlankCanvas /\ Since(ch') = 0
    BY <2>1, <2>2, BlankCanvasType, StartedLog
  <2>4. LimitKept(ch')
    BY <2>2 DEF LimitKept
  <2>5. UnderWay(uplink) < ch'.limit
    <3>1. CASE "UndoDepth" \in Features
      BY <1>2, <1>3, <2>2, <3>1, HistoryAssumption, SyncAssumption
      DEF ShortForks, HistoryAssumption, SyncAssumption
    <3>2. CASE "UndoDepth" \notin Features
      BY <1>3, <2>2, <3>2 DEF SavedInv, LimitKept
    <3> QED BY <3>1, <3>2
  <2>6. SavedInv'
    BY <1>1, <2>3, <2>4, <2>5, ResetSaved
  <2> QED BY <1>5, <2>3, <2>6
<1>6. CASE ServerSoftReset /\ ~ServerReset
  <2>1. ch' = DP_canvas_history_soft_reset(ch) /\ Rebase(Truth)
    BY <1>6 DEF ServerSoftReset, SoftReset
  <2>2. StartsOver(ch', Truth) /\ ch'.limit = ch.limit
    BY <1>2, <1>4, <2>1, SoftResetKept
  <2>3. LogKept' /\ Truth' = Truth /\ Since(ch') = 0
    BY <1>4, <2>1, <2>2, StartedLog
  <2>4. LimitKept(ch')
    BY <2>2 DEF SavedInv, LimitKept
  <2>5. SavedInv'
    BY <1>1, <1>3, <2>2, <2>3, <2>4, ResetSaved
  <2> QED BY <1>6, <2>3, <2>5
<1>7. CASE ServerUndoDepth /\ ~ServerReset
  <2>1. /\ ch' = DP_canvas_history_undo_depth_limit_set(ch, NewLimit) /\ Rebase(Truth)
        /\ "UndoDepth" \in Features
    BY <1>7 DEF ServerUndoDepth, UndoDepthLimitSet
  <2>2. StartsOver(ch', Truth) /\ ch'.limit \in UndoDepthMin .. UndoDepthMax
    BY <1>2, <1>4, <2>1, UndoDepthLimitSetKept, SyncAssumption DEF SyncAssumption
  <2>3. LogKept' /\ Truth' = Truth /\ Since(ch') = 0
    BY <1>4, <2>1, <2>2, StartedLog
  <2>4. LimitKept(ch')
    BY <2>1 DEF LimitKept
  <2>5. UnderWay(uplink) < ch'.limit
    BY <1>2, <1>3, <2>1, <2>2, HistoryAssumption, SyncAssumption
    DEF ShortForks, HistoryAssumption, SyncAssumption
  <2>6. SavedInv'
    BY <1>1, <2>3, <2>4, <2>5, ResetSaved
  <2> QED BY <1>7, <2>3, <2>6
<1> QED BY <1>5, <1>6, <1>7

(* What the fork held, and the pen up, when the client disconnects.        *)
LEMMA DisconnectSaved ==
  ASSUME SavedInv, FlightInv', Disconnect PROVE SavedInv'
<1>1. /\ connected /\ ~connected' /\ uplink' = Append(ch.fork, PenUpByNobody) /\ Archive
      /\ ch' = DP_canvas_history_local_fork_clear(ch)
  BY DEF Disconnect, Cleanup, DP_canvas_history_cleanup
<1>2. /\ LogKept /\ HasFork(ch) /\ Kept(ch, Start) /\ Right(ch, Start) /\ ch.fork \in Seq(Message)
      /\ Flying(ch, uplink, issued) /\ AllHarmless(uplink)
  BY <1>1, SavedTypes DEF SavedInv, LogKept
<1>3. Untouched(ch, Start, ch')
  BY <1>1, <1>2, LocalForkClearKept
<1>4. ch'.markDone = ch.markDone
  BY <1>1, <1>2, LocalForkClearFork
<1>5. LogKept'
  BY <1>1, <1>2, <1>3, <1>4, UntouchedLog
<1>6. AllHarmless(uplink')
  <2>1. /\ Len(ch.fork) \in Nat
        /\ \A i \in 1 .. Len(ch.fork) : \E j \in 1 .. Len(uplink) : ch.fork[i] = uplink[j]
    BY <1>2, FlyingFork
  <2>2. \A i \in 1 .. Len(ch.fork) : Harmless(ch.fork[i])
    BY <1>2, <2>1 DEF AllHarmless
  <2>3. PenUpByNobody \in Message /\ Harmless(PenUpByNobody)
    BY PenUpType DEF Harmless, IsDraw, IsUndo
  <2> DEFINE n == Len(ch.fork)
             pen == PenUpByNobody
  <2>4. /\ Len(uplink') = n + 1 /\ uplink'[n + 1] = pen
        /\ \A i \in 1 .. n : uplink'[i] = ch.fork[i]
    BY <1>1, <1>2, <2>3, AppendProperties
  <2>5. \A i \in 1 .. n + 1 : Harmless(uplink'[i])
    <3> SUFFICES ASSUME NEW i \in 1 .. n + 1 PROVE Harmless(uplink'[i])
      OBVIOUS
    <3>1. CASE i = n + 1
      BY <2>3, <2>4, <3>1
    <3>2. CASE i \in 1 .. n
      BY <2>2, <2>4, <3>2
    <3> QED BY <2>1, <3>1, <3>2
  <2> QED BY <2>4, <2>5 DEF AllHarmless
<1>7. LimitKept(ch')
  BY <1>3 DEF SavedInv, LimitKept, Untouched
<1> QED BY <1>1, <1>5, <1>6, <1>7 DEF SavedInv

----------------------------------------------------------------------------
(* The client that watches.                                                *)

(* Its history, message by message.                                        *)
Watches(g, w, ms, stray) ==
  /\ g[0] = w
  /\ g[Len(ms)] = FoldLeft(LAMBDA v, m : DP_canvas_history_handle(v, m, FALSE, stray), w, ms)
  /\ \A i \in 1 .. Len(ms) : g[i] = DP_canvas_history_handle(g[i - 1], ms[i], FALSE, stray)

(* There are the histories in between.                                     *)
LEMMA WatchRuns ==
  ASSUME NEW w, Sound(w), NEW ms \in Seq(Message), NEW stray
  PROVE  \E g : Watches(g, w, ms, stray)
<1> DEFINE n == Len(ms)
           S == {c \in SoundHistory : Sound(c)}
           Op(c, m) == DP_canvas_history_handle(c, m, FALSE, stray)
           F == [p \in S \X (1 .. n) |-> Op(p[1], ms[p[2]])]
           Solves(it) ==
             it = [s \in SUBSET (1 .. n) |->
                     IF s = {} THEN w ELSE Op(it[s \ {Max(s)}], ms[Max(s)])]
           fold == CHOOSE it : Solves(it)
           g == [i \in 0 .. n |-> fold[1 .. i]]
<1>1. n \in Nat /\ DOMAIN ms = 1 .. n /\ \A i \in 1 .. n : ms[i] \in Message
  BY LenProperties, ElementOfSeq
<1>2. FoldLeft(LAMBDA v, m : DP_canvas_history_handle(v, m, FALSE, stray), w, ms) = fold[1 .. n]
  BY <1>1 DEF FoldLeft, MapThenFoldSet
<1>3. w \in S /\ \A c \in S, m \in Message : Op(c, m) \in S
  BY HandleSound DEF Sound
<1> HIDE DEF S, Op
<1>4. ASSUME NEW c \in S, NEW i \in 1 .. n PROVE F[<<c, i>>] = Op(c, ms[i])
  OBVIOUS
<1>5. \E it : Solves(it)
  <2>1. \A c \in S, i \in 1 .. n : F[<<c, i>>] \in S
    BY <1>1, <1>3, <1>4
  <2> HIDE DEF F, n
  <2>2. PICK it : Iterates(it, n, S, w, F)
    BY <1>1, <1>3, <2>1, Iteration
  <2>3. ASSUME NEW s \in SUBSET (1 .. n), s # {}
        PROVE  F[<<it[s \ {Max(s)}], Max(s)>>] = Op(it[s \ {Max(s)}], ms[Max(s)])
    <3>1. Max(s) \in 1 .. n /\ it[s \ {Max(s)}] \in S
      BY <1>1, <2>2, <2>3, GreatestNumber DEF Iterates
    <3> QED BY <1>4, <3>1
  <2>4. it = [s \in SUBSET (1 .. n) |-> it[s]]
    BY <2>2 DEF Iterates
  <2> QED BY <2>2, <2>3, <2>4 DEF Iterates
<1>6. Solves(fold)
  <2> HIDE DEF Solves
  <2> QED BY <1>5
<1> HIDE DEF fold, F
<1>7. g[0] = w
  <2>1. 1 .. 0 = {} /\ {} \in SUBSET (1 .. n)
    OBVIOUS
  <2> QED BY <1>1, <1>6, <2>1
<1>8. ASSUME NEW i \in 1 .. n PROVE g[i] = Op(g[i - 1], ms[i])
  <2>1. /\ 1 .. i \in SUBSET (1 .. n) /\ 1 .. i # {} /\ Max(1 .. i) = i
        /\ (1 .. i) \ {i} = 1 .. (i - 1) /\ i \in 0 .. n /\ i - 1 \in 0 .. n
    BY <1>1, GreatestOfFirst
  <2>2. fold[1 .. i] = Op(fold[1 .. (i - 1)], ms[i])
    BY <1>6, <2>1
  <2> QED BY <2>1, <2>2
<1>9. g[n] = fold[1 .. n]
  BY <1>1
<1> HIDE DEF g
<1>10. Watches(g, w, ms, stray)
  BY <1>2, <1>7, <1>8, <1>9, Zenon DEF Watches, n, Op
<1> QED BY <1>10

(* What the client that watches has: a history of what cs is.              *)
Follows(w, cs) ==
  \E y : /\ Kept(w, y) /\ Right(w, y) /\ Whole(w, y) = cs
         /\ w.fork = << >> /\ w.markDone = TRUE

(* It shows cs.                                                            *)
LEMMA FollowsShows ==
  ASSUME NEW w, NEW cs, Follows(w, cs) PROVE w.current = cs /\ Sound(w)
<1>1. PICK y : Kept(w, y) /\ Right(w, y) /\ Whole(w, y) = cs /\ w.fork = << >>
  BY DEF Follows
<1>2. cs \in Canvas /\ Sound(w)
  BY <1>1, WholeType DEF Kept
<1>3. Shown(cs, << >>) = cs
  BY <1>2, ShownNothing
<1> QED BY <1>1, <1>2, <1>3, Zenon DEF Right, View

(* One more command.                                                       *)
LEMMA FollowsOn ==
  ASSUME NEW w, NEW cs, Follows(w, cs), NEW m \in Message, Harmless(m), ~IsUndo(m), NEW stray
  PROVE  Follows(DP_canvas_history_handle(w, m, FALSE, stray), DrawnAfter(cs, m))
<1> DEFINE d == DP_canvas_history_handle(w, m, FALSE, stray)
<1>1. PICK y : Kept(w, y) /\ Right(w, y) /\ Whole(w, y) = cs /\ w.fork = << >> /\ w.markDone = TRUE
  BY DEF Follows
<1>2. Expected(w, m, stray) /\ m.type # "Redo" /\ ~(IsUndo(m) /\ get_undo_context_id(m) = Nobody)
  BY <1>1, ExpectedAnyway DEF Harmless
<1>3. Advanced(w, y, d, m)
  BY <1>1, <1>2, HandleKept
<1>4. d.fork = << >> /\ d.markDone = TRUE
  <2>1. HasFork(w)
    BY <1>1 DEF Kept, Sound, SoundHistory, HasFork
  <2>2. Acknowledged(w, d, m)
    BY <1>1, <1>2, <2>1, HandleFork
  <2>3. d.fork = << >>
    BY <1>1, <2>1, NoForkStays
  <2> QED BY <1>1, <2>2, <2>3 DEF Acknowledged
<1> HIDE DEF d
<1> DEFINE z == Truncated(w, y, d)
<1>5. Kept(d, z) /\ Right(d, z) /\ Whole(d, z) = DrawnAfter(cs, m)
  BY <1>1, <1>3, Zenon DEF Advanced
<1> HIDE DEF z
<1> QED BY <1>4, <1>5, Zenon DEF Follows, d

(* A history that starts over.                                             *)
LEMMA FollowsAgain ==
  ASSUME NEW w, NEW cs, StartsOver(w, cs), w.fork = << >>
  PROVE  Follows(w, cs)
BY Zenon DEF Follows, StartsOver

(* One message, and two.                                                   *)
LEMMA WatchOne ==
  ASSUME NEW cs, Follows(watcher, cs), NEW m \in Message, Harmless(m), ~IsUndo(m), Watch(<<m>>)
  PROVE  Follows(watcher', DrawnAfter(cs, m))
<1> DEFINE ms == <<m>>
<1>1. ms \in Seq(Message) /\ Len(ms) = 1 /\ ms[1] = m
  OBVIOUS
<1>2. PICK stray \in StrayAreas :
        watcher' = FoldLeft(LAMBDA v, x : DP_canvas_history_handle(v, x, FALSE, stray), watcher, ms)
  BY DEF Watch
<1>3. Sound(watcher)
  BY FollowsShows
<1> HIDE DEF ms
<1>4. PICK g : Watches(g, watcher, ms, stray)
  BY <1>1, <1>3, WatchRuns
<1>5. watcher' = DP_canvas_history_handle(watcher, m, FALSE, stray)
  <2>1. /\ g[0] = watcher /\ g[1] = watcher'
        /\ \A i \in 1 .. 1 : g[i] = DP_canvas_history_handle(g[i - 1], ms[i], FALSE, stray)
    BY <1>1, <1>2, <1>4, Zenon DEF Watches
  <2>2. g[1] = DP_canvas_history_handle(g[1 - 1], ms[1], FALSE, stray) /\ 1 - 1 = 0
    <3>1. 1 \in 1 .. 1 /\ 1 - 1 = 0
      OBVIOUS
    <3> QED BY <2>1, <3>1, Zenon
  <2> QED BY <1>1, <2>1, <2>2, Zenon
<1> QED BY <1>5, FollowsOn

(* The client that watches, given two drawing commands at once.            *)
LEMMA WatchTwo ==
  ASSUME NEW cs, Follows(watcher, cs), NEW x \in Message, IsDraw(x), Harmless(x),
         NEW y \in Message, IsDraw(y), Harmless(y), Watch(<<x, y>>)
  PROVE  Follows(watcher', DrawnAfter(DrawnAfter(cs, x), y))
<1> DEFINE ms == <<x, y>>
<1>1. ms \in Seq(Message) /\ Len(ms) = 2 /\ ms[1] = x /\ ms[2] = y
  OBVIOUS
<1>2. PICK stray \in StrayAreas :
        watcher' = FoldLeft(LAMBDA v, m : DP_canvas_history_handle(v, m, FALSE, stray), watcher, ms)
  BY DEF Watch
<1>3. Sound(watcher) /\ ~IsUndo(x) /\ ~IsUndo(y)
  BY FollowsShows DEF IsDraw, IsUndo
<1> HIDE DEF ms
<1>4. PICK g : Watches(g, watcher, ms, stray)
  BY <1>1, <1>3, WatchRuns
<1>5. /\ g[1] = DP_canvas_history_handle(watcher, x, FALSE, stray)
      /\ watcher' = DP_canvas_history_handle(g[1], y, FALSE, stray)
  <2>1. /\ g[0] = watcher /\ g[2] = watcher'
        /\ \A i \in 1 .. 2 : g[i] = DP_canvas_history_handle(g[i - 1], ms[i], FALSE, stray)
    BY <1>1, <1>2, <1>4, Zenon DEF Watches
  <2>2. /\ g[1] = DP_canvas_history_handle(g[1 - 1], ms[1], FALSE, stray) /\ 1 - 1 = 0
        /\ g[2] = DP_canvas_history_handle(g[2 - 1], ms[2], FALSE, stray) /\ 2 - 1 = 1
    <3>1. 1 \in 1 .. 2 /\ 1 - 1 = 0 /\ 2 \in 1 .. 2 /\ 2 - 1 = 1
      OBVIOUS
    <3> QED BY <2>1, <3>1, Zenon
  <2> QED BY <1>1, <2>1, <2>2, Zenon
<1>6. Follows(g[1], DrawnAfter(cs, x))
  BY <1>3, <1>5, FollowsOn
<1> QED BY <1>3, <1>5, <1>6, FollowsOn

----------------------------------------------------------------------------
(* Every step.                                                             *)

(* The client that watches has what the log says.                          *)
FollowInv == connected => Follows(watcher, Truth)

(* SavedInv holds after the step, and FollowInv, if nobody undoes.         *)
Goes == SavedInv' /\ ("Undo" \notin Features /\ FollowInv => FollowInv')

(* Undos reach every history.                                              *)
LEMMA UndosHarmless ==
  ASSUME ShortForks, NEW user \in Users, NEW m \in UndosBy(user)
  PROVE  /\ m \in Message /\ m.user = user /\ Harmless(m) /\ IsUndo(m)
         /\ m.type # "UndoPoint" /\ ~IsDraw(m) /\ "Undo" \in Features
<1>1. /\ m \in Message /\ m.user = user /\ IsUndo(m) /\ get_undo_context_id(m) # Nobody
  BY UndosType
<1>2. m.type = "Undo" /\ "Undo" \in Features
  <2>1. PICK type \in {"Undo", "Redo"} \cap Features, override \in Overrides(user) :
          m = UndoBy(type, user, override)
    BY DEF UndosBy
  <2>2. m.type = type
    BY <2>1 DEF UndoBy
  <2> QED BY <2>1, <2>2 DEF ShortForks
<1> QED BY <1>1, <1>2 DEF Harmless, IsUndo, IsDraw

(* What the client does alone changes nothing for the one that watches.    *)
LEMMA FollowsStill ==
  ASSUME SavedInv', Truth' = Truth, watcher' = watcher, connected' = connected
  PROVE  Goes
BY DEF Goes, FollowInv

(* The client's own commands.                                              *)
LEMMA LocalGoes ==
  ASSUME SavedInv, FlightInv', ShortForks,
         LocalUndoPoint \/ LocalDraw \/ LocalUndo \/ LocalDabs
  PROVE  Goes
<1>1. LocalUser \in Users /\ LocalUser # Nobody
  BY HistoryAssumption, NobodyAssumption DEF HistoryAssumption, NobodyAssumption
<1>2. watcher' = watcher /\ connected' = connected
  BY DEF LocalUndoPoint, LocalDraw, LocalUndo, LocalDabs, Issue
<1>3. SavedInv' /\ Truth' = Truth
  <2>1. CASE LocalUndoPoint
    <3> DEFINE m == UndoPointBy(LocalUser)
    <3>1. /\ m \in Message /\ m.user = LocalUser /\ m.type = "UndoPoint"
      BY <1>1, UndoPointType DEF UndoPointBy
    <3>2. m \in OwnMessages /\ ~IsDraw(m) /\ Harmless(m)
      BY <1>1, <3>1 DEF OwnMessages, IsDraw, Harmless, IsUndo
    <3>3. ForkIsShort /\ HandleLocal(m) /\ Issue(<<m>>)
      BY <2>1 DEF LocalUndoPoint
    <3> HIDE DEF m
    <3> QED BY <3>2, <3>3, LocalSaved
  <2>2. CASE LocalDraw
    <3>1. PICK area \in LocalAreas :
            LET m == DrawBy(LocalUser, issued + 1, area) IN HandleLocal(m) /\ Issue(<<m>>)
      BY <2>2 DEF LocalDraw
    <3> DEFINE m == DrawBy(LocalUser, issued + 1, area)
    <3>2. area \in Area /\ issued + 1 \in Nat
      BY SavedTypes, SyncAssumption DEF SyncAssumption
    <3>3. m \in Message /\ IsDraw(m)
      BY <1>1, <3>2, DrawByType
    <3>4. m.user = LocalUser /\ m.n = issued + 1 /\ m.area = area /\ m.type = "Draw"
      BY DEF DrawBy
    <3>5. HandleLocal(m) /\ Issue(<<m>>)
      BY <3>1
    <3> HIDE DEF m
    <3>6. m \in OwnMessages /\ Harmless(m)
      BY <3>3, <3>4 DEF OwnMessages, Harmless, IsUndo
    <3> QED BY <3>4, <3>5, <3>6, LocalSaved
  <2>3. CASE LocalUndo
    <3>1. PICK m \in UndosBy(LocalUser) : HandleLocal(m) /\ Issue(<<m>>)
      BY <2>3 DEF LocalUndo
    <3>2. m \in OwnMessages /\ Harmless(m) /\ m.type # "UndoPoint" /\ ~IsDraw(m)
      BY <1>1, UndosHarmless DEF OwnMessages
    <3> QED BY <3>1, <3>2, LocalSaved
  <2>4. CASE LocalDabs
    BY <2>4, LocalDabsSaved
  <2> QED BY <2>1, <2>2, <2>3, <2>4
<1> QED BY <1>2, <1>3, FollowsStill

(* A command of another user.                                              *)
LEMMA RemoteGoes ==
  ASSUME SavedInv, FlightInv', ShortForks, StrayIsStrict, NEW m \in Message,
         m.user \in Others, Harmless(m), IsDraw(m) => m.area \in RemoteAreas,
         m.type = "UndoPoint" => ForkIsShort, Foreign(m)
  PROVE  Goes
<1>1. SavedInv' /\ (~IsUndo(m) => Truth' = DrawnAfter(Truth, m))
  BY ForeignSaved
<1>2. Watch(<<m>>) /\ connected /\ (IsUndo(m) => "Undo" \in Features)
  BY DEF Foreign, Harmless
<1>3. ASSUME "Undo" \notin Features, FollowInv PROVE FollowInv'
  <2>1. Follows(watcher, Truth)
    BY <1>2, <1>3 DEF FollowInv
  <2>2. Follows(watcher', DrawnAfter(Truth, m))
    BY <1>2, <1>3, <2>1, WatchOne
  <2> QED BY <1>1, <1>2, <1>3, <2>2 DEF FollowInv
<1> QED BY <1>1, <1>3 DEF Goes

(* Commands of other users.                                                *)
LEMMA OthersGo ==
  ASSUME SavedInv, FlightInv', ShortForks, StrayIsStrict,
         RemoteUndoPoint \/ RemoteDraw \/ RemoteUndo
  PROVE  Goes
<1>1. \A user \in Others : user \in Users /\ user # Nobody
  BY NobodyAssumption DEF NobodyAssumption, Others
<1>2. CASE RemoteUndoPoint
  <2>1. PICK user \in Others : Foreign(UndoPointBy(user))
    BY <1>2 DEF RemoteUndoPoint
  <2> DEFINE m == UndoPointBy(user)
  <2>2. m \in Message /\ m.user = user /\ m.type = "UndoPoint" /\ Foreign(m) /\ ForkIsShort
    BY <1>1, <1>2, <2>1, UndoPointType DEF UndoPointBy, RemoteUndoPoint
  <2> HIDE DEF m
  <2>3. Harmless(m) /\ ~IsDraw(m)
    BY <1>1, <2>2 DEF Harmless, IsDraw, IsUndo
  <2> QED BY <2>2, <2>3, RemoteGoes
<1>3. CASE RemoteDraw
  <2>1. PICK user \in Others, area \in RemoteAreas : Foreign(DrawBy(user, foreign + 1, area))
    BY <1>3 DEF RemoteDraw
  <2> DEFINE m == DrawBy(user, foreign + 1, area)
  <2>2. m \in Message
    <3>1. area \in Area /\ foreign + 1 \in Nat
      BY SavedTypes, SyncAssumption DEF SyncAssumption
    <3> QED BY <1>1, <3>1, DrawByType
  <2>3. m.user = user /\ m.area = area /\ m.type = "Draw" /\ Foreign(m)
    BY <2>1 DEF DrawBy
  <2> HIDE DEF m
  <2>4. Harmless(m) /\ m.type # "UndoPoint"
    BY <2>3 DEF Harmless, IsUndo
  <2> QED BY <2>2, <2>3, <2>4, RemoteGoes
<1>4. CASE RemoteUndo
  <2>1. PICK user \in Others : \E m \in UndosBy(user) : Foreign(m)
    BY <1>4 DEF RemoteUndo
  <2>2. PICK m \in UndosBy(user) : Foreign(m)
    BY <2>1
  <2>3. m \in Message /\ m.user \in Others /\ Harmless(m) /\ m.type # "UndoPoint" /\ ~IsDraw(m)
    BY <1>1, UndosHarmless
  <2> QED BY <2>2, <2>3, RemoteGoes
<1> QED BY <1>2, <1>3, <1>4

(* An own command comes back.                                              *)
LEMMA EchoGoes == ASSUME SavedInv, FlightInv', Echo PROVE Goes
<1> DEFINE m == Head(uplink)
<1>1. /\ SavedInv' /\ Harmless(m) /\ m \in Message
      /\ ~IsUndo(m) => Truth' = DrawnAfter(Truth, m)
  BY EchoSaved
<1>2. connected' = connected /\ (connected => Watch(<<m>>)) /\ (IsUndo(m) => "Undo" \in Features)
  BY <1>1 DEF Echo, Deliver, Harmless
<1> HIDE DEF m
<1>3. ASSUME "Undo" \notin Features, FollowInv, connected PROVE Follows(watcher', Truth')
  <2>1. Follows(watcher, Truth)
    BY <1>3 DEF FollowInv
  <2>2. Follows(watcher', DrawnAfter(Truth, m))
    BY <1>1, <1>2, <1>3, <2>1, WatchOne
  <2> QED BY <1>1, <1>2, <1>3, <2>2
<1> QED BY <1>1, <1>2, <1>3 DEF Goes, FollowInv

(* Dabs from the server.                                                   *)
LEMMA DabsGo == ASSUME SavedInv, FlightInv', StrayIsStrict, Dabs PROVE Goes
<1>1. SavedInv' /\ connected
  BY DabsSaved DEF Dabs
<1>2. PICK x \in Message, y \in Message :
        /\ IsDraw(x) /\ Harmless(x) /\ IsDraw(y) /\ Harmless(y) /\ Watch(<<x, y>>)
        /\ Truth' = DrawnAfter(DrawnAfter(Truth, x), y)
  BY DabsSaved
<1>3. ASSUME FollowInv PROVE FollowInv'
  <2>1. Follows(watcher, Truth)
    BY <1>1, <1>3 DEF FollowInv
  <2>2. Follows(watcher', DrawnAfter(DrawnAfter(Truth, x), y))
    BY <1>2, <2>1, WatchTwo
  <2> QED BY <1>2, <2>2 DEF FollowInv
<1> QED BY <1>1, <1>3 DEF Goes

(* A reset of the session.                                                 *)
LEMMA ServerResetGoes ==
  ASSUME SavedInv, FlightInv', ShortForks, ServerSoftReset \/ ServerUndoDepth \/ ServerReset
  PROVE  Goes
<1>1. SavedInv' /\ Truth' = IF ServerReset THEN BlankCanvas ELSE Truth
  BY ServerResetSaved
<1>2. connected
  BY DEF ServerSoftReset, ServerUndoDepth, ServerReset
<1>3. ASSUME FollowInv PROVE Follows(watcher', Truth')
  <2>1. PICK y : /\ Kept(watcher, y) /\ Right(watcher, y) /\ Whole(watcher, y) = Truth
                 /\ watcher.fork = << >>
    BY <1>2, <1>3 DEF FollowInv, Follows
  <2>2. Sound(watcher)
    BY <2>1 DEF Kept
  <2>3. CASE ServerReset
    <3>1. watcher' = DP_canvas_history_reset(watcher)
      BY <2>3 DEF ServerReset
    <3>2. StartsOver(watcher', BlankCanvas) /\ watcher'.fork = << >>
      BY <2>2, <3>1, ResetKept
    <3>3. Follows(watcher', BlankCanvas)
      BY <3>2, FollowsAgain
    <3> QED BY <1>1, <2>3, <3>3
  <2>4. CASE ServerSoftReset /\ ~ServerReset
    <3>1. watcher' = DP_canvas_history_soft_reset(watcher)
      BY <2>4 DEF ServerSoftReset
    <3>2. StartsOver(watcher', Truth) /\ watcher'.fork = << >>
      BY <2>1, <3>1, SoftResetKept
    <3>3. Follows(watcher', Truth)
      BY <3>2, FollowsAgain
    <3> QED BY <1>1, <2>4, <3>3
  <2>5. CASE ServerUndoDepth /\ ~ServerReset
    <3>1. watcher' = DP_canvas_history_undo_depth_limit_set(watcher, NewLimit)
      BY <2>5 DEF ServerUndoDepth
    <3>2. StartsOver(watcher', Truth) /\ watcher'.fork = << >>
      BY <2>1, <3>1, UndoDepthLimitSetKept, SyncAssumption DEF SyncAssumption
    <3>3. Follows(watcher', Truth)
      BY <3>2, FollowsAgain
    <3> QED BY <1>1, <2>5, <3>3
  <2> QED BY <2>3, <2>4, <2>5
<1> QED BY <1>1, <1>3 DEF Goes, FollowInv

(* The rest.                                                               *)
LEMMA ElseGoes ==
  ASSUME SavedInv, FlightInv', EchoFiltered \/ Disconnect \/ Snapshot \/ DrawingInProgress
  PROVE  Goes
<1>1. CASE EchoFiltered
  <2>1. watcher' = watcher /\ connected' = connected
    BY <1>1 DEF EchoFiltered
  <2> QED BY <1>1, <2>1, EchoFilteredSaved, FollowsStill
<1>2. CASE Disconnect
  <2>1. ~connected'
    BY <1>2 DEF Disconnect
  <2> QED BY <1>2, <2>1, DisconnectSaved DEF Goes, FollowInv
<1>3. CASE Snapshot \/ DrawingInProgress
  <2>1. watcher' = watcher /\ connected' = connected
    BY <1>3 DEF Snapshot, DrawingInProgress
  <2> QED BY <1>3, <2>1, SnapshotSaved, FollowsStill
<1> QED BY <1>1, <1>2, <1>3

(* A new session.                                                          *)
LEMMA SavedInitial == SyncInit => SavedInv /\ FollowInv
<1> SUFFICES ASSUME SyncInit PROVE SavedInv /\ FollowInv
  OBVIOUS
<1> DEFINE none == << >>
<1>1. /\ ch = DP_canvas_history_new(BlankCanvas) /\ watcher = DP_canvas_history_new(BlankCanvas)
      /\ uplink = none /\ archive = none /\ base = BlankCanvas
  BY DEF SyncInit
<1>2. none \in Seq(Mark) /\ none \in Seq(Message) /\ Len(none) = 0
  OBVIOUS
<1>3. FlightInv
  BY FlightInitial
<1>4. StartsOver(ch, BlankCanvas) /\ ch.limit = UndoDepthDefault /\ ch.fork = << >>
  BY <1>1, BlankCanvasType, NewKept
<1>5. Start = BlankCanvas /\ LogTyped
  <2>1. LogDraws(none, 1, 0) = {}
    BY DEF LogDraws
  <2> HIDE DEF none
  <2>2. LogMsgs(none) \in Seq(Message)
    <3>1. none \in Seq(Mark)
      BY <1>2
    <3> QED BY <3>1, LogIs
  <2>3. Told(BlankCanvas, none, 0) = BlankCanvas
    BY <2>1, <2>2, BlankCanvasType, DrawNothing DEF Told
  <2> QED BY <1>1, <1>2, <2>3, BlankCanvasType DEF Start, LogTyped
<1>6. LogKept /\ Since(ch) = 0
  BY <1>4, <1>5 DEF LogKept, StartsOver
<1>7. Truth = BlankCanvas
  <2>1. Truth = Whole(ch, Start)
    BY <1>5, <1>6, TruthIs DEF LogKept, Kept
  <2> QED BY <1>4, <1>5, <2>1 DEF StartsOver
<1> HIDE DEF none
<1>8. AllHarmless(uplink) /\ Sending(uplink, issued)
  BY <1>1, <1>2 DEF AllHarmless, Sending, Numbered
<1>9. Short(ch, uplink)
  <2>1. UnderWay(none) = 0
    <3>1. none \in Seq(Message)
      BY <1>2
    <3>2. UnderWay(none) \in Nat /\ UnderWay(none) <= Len(none)
      BY <3>1, UnderWayIs
    <3> QED BY <1>2, <3>2
  <2>2. UndoDepthDefault >= 1 /\ UndoDepthDefault \in Nat /\ MaxUplink \in Nat
    BY HistoryAssumption, SyncAssumption DEF HistoryAssumption, SyncAssumption
  <2> QED BY <1>1, <1>2, <1>4, <1>6, <2>1, <2>2 DEF Short
<1>10. LimitKept(ch)
  BY <1>4 DEF LimitKept
<1>11. FollowInv
  <2>1. StartsOver(watcher, BlankCanvas) /\ watcher.fork = << >>
    BY <1>1, BlankCanvasType, NewKept
  <2>2. Follows(watcher, BlankCanvas)
    BY <2>1, FollowsAgain
  <2> QED BY <1>7, <2>2 DEF FollowInv
<1> QED BY <1>3, <1>6, <1>8, <1>9, <1>10, <1>11 DEF SavedInv

(* A step of the system.                                                   *)
LEMMA SavedStep ==
  ASSUME ShortForks, StrayIsStrict, SavedInv, [SyncNext]_syncVars
  PROVE  Goes
<1>1. FlightInv'
  BY FlightStep DEF ShortForks, SavedInv
<1>2. CASE UNCHANGED syncVars
  <2>1. SavedInv'
    BY <1>1, <1>2 DEF syncVars, SavedInv, LogKept, LogTyped, Start
  <2>2. Truth' = Truth
    BY <1>2 DEF syncVars, Truth, TruthAt, log
  <2>3. watcher' = watcher /\ connected' = connected
    BY <1>2 DEF syncVars
  <2> QED BY <2>1, <2>2, <2>3, FollowsStill
<1>3. CASE LocalUndoPoint \/ LocalDraw \/ LocalUndo \/ LocalDabs
  BY <1>1, <1>3, LocalGoes
<1>4. CASE RemoteUndoPoint \/ RemoteDraw \/ RemoteUndo
  BY <1>1, <1>4, OthersGo
<1>5. CASE MarkNextUndone
  BY <1>5 DEF MarkNextUndone, ShortForks
<1>6. CASE Dabs
  BY <1>1, <1>6, DabsGo
<1>7. CASE Echo
  BY <1>1, <1>7, EchoGoes
<1>8. CASE ServerSoftReset \/ ServerUndoDepth \/ ServerReset
  BY <1>1, <1>8, ServerResetGoes
<1>9. CASE EchoFiltered \/ Disconnect \/ Snapshot \/ DrawingInProgress
  BY <1>1, <1>9, ElseGoes
<1> QED BY <1>2, <1>3, <1>4, <1>5, <1>6, <1>7, <1>8, <1>9, Zenon DEF SyncNext

(* What the canvas shows.                                                  *)
CanvasIsLog == ch.current = Draw(Truth, ch.fork, ForkDraws(ch))

(* What the invariant says.                                                *)
LEMMA SavedSays ==
  SavedInv => /\ SavePointsCoherent /\ HasSavePoint /\ CanvasIsLog
              /\ FollowInv => Converged
<1> SUFFICES ASSUME SavedInv
             PROVE  /\ SavePointsCoherent /\ HasSavePoint /\ CanvasIsLog
                    /\ FollowInv => Converged
  OBVIOUS
<1>1. /\ LogTyped /\ Sound(ch) /\ Kept(ch, Start) /\ Right(ch, Start)
      /\ Coherent(ch.entries, Start) /\ Rooted(ch.entries, ch.limit)
  BY DEF SavedInv, LogKept, Kept
<1>2. DOMAIN ch.entries = 1 .. Len(ch.entries) /\ 1 \in 1 .. Len(ch.entries)
  BY <1>1, HistoryHas
<1>3. SavePointsCoherent
  <2> SUFFICES ASSUME NEW i \in DOMAIN ch.entries, ch.entries[i].state # NoState
               PROVE  ch.entries[i].state = TruthAt(Len(archive) + i)
    BY DEF SavePointsCoherent
  <2>1. ch.entries[i].state = ReplayedTo(ch.entries, 0, Start, i)
    BY <1>1 DEF Coherent, CoherentAt
  <2>2. i \in 0 .. Len(ch.entries)
    BY <1>2
  <2>3. TruthAt(Len(archive) + i) = ReplayedTo(ch.entries, 0, Start, i)
    BY <1>1, <2>2, TruthIs
  <2> QED BY <2>1, <2>3
<1>4. HasSavePoint
  BY <1>1, <1>2 DEF HasSavePoint, Rooted
<1>5. CanvasIsLog
  <2>1. Truth = Whole(ch, Start)
    BY <1>1, TruthIs
  <2>2. ForkDraws(ch) = DrawsOf(ch.fork)
    BY Zenon DEF ForkDraws, DrawsOf
  <2>3. ch.current = Draw(Truth, ch.fork, DrawsOf(ch.fork))
    BY <1>1, <2>1, Zenon DEF Right, View, Shown
  <2> QED BY <2>2, <2>3, Zenon DEF CanvasIsLog
<1>6. FollowInv => Converged
  <2> SUFFICES ASSUME FollowInv, connected
               PROVE  ch.current = Draw(watcher.current, ch.fork, ForkDraws(ch))
    BY DEF Converged
  <2>1. watcher.current = Truth
    BY FollowsShows DEF FollowInv
  <2> QED BY <1>5, <2>1 DEF CanvasIsLog
<1> QED BY <1>3, <1>4, <1>5, <1>6

(* What the fork is compared with by accident says that two commands       *)
(* commute only when they do; forks are acknowledged before the undo limit *)
(* passes them; nothing is redone, and nothing comes undone.               *)
Assumed == ShortForks /\ StrayIsStrict

(* In every session the history is kept right: its save points hold what   *)
(* the log draws, the first entry is one, the fork starts at an entry that *)
(* is still there and no undo point under way brings truncation past it.   *)
(* This is what the handlers of canvas_history.c rely on when they replay. *)
THEOREM SavedInvariant == ASSUME Assumed PROVE SyncSpec => []SavedInv
<1>1. SyncInit => SavedInv
  BY SavedInitial
<1>2. SavedInv /\ [SyncNext]_syncVars => SavedInv'
  BY SavedStep DEF Assumed, Goes
<1> QED BY <1>1, <1>2, PTL DEF SyncSpec

(* A save point always holds the canvas that the done commands of the log  *)
(* up to it draw, so a replay from it, after an undo or a rollback, draws  *)
(* what every other client has (search_and_replay_from).                   *)
THEOREM SavePointsAlwaysCoherent == ASSUME Assumed PROVE SyncSpec => []SavePointsCoherent
<1>1. SavedInv => SavePointsCoherent
  BY SavedSays
<1> QED BY <1>1, SavedInvariant, PTL

(* There always is a save point that a replay can start from: truncation   *)
(* leaves one at or before the furthest undo point (truncate_unreachable).  *)
THEOREM AlwaysHasSavePoint == ASSUME Assumed PROVE SyncSpec => []HasSavePoint
<1>1. SavedInv => HasSavePoint
  BY SavedSays
<1> QED BY <1>1, SavedInvariant, PTL

(* The canvas a user sees is always the one that the log, as the client    *)
(* has marked it, draws with the fork on top: local commands are shown at  *)
(* once, and neither rollbacks nor replays lose or repeat a drawing        *)
(* command (handle_remote_command).                                        *)
THEOREM CanvasIsAlwaysLog == ASSUME Assumed PROVE SyncSpec => []CanvasIsLog
<1>1. SavedInv => CanvasIsLog
  BY SavedSays
<1> QED BY <1>1, SavedInvariant, PTL

(* A client that has drawn ahead of the server shows what a client that    *)
(* only watches shows, with its own fork on top                            *)
(* (DP_canvas_history_handle).                                             *)
THEOREM AlwaysConverged ==
  ASSUME Assumed, "Undo" \notin Features PROVE SyncSpec => []Converged
<1>1. SyncInit => SavedInv /\ FollowInv
  BY SavedInitial
<1>2. SavedInv /\ FollowInv /\ [SyncNext]_syncVars => (SavedInv /\ FollowInv)'
  BY SavedStep DEF Assumed, Goes
<1>3. SavedInv /\ FollowInv => Converged
  BY SavedSays
<1> QED BY <1>1, <1>2, <1>3, PTL DEF SyncSpec

=============================================================================
