----------------------------- MODULE CanvasSync -----------------------------
(***************************************************************************)
(* One client of a session together with the order the server gives to     *)
(* everybody's commands.  The client draws its own commands at once and    *)
(* sends them; the server puts them between those of the other users and   *)
(* sends all of them back, the client's own included.                      *)
(*                                                                         *)
(* A second client that only watches gets the same commands from the       *)
(* server, one at a time.  It has no local fork: what it shows is what     *)
(* the client has to show once its own commands are acknowledged.          *)
(***************************************************************************)
EXTENDS CanvasHistory, SequencesExt

CONSTANTS
  LocalAreas,   \* what the client's drawing commands may touch
  RemoteAreas,  \* what the drawing commands of the other users may touch
  Features,     \* the kinds of traffic a run has, from AllFeatures
  NewLimit,     \* the undo depth that an UndoDepth message asks for
  MaxIssued,    \* bounds the commands the client issues
  MaxForeign,   \* bounds what the server sends besides
  MaxUplink     \* bounds the client's commands that are under way

AllFeatures == {"Undo", "Redo", "Override", "Filter", "SoftReset", "UndoDepth", "Reset",
                "Disconnect", "Multidab", "Undone", "Snapshot", "Drawing",
                "LongFork"}

ASSUME SyncAssumption ==
  /\ LocalAreas \cup RemoteAreas \subseteq Area
  /\ Features \subseteq AllFeatures
  /\ NewLimit \in Nat
  /\ {MaxIssued, MaxForeign, MaxUplink} \subseteq Nat

VARIABLES
  watcher,    \* the DP_CanvasHistory of the client that only watches
  uplink,     \* own commands that the server has not sent back yet
  connected,  \* the client is in the session
  archive,    \* entries of ch that were truncated since the last reset
  base,       \* the canvas at the last reset
  issued,     \* how many commands the client has issued
  foreign     \* how many messages the server has sent besides the client's

syncVars == <<ch, drawing, watcher, uplink, connected, archive, base, issued, foreign>>

Others == Users \ {LocalUser}

Strip(es) == [i \in DOMAIN es |-> [undo |-> es[i].undo, msg |-> es[i].msg]]

(* Every command since the last reset, the truncated ones included.        *)
log == archive \o Strip(ch.entries)

(* What the first n commands of the log draw.                              *)
TruthAt(n) ==
  Draw(base, [i \in DOMAIN log |-> log[i].msg],
       {i \in 1 .. n : log[i].undo = "Done" /\ IsDraw(log[i].msg)})

Truth == TruthAt(Len(log))

----------------------------------------------------------------------------
(* Messages.  The number of a drawing command tells it apart from others.  *)

DrawBy(user, n, area) == [type |-> "Draw", user |-> user, override |-> Nobody,
                          n |-> n, area |-> area]

UndoBy(type, user, override) == [type |-> type, user |-> user, override |-> override,
                                 n |-> 0, area |-> UserAttrs(AnyId)]

Overrides(user) ==
  IF "Override" \in Features THEN {Nobody} \cup (Users \ {user}) ELSE {Nobody}

UndosBy(user) ==
  {UndoBy(type, user, override) :
     type \in {"Undo", "Redo"} \cap Features,
     override \in Overrides(user)}

(* Ends the strokes of everybody; the client adds it when it disconnects.  *)
PenUpByNobody == DrawBy(Nobody, 0, Everything(AnyId))

----------------------------------------------------------------------------
(* What truncation has taken from the history goes to the archive.         *)
Archive ==
  /\ archive' = archive \o Strip(SubSeq(ch.entries, 1, ch'.offset - ch.offset))
  /\ UNCHANGED base

SyncInit ==
  /\ ch = DP_canvas_history_new(BlankCanvas) /\ drawing = FALSE
  /\ watcher = DP_canvas_history_new(BlankCanvas)
  /\ uplink = << >> /\ connected = TRUE
  /\ archive = << >> /\ base = BlankCanvas
  /\ issued = 0 /\ foreign = 0

(* The client issues a command: drawn here first, then sent.               *)
Issue(ms) ==
  /\ connected
  /\ issued + Len(ms) <= MaxIssued /\ Len(uplink) + Len(ms) <= MaxUplink
  /\ issued' = issued + Len(ms)
  /\ uplink' = uplink \o ms
  /\ UNCHANGED <<watcher, connected, archive, base, foreign>>

(* A fork is acknowledged before the undo limit has passed by it: the undo *)
(* points since its start and those under way are fewer than the limit.    *)
ForkIsShort ==
  LET since == IF have_local_fork(ch)
               THEN UndoPoints(ch.entries, fork_start_index(ch) + 1, Len(ch.entries)) ELSE 0
      underWay == Cardinality({i \in DOMAIN uplink : uplink[i].type = "UndoPoint"})
  IN "LongFork" \in Features \/ since + underWay + 1 < ch.limit

LocalUndoPoint ==
  /\ ForkIsShort
  /\ HandleLocal(UndoPointBy(LocalUser)) /\ Issue(<<UndoPointBy(LocalUser)>>)

LocalDraw ==
  \E area \in LocalAreas :
    LET m == DrawBy(LocalUser, issued + 1, area)
    IN HandleLocal(m) /\ Issue(<<m>>)

LocalUndo == \E m \in UndosBy(LocalUser) : HandleLocal(m) /\ Issue(<<m>>)

LocalDabs ==
  \E a1, a2 \in LocalAreas :
    LET ms == <<DrawBy(LocalUser, issued + 1, a1), DrawBy(LocalUser, issued + 2, a2)>>
    IN /\ "Multidab" \in Features
       /\ HandleLocalMultidab(ms) /\ Issue(ms)

(* Messages of the other users, and of the server itself.                  *)
Send(k) == foreign + k <= MaxForeign /\ foreign' = foreign + k

Deliver(m) ==
  /\ Handle(m)
  /\ Archive
  /\ UNCHANGED <<connected, issued>>

Watch(ms) ==
  \E stray \in StrayAreas :
    watcher' = FoldLeft(LAMBDA w, m : DP_canvas_history_handle(w, m, FALSE, stray),
                        watcher, ms)

Foreign(m) == connected /\ Send(1) /\ Deliver(m) /\ Watch(<<m>>) /\ UNCHANGED uplink

RemoteUndoPoint == ForkIsShort /\ \E user \in Others : Foreign(UndoPointBy(user))

(* An undone drawing command belongs to an undo point that is undone too.  *)
MayBeUndone(user) ==
  LET mine == UndoPointsBy(ch.entries, user, "Undone")
  IN Latest(mine) > Latest(UndoPointsBy(ch.entries, user, "Done"))

RemoteDraw ==
  \E user \in Others, area \in RemoteAreas :
    /\ ~ch.markDone => MayBeUndone(user)
    /\ Foreign(DrawBy(user, foreign + 1, area))

RemoteUndo == \E user \in Others : \E m \in UndosBy(user) : Foreign(m)

(* A reset image or a recording says that the next command is undone.      *)
MarkNextUndone ==
  /\ "Undone" \in Features
  /\ Foreign(UndoBy("Undo", Nobody, Nobody))

(* An own command comes back; without a server, from the client's queue.   *)
Echo ==
  /\ uplink # << >>
  /\ Deliver(Head(uplink))
  /\ uplink' = Tail(uplink)
  /\ UNCHANGED foreign
  /\ IF connected THEN Watch(<<Head(uplink)>>) ELSE UNCHANGED watcher

(* Dabs that wait in the remote queue are handled at once, own or not.     *)
Dabs ==
  \E user \in Others, area \in RemoteAreas, own \in BOOLEAN :
    LET m  == DrawBy(user, foreign + 1, area)
        ms == IF own THEN <<Head(uplink), m>>
                     ELSE <<m, DrawBy(user, foreign + 2, area)>>
    IN /\ "Multidab" \in Features /\ connected
       /\ own => uplink # << >> /\ IsDraw(Head(uplink))
       /\ Send(IF own THEN 1 ELSE 2)
       /\ HandleMultidab(ms) /\ Watch(ms)
       /\ Archive
       /\ uplink' = IF own THEN Tail(uplink) ELSE uplink
       /\ UNCHANGED <<connected, issued>>

(* Mutant: a filtered command leaves the fork alone.                       *)
EchoFilteredSilently ==
  /\ "Filter" \in Features /\ connected /\ uplink # << >>
  /\ uplink' = Tail(uplink)
  /\ UNCHANGED ch /\ UNCHANGED drawing
  /\ Archive
  /\ UNCHANGED <<watcher, connected, issued, foreign>>

(* An own command that the access rules filter reaches no history.         *)
EchoFiltered ==
  /\ "Filter" \in Features /\ connected /\ uplink # << >>
  /\ uplink' = Tail(uplink)
  /\ LocalForkClear
  /\ Archive
  /\ UNCHANGED <<watcher, connected, issued, foreign>>

Rebase(cs) == archive' = << >> /\ base' = cs

(* A soft reset and a change of the undo depth forget what can be undone.  *)
ServerSoftReset ==
  /\ "SoftReset" \in Features /\ connected /\ Send(1)
  /\ SoftReset /\ watcher' = DP_canvas_history_soft_reset(watcher)
  /\ Rebase(Truth)
  /\ UNCHANGED <<uplink, connected, issued>>

ServerUndoDepth ==
  /\ "UndoDepth" \in Features /\ connected /\ Send(1)
  /\ UndoDepthLimitSet(NewLimit)
  /\ watcher' = DP_canvas_history_undo_depth_limit_set(watcher, NewLimit)
  /\ Rebase(Truth)
  /\ UNCHANGED <<uplink, connected, issued>>

(* A session reset starts over, and the commands under way follow it.      *)
ServerReset ==
  /\ "Reset" \in Features /\ connected /\ Send(1)
  /\ Reset /\ watcher' = DP_canvas_history_reset(watcher)
  /\ Rebase(BlankCanvas)
  /\ UNCHANGED <<uplink, connected, issued>>

(* What the fork held becomes the end of the client's own history.  What   *)
(* was under way without being in the fork is lost.                        *)
Disconnect ==
  /\ "Disconnect" \in Features /\ connected
  /\ Cleanup
  /\ connected' = FALSE
  /\ uplink' = Append(ch.fork, PenUpByNobody)
  /\ Archive
  /\ UNCHANGED <<watcher, issued, foreign>>

Snapshot ==
  /\ "Snapshot" \in Features
  /\ SavePointMake
  /\ UNCHANGED <<watcher, uplink, connected, archive, base, issued, foreign>>

DrawingInProgress ==
  /\ "Drawing" \in Features
  /\ \E b \in BOOLEAN : b # drawing /\ LocalDrawingInProgressSet(b)
  /\ UNCHANGED <<watcher, uplink, connected, archive, base, issued, foreign>>

SyncNext ==
  \/ LocalUndoPoint \/ LocalDraw \/ LocalUndo \/ LocalDabs
  \/ RemoteUndoPoint \/ RemoteDraw \/ RemoteUndo \/ MarkNextUndone \/ Dabs
  \/ Echo \/ EchoFiltered
  \/ ServerSoftReset \/ ServerUndoDepth \/ ServerReset \/ Disconnect
  \/ Snapshot \/ DrawingInProgress

SyncSpec == SyncInit /\ [][SyncNext]_syncVars

(* The server sends every command it gets to everybody, its sender too; a  *)
(* client without a server takes them from its own queue.  This is weak    *)
(* fairness of Echo with its guard written out: Echo is enabled exactly    *)
(* while a command is under way.                                           *)
EchoFairness ==
  []<>(uplink = << >>) \/ []<><<Echo \/ EchoFiltered>>_syncVars

FairSpec == SyncSpec /\ EchoFairness

----------------------------------------------------------------------------
(* Properties.                                                             *)

(* The client's canvas is what the others see with the client's own        *)
(* unacknowledged commands on top; without such commands it is the same.   *)
Converged ==
  connected => ch.current = Draw(watcher.current, ch.fork, ForkDraws(ch))

(* Clients that truncate at different places still agree on what is done,  *)
(* undone and gone.                                                        *)
MarksAgree ==
  LET first == IF ch.offset > watcher.offset THEN ch.offset ELSE watcher.offset
  IN connected =>
       SubSeq(Strip(ch.entries), first - ch.offset + 1, Len(ch.entries))
         = SubSeq(Strip(watcher.entries), first - watcher.offset + 1, Len(watcher.entries))

(* An undo that arrived now would start at the same command on both        *)
(* clients, or be refused by both.                                         *)
StartAt(c, start) == IF start = 0 THEN 0 ELSE c.offset + start

UndosAgree ==
  connected => \A user \in Users :
    StartAt(ch, undo_start_of(ch.entries, ch.limit, user))
      = StartAt(watcher, undo_start_of(watcher.entries, watcher.limit, user))

(* A save point holds what the commands up to it draw, as they are marked  *)
(* now: a rollback that starts there is right.                             *)
SavePointsCoherent ==
  \A i \in DOMAIN ch.entries :
    ch.entries[i].state # NoState => ch.entries[i].state = TruthAt(Len(archive) + i)

(* Truncation leaves every undo point that an undo may reach, and a save   *)
(* point to replay from at it or before it.                                *)
UndoReachable ==
  \A i \in DOMAIN log :
    /\ is_undo_point_entry(log[i]) /\ Depth(log, i) <= ch.limit
    => /\ i > Len(archive)
       /\ search_save_point_index(ch.entries, i - Len(archive)) # 0

(* The fork holds own commands that are still under way, the latest ones;  *)
(* a command that came back or was filtered does not linger in it.         *)
ForkInFlight == IsSuffix(ch.fork, uplink)

(* The log behaves as undo and redo promise: the abstract specification.   *)
Undoing == INSTANCE UndoLog WITH limit <- ch.limit, markUndone <- ~ch.markDone

FollowsUndoLog == Undoing!Spec

(* A client that stops issuing commands gets rid of its fork, however the  *)
(* commands of others come in between.                                     *)
ForkDrains == have_local_fork(ch) ~> ~have_local_fork(ch)
=============================================================================
