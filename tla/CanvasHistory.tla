--------------------------- MODULE CanvasHistory ----------------------------
(***************************************************************************)
(* The canvas history of one client (canvas_history.c): the commands the   *)
(* server has ordered, with undo marks and save points, and the local fork *)
(* of own commands that are drawn already but not yet acknowledged.        *)
(*                                                                         *)
(* Each C function that takes the history is an operator from history to   *)
(* history with the function's name, so that a handler is the composition  *)
(* the code makes.  Positions count from 1 where the code's count from 0:  *)
(* entry i of the sequence has the absolute position offset + i.           *)
(***************************************************************************)
EXTENDS CanvasState, FiniteSets

CONSTANTS
  LocalUser,         \* the user whose client this is
  NoState,           \* a NULL canvas state
  StrayAreas,        \* what fork_entries_concurrent_with may read as an area
  AnyId,             \* the id of an area that has none
  MAX_FALLBEHIND,    \* foreign commands a fork outlives
  UndoDepthDefault,  \* DP_UNDO_DEPTH_DEFAULT
  UndoDepthMin,      \* DP_CANVAS_HISTORY_UNDO_DEPTH_MIN
  UndoDepthMax       \* DP_CANVAS_HISTORY_UNDO_DEPTH_MAX

ASSUME HistoryAssumption ==
  /\ LocalUser \in Users
  /\ NoState \notin Canvas
  /\ StrayAreas \subseteq Area
  /\ AnyId \in Ids
  /\ MAX_FALLBEHIND \in Nat \ {0}
  /\ UndoDepthMin \in Nat \ {0}
  /\ UndoDepthMax \in Nat
  /\ UndoDepthDefault \in UndoDepthMin..UndoDepthMax

VARIABLES
  ch,       \* the DP_CanvasHistory
  drawing   \* local_drawing_in_progress, set from the main thread

vars == <<ch, drawing>>

Entry == [undo : {"Done", "Undone", "Gone"}, msg : Message,
          state : Canvas \cup {NoState}]

History == [entries : Seq(Entry), offset : Nat, current : Canvas,
            fork : Seq(Message), forkStart : Nat, forkAtUndoPoint : BOOLEAN,
            fallbehind : Nat, markDone : BOOLEAN,
            limit : UndoDepthMin..UndoDepthMax]

----------------------------------------------------------------------------
(* Sets of positions.                                                      *)

Latest(S) == IF \E i \in S : \A j \in S : j <= i
             THEN CHOOSE i \in S : \A j \in S : j <= i ELSE 0

Earliest(S) == IF \E i \in S : \A j \in S : i <= j
               THEN CHOOSE i \in S : \A j \in S : i <= j ELSE 0

is_undo_point_entry(e) == e.msg.type = "UndoPoint"

(* How many undo points lie in es[lo..hi].                                 *)
UndoPoints(es, lo, hi) == Cardinality({i \in lo..hi : is_undo_point_entry(es[i])})

(* Undo points from position i to the end: how deep an undo to i reaches.  *)
Depth(es, i) == UndoPoints(es, i, Len(es))

is_done_entry_by(e, user) == e.undo = "Done" /\ e.msg.user = user

is_valid_save_point_entry(e) ==
  e.undo = "Done" \/ (e.undo = "Undone" /\ is_undo_point_entry(e))

UndoPointBy(user) == [type |-> "UndoPoint", user |-> user, override |-> Nobody,
                      n |-> 0, area |-> UserAttrs(AnyId)]

----------------------------------------------------------------------------
(* The local fork.                                                         *)

have_local_fork(c) == c.fork # << >>

fork_start_index(c) == c.forkStart - c.offset

set_fork_start(c, atUndoPoint) ==
  [c EXCEPT !.forkAtUndoPoint = atUndoPoint,
            !.forkStart = c.offset + Len(c.entries)]

(* The predicate is handed the address of a pointer: it compares the fork  *)
(* with the bytes at that address (stray), never with the command's area.  *)
fork_entries_concurrent_with(c, stray) ==
  \A i \in DOMAIN c.fork : DP_affected_area_concurrent_with(stray, c.fork[i].area)

ForkDraws(c) == {i \in DOMAIN c.fork : IsDraw(c.fork[i])}

(* Mutant: the fork goes on from where it started before.                  *)
replay_fork_keeping_start(c, cs) == [c EXCEPT !.current = Draw(cs, c.fork, ForkDraws(c))]

replay_fork_dec(c, cs) ==
  [set_fork_start(c, Head(c.fork).type = "UndoPoint")
     EXCEPT !.current = Draw(cs, c.fork, ForkDraws(c))]

----------------------------------------------------------------------------
(* Entries, save points and replays.                                       *)

append_to_history(c, m, undo) ==
  [c EXCEPT !.entries = Append(@, [undo |-> undo, msg |-> m, state |-> NoState])]

InitialEntry(cs) == [undo |-> "Done", msg |-> UndoPointBy(Nobody), state |-> cs]

search_save_point_index(es, target) ==
  Latest({i \in 1..target : es[i].state # NoState})

find_save_point_index(es) ==
  Latest({i \in DOMAIN es : is_valid_save_point_entry(es[i])})

WithState(es, i, state) == [es EXCEPT ![i] = [es[i] EXCEPT !.state = state]]

make_save_point(c, i) ==
  IF c.entries[i].state # NoState THEN c
  ELSE [c EXCEPT !.entries = WithState(@, i, c.current)]

(* cs, the state at position start, brought forward to position i.         *)
ReplayedTo(es, start, cs, i) ==
  Draw(cs, [j \in DOMAIN es |-> es[j].msg],
       {j \in start + 1 .. i : es[j].undo = "Done" /\ IsDraw(es[j].msg)})

replay_from(c, start, withFork) ==
  LET es == c.entries
      cs == es[start].state
      es2 == [i \in DOMAIN es |->
                IF i > start /\ es[i].undo # "Gone" /\ is_undo_point_entry(es[i])
                THEN [es[i] EXCEPT !.state = ReplayedTo(es, start, cs, i)]
                ELSE es[i]]
      end == ReplayedTo(es, start, cs, Len(es))
      c2 == [c EXCEPT !.entries = es2]
  IN IF withFork /\ have_local_fork(c)
     THEN replay_fork_dec(c2, end)
     ELSE [c2 EXCEPT !.current = end]

(* Without a save point the replay fails and the canvas stays as it is.    *)
search_and_replay_from(c, target, withFork) ==
  LET start == search_save_point_index(c.entries, target)
  IN IF start = 0 THEN c ELSE replay_from(c, start, withFork)

rollback(c) == search_and_replay_from(c, fork_start_index(c), TRUE)

----------------------------------------------------------------------------
(* Undo points.                                                            *)

(* Where mark_undone_actions_gone stops on its way back from the undo      *)
(* point at the end: after undo_depth_limit undo points, or at an entry of *)
(* the user that is gone already.  There it has counted that entry.        *)
GoneStop(c) ==
  LET es == c.entries
      n == Len(es)
      deep == Latest({i \in 1 .. n - 1 : Depth(es, i + 1) >= c.limit})
      gone == Latest({i \in 1 .. n - 1 : es[i].undo = "Gone"
                                         /\ es[i].msg.user = es[n].msg.user})
  IN IF gone > deep THEN [at |-> gone, depth |-> Depth(es, gone)]
                    ELSE [at |-> deep, depth |-> Depth(es, deep + 1)]

mark_undone_actions_gone(c, stop) ==
  LET es == c.entries
      user == es[Len(es)].msg.user
  IN [c EXCEPT !.entries = [i \in DOMAIN es |->
        IF i \in stop + 1 .. Len(es) - 1
           /\ es[i].undo = "Undone" /\ es[i].msg.user = user
        THEN [es[i] EXCEPT !.undo = "Gone", !.state = NoState]
        ELSE es[i]]]

(* Mutant: there need not be a save point where the history starts.        *)
FirstReachable_unsaved(c, stop) ==
  LET es == c.entries
      deep == Latest({i \in 1 .. stop.at :
                 stop.depth + UndoPoints(es, i + 1, stop.at) >= c.limit})
      kept == IF have_local_fork(c) /\ deep > fork_start_index(c)
              THEN fork_start_index(c) ELSE deep
  IN IF kept > 1 THEN kept ELSE 1

(* The first position that stays: the loop goes on from stop.at, which it  *)
(* counts again, down to the depth limit, the fork start and a save point. *)
FirstReachable(c, stop) ==
  LET es == c.entries
      deep == Latest({i \in 1 .. stop.at :
                 stop.depth + UndoPoints(es, i + 1, stop.at) >= c.limit})
      kept == IF have_local_fork(c) /\ deep > fork_start_index(c)
              THEN fork_start_index(c) ELSE deep
      saved == search_save_point_index(es, kept)
  IN IF saved > 1 THEN saved ELSE 1

truncate_history(c, first) ==
  [c EXCEPT !.entries = SubSeq(@, first, Len(@)), !.offset = @ + (first - 1)]

truncate_unreachable(c, stop) == truncate_history(c, FirstReachable(c, stop))

(* Mutant: a save point is made of the canvas with the fork on it.         *)
handle_undo_point_saving_always(c) ==
  LET saved == make_save_point(c, Len(c.entries))
      stop == GoneStop(saved)
  IN truncate_unreachable(mark_undone_actions_gone(saved, stop.at), stop)

handle_undo_point(c) ==
  LET saved == IF have_local_fork(c) THEN c ELSE make_save_point(c, Len(c.entries))
      stop == GoneStop(saved)
  IN truncate_unreachable(mark_undone_actions_gone(saved, stop.at), stop)

----------------------------------------------------------------------------
(* Undo and redo.                                                          *)

UndoPointsBy(es, user, undo) ==
  {i \in DOMAIN es : is_undo_point_entry(es[i]) /\ es[i].msg.user = user
                     /\ es[i].undo = undo}

(* Mutant: the states that a fork left on other entries stay.              *)
mark_entries_undone_keeping_states(es, user, start) ==
  [i \in DOMAIN es |->
     IF i >= start /\ is_done_entry_by(es[i], user)
     THEN [es[i] EXCEPT !.undo = "Undone"] ELSE es[i]]

mark_entries_undone(es, user, start) ==
  [i \in DOMAIN es |->
     IF i < start THEN es[i]
     ELSE [es[i] EXCEPT !.undo = IF is_done_entry_by(es[i], user) THEN "Undone" ELSE @,
                        !.state = IF is_undo_point_entry(es[i]) THEN @ ELSE NoState]]

(* Where an undo of the user starts, or 0 when it is refused.              *)
undo_start_of(es, limit, user) ==
  LET start == Latest(UndoPointsBy(es, user, "Done"))
  IN IF start # 0 /\ Depth(es, start) <= limit THEN start ELSE 0

(* Mutant: the replay leaves the fork out.                                 *)
undo_without_fork(c, user) ==
  LET start == undo_start_of(c.entries, c.limit, user)
  IN IF start = 0 THEN c
     ELSE search_and_replay_from(
            [c EXCEPT !.entries = mark_entries_undone(@, user, start)], start, FALSE)

undo(c, user) ==
  LET start == undo_start_of(c.entries, c.limit, user)
  IN IF start = 0 THEN c
     ELSE search_and_replay_from(
            [c EXCEPT !.entries = mark_entries_undone(@, user, start)], start, TRUE)

(* The scan for a redo point ends at the user's last done undo point.      *)
(* When it has none, it runs on, and gives up once the undo points of      *)
(* everybody that it passed are more than the limit.                       *)
redo_start_of(es, limit, user) ==
  LET done == Latest(UndoPointsBy(es, user, "Done"))
      passed == IF done = 0 THEN Depth(es, 1) ELSE Depth(es, done)
  IN IF passed > limit THEN 0
     ELSE Earliest({i \in UndoPointsBy(es, user, "Undone") : i > done})

(* Mutant: all that the user has undone comes back.                        *)
mark_entries_redone_to_the_end(es, user, start) ==
  [i \in DOMAIN es |->
     IF i >= start /\ es[i].msg.user = user /\ es[i].undo = "Undone"
     THEN [es[i] EXCEPT !.undo = "Done"] ELSE es[i]]

mark_entries_redone(es, user, start) ==
  LET next == Earliest({i \in DOMAIN es : i > start /\ is_undo_point_entry(es[i])
                           /\ es[i].msg.user = user /\ es[i].undo # "Gone"})
      end == IF next = 0 THEN Len(es) ELSE next - 1
  IN [i \in DOMAIN es |->
        IF i \in start .. end /\ es[i].msg.user = user /\ es[i].undo = "Undone"
        THEN [es[i] EXCEPT !.undo = "Done"] ELSE es[i]]

redo(c, user) ==
  LET start == redo_start_of(c.entries, c.limit, user)
  IN IF start = 0 THEN c
     ELSE search_and_replay_from(
            [c EXCEPT !.entries = mark_entries_redone(@, user, start)], start, TRUE)

get_undo_context_id(m) == IF m.override = Nobody THEN m.user ELSE m.override

handle_undo(c, m) ==
  IF m.type = "Redo" THEN redo(c, get_undo_context_id(m))
                     ELSE undo(c, get_undo_context_id(m))

----------------------------------------------------------------------------
(* Commands from the server.                                               *)

handle_drawing_command(c, m) == [c EXCEPT !.current = DrawOne(@, m)]

handle_command(c, m) ==
  CASE m.type = "UndoPoint" -> handle_undo_point(c)
    [] IsUndo(m)            -> handle_undo(c, m)
    [] IsDraw(m)            -> handle_drawing_command(c, m)

match_message(m, peeked) ==
  m.type = peeked.type /\ m.override = peeked.override /\ m.n = peeked.n

clear_fork_fallbehind(c) ==
  LET i == fork_start_index(c)
      c2 == [c EXCEPT !.fallbehind = 0]
  IN IF c.forkAtUndoPoint \/ is_undo_point_entry(c.entries[i]) THEN c2
     ELSE [c2 EXCEPT !.entries = WithState(@, i, NoState)]

maybe_append_to_history(c, m) ==
  IF IsUndo(m) THEN c ELSE append_to_history(c, m, "Done")

(* reconcile_remote_command: the history once the fork is reconciled with  *)
(* the command, and what is left to do with the command.                   *)
reconcile_remote_command(c, m, isDrawing, stray) ==
  LET c1 == maybe_append_to_history(c, m)
      behind == c1.fallbehind + 1
      cleared == [c1 EXCEPT !.fork = << >>]
      shifted == [c1 EXCEPT !.fork = Tail(@)]
  IN IF ~have_local_fork(c) THEN [ch |-> c1, action |-> "Concurrent"]
     ELSE IF m.user = Head(c.fork).user THEN
       IF match_message(m, Head(c.fork))
       THEN [ch     |-> IF Len(c.fork) = 1 THEN clear_fork_fallbehind(shifted) ELSE shifted,
             action |-> IF IsDraw(m) THEN "AlreadyDone" ELSE "Concurrent"]
       ELSE [ch |-> [cleared EXCEPT !.fallbehind = 0], action |-> "Rollback"]
     ELSE IF behind >= MAX_FALLBEHIND
     THEN [ch |-> [cleared EXCEPT !.fallbehind = 0], action |-> "Rollback"]
     ELSE IF fork_entries_concurrent_with(c, stray)
     THEN [ch |-> [c1 EXCEPT !.fallbehind = behind], action |-> "Concurrent"]
     ELSE [ch     |-> [(IF isDrawing THEN c1 ELSE cleared) EXCEPT !.fallbehind = behind],
           action |-> "Rollback"]

(* Mutant: an own command that comes back has been handled already.        *)
handle_remote_command_own_done(c, m, isDrawing, stray) ==
  LET r == reconcile_remote_command(c, m, isDrawing, stray)
      own == have_local_fork(c) /\ m.user = Head(c.fork).user
  IN CASE r.action = "Concurrent"  -> IF own THEN r.ch ELSE handle_command(r.ch, m)
       [] r.action = "Rollback"    -> rollback(r.ch)
       [] r.action = "AlreadyDone" -> r.ch

handle_remote_command(c, m, isDrawing, stray) ==
  LET r == reconcile_remote_command(c, m, isDrawing, stray)
  IN CASE r.action = "Concurrent"  -> handle_command(r.ch, m)
       [] r.action = "Rollback"    -> rollback(r.ch)
       [] r.action = "AlreadyDone" -> r.ch

(* An undo of user 0 marks the next command as undone; it is how a reset   *)
(* image or a recording carries undone commands.                           *)
DP_canvas_history_handle(c, m, isDrawing, stray) ==
  IF IsUndo(m) /\ get_undo_context_id(m) = Nobody THEN [c EXCEPT !.markDone = FALSE]
  ELSE IF IsUndo(m) \/ c.markDone THEN handle_remote_command(c, m, isDrawing, stray)
  ELSE append_to_history([c EXCEPT !.markDone = TRUE], m, "Undone")

(* Several dabs at once.  They are appended and reconciled one by one, but *)
(* drawn together at the end, except those a rollback has drawn.           *)
(* Mutant: the dabs that a rollback has drawn are drawn again.             *)
MultidabStep_keeping_pending(b, m, isDrawing, stray) ==
  LET r == reconcile_remote_command(b.ch, m, isDrawing, stray)
  IN CASE r.action = "Concurrent"  -> [ch |-> r.ch, pending |-> Append(b.pending, m)]
       [] r.action = "Rollback"    -> [ch |-> rollback(r.ch), pending |-> b.pending]
       [] r.action = "AlreadyDone" -> [ch |-> r.ch, pending |-> b.pending]

MultidabStep(b, m, isDrawing, stray) ==
  LET r == reconcile_remote_command(b.ch, m, isDrawing, stray)
  IN CASE r.action = "Concurrent"  -> [ch |-> r.ch, pending |-> Append(b.pending, m)]
       [] r.action = "Rollback"    -> [ch |-> rollback(r.ch), pending |-> << >>]
       [] r.action = "AlreadyDone" -> [ch |-> r.ch, pending |-> b.pending]

DP_canvas_history_handle_multidab_dec(c, ms, isDrawing, stray) ==
  LET run[i \in 0 .. Len(ms)] ==
        IF i = 0 THEN [ch |-> c, pending |-> << >>]
        ELSE MultidabStep(run[i - 1], ms[i], isDrawing, stray)
      b == run[Len(ms)]
  IN [b.ch EXCEPT !.current = Draw(@, b.pending, DOMAIN b.pending)]

----------------------------------------------------------------------------
(* Local commands, and what else the paint engine asks of the history.     *)

StartFork(c, m) ==
  IF have_local_fork(c) THEN c
  ELSE make_save_point(set_fork_start(c, m.type = "UndoPoint"),
                       find_save_point_index(c.entries))

DP_canvas_history_handle_local(c, m) ==
  LET pushed == [StartFork(c, m) EXCEPT !.fork = Append(@, m)]
  IN IF IsDraw(m) THEN handle_drawing_command(pushed, m) ELSE pushed

DP_canvas_history_handle_local_multidab_dec(c, ms) ==
  LET pushed == [StartFork(c, Head(ms)) EXCEPT !.fork = @ \o ms]
  IN [pushed EXCEPT !.current = Draw(@, ms, DOMAIN ms)]

DP_canvas_history_local_fork_clear(c) ==
  IF have_local_fork(c) THEN rollback([c EXCEPT !.fork = << >>]) ELSE c

(* Mutant: a disconnect leaves the fork as it is.                          *)
cleanup_keeping_fork(c) == c

(* On a disconnect the fork's commands go to the end of the remote queue,  *)
(* and a pen up that ends every stroke after them.                         *)
DP_canvas_history_cleanup(c) == DP_canvas_history_local_fork_clear(c)

(* Mutant: a fork does not keep a save point from being made.              *)
save_point_make_always(c) == make_save_point(c, find_save_point_index(c.entries))

DP_canvas_history_save_point_make(c) ==
  IF have_local_fork(c) THEN c
  ELSE make_save_point(c, find_save_point_index(c.entries))

reset_to_state(c, cs) ==
  [c EXCEPT !.current = cs, !.entries = <<InitialEntry(cs)>>, !.offset = 0,
            !.markDone = TRUE]

DP_canvas_history_reset_to_state(c, cs) == reset_to_state([c EXCEPT !.fork = << >>], cs)

DP_canvas_history_reset(c) ==
  [DP_canvas_history_reset_to_state(c, BlankCanvas) EXCEPT !.limit = UndoDepthDefault]

(* Mutant: the canvas with the fork on it becomes the start.               *)
ResetKeepingFork_on_top(c) ==
  LET c2 == reset_to_state(c, c.current)
  IN IF have_local_fork(c) THEN replay_fork_dec(c2, c2.current) ELSE c2

(* The canvas without the fork becomes the start of an empty history, on   *)
(* which the fork is drawn again.                                          *)
ResetKeepingFork(c) ==
  LET bare == IF have_local_fork(c)
              THEN search_and_replay_from(c, fork_start_index(c), FALSE) ELSE c
      c2 == reset_to_state(bare, bare.current)
  IN IF have_local_fork(c) THEN replay_fork_dec(c2, c2.current) ELSE c2

DP_canvas_history_soft_reset(c) == ResetKeepingFork(c)

(* Mutant: the depth is taken as it comes.                                 *)
undo_depth_limit_set_unclamped(c, limit) == ResetKeepingFork([c EXCEPT !.limit = limit])

DP_canvas_history_undo_depth_limit_set(c, limit) ==
  LET effective == IF limit < UndoDepthMin THEN UndoDepthMin
                   ELSE IF limit > UndoDepthMax THEN UndoDepthMax ELSE limit
  IN ResetKeepingFork([c EXCEPT !.limit = effective])

DP_canvas_history_new(cs) ==
  [entries |-> <<InitialEntry(cs)>>, offset |-> 0, current |-> cs, fork |-> << >>,
   forkStart |-> 0, forkAtUndoPoint |-> FALSE, fallbehind |-> 0,
   markDone |-> TRUE, limit |-> UndoDepthDefault]

----------------------------------------------------------------------------
(* One action per entry point, taken by the paint thread.                  *)

Init == ch = DP_canvas_history_new(BlankCanvas) /\ drawing = FALSE

Handle(m) ==
  /\ \E stray \in StrayAreas : ch' = DP_canvas_history_handle(ch, m, drawing, stray)
  /\ UNCHANGED drawing

HandleMultidab(ms) ==
  /\ \E stray \in StrayAreas :
       ch' = DP_canvas_history_handle_multidab_dec(ch, ms, drawing, stray)
  /\ UNCHANGED drawing

HandleLocal(m) == ch' = DP_canvas_history_handle_local(ch, m) /\ UNCHANGED drawing

HandleLocalMultidab(ms) ==
  ch' = DP_canvas_history_handle_local_multidab_dec(ch, ms) /\ UNCHANGED drawing

LocalForkClear == ch' = DP_canvas_history_local_fork_clear(ch) /\ UNCHANGED drawing

Cleanup == ch' = DP_canvas_history_cleanup(ch) /\ UNCHANGED drawing

SavePointMake == ch' = DP_canvas_history_save_point_make(ch) /\ UNCHANGED drawing

Reset == ch' = DP_canvas_history_reset(ch) /\ UNCHANGED drawing

ResetToState(cs) == ch' = DP_canvas_history_reset_to_state(ch, cs) /\ UNCHANGED drawing

SoftReset == ch' = DP_canvas_history_soft_reset(ch) /\ UNCHANGED drawing

UndoDepthLimitSet(limit) ==
  ch' = DP_canvas_history_undo_depth_limit_set(ch, limit) /\ UNCHANGED drawing

LocalDrawingInProgressSet(b) == drawing' = b /\ UNCHANGED ch

DabMessages == {m \in Message : IsDraw(m)}

OwnDabMessages == {m \in DabMessages : m.user = LocalUser}

Next ==
  \/ \E m \in Message : Handle(m)
  \/ \E m \in Message : m.user = LocalUser /\ HandleLocal(m)
  \/ \E ms \in Seq(DabMessages) : HandleMultidab(ms)
  \/ \E ms \in Seq(OwnDabMessages) : ms # << >> /\ HandleLocalMultidab(ms)
  \/ LocalForkClear \/ Cleanup \/ SavePointMake \/ Reset \/ SoftReset
  \/ \E cs \in Canvas : ResetToState(cs)
  \/ \E limit \in Nat : UndoDepthLimitSet(limit)
  \/ \E b \in BOOLEAN : LocalDrawingInProgressSet(b)

Spec == Init /\ [][Next]_vars

----------------------------------------------------------------------------
(* What validate_history and the handlers assert.                          *)

TypeOK == ch \in History /\ drawing \in BOOLEAN

(* An entry that holds a state is one a replay may start from.             *)
SavePointsValid ==
  \A i \in DOMAIN ch.entries :
    ch.entries[i].state # NoState => is_valid_save_point_entry(ch.entries[i])

(* The entry a rollback goes back to is still part of the history.         *)
ForkStartReachable ==
  have_local_fork(ch) =>
    ch.forkStart \in ch.offset + 1 .. ch.offset + Len(ch.entries)

(* There is a place to replay from.                                        *)
HasSavePoint == \E i \in DOMAIN ch.entries : ch.entries[i].state # NoState
=============================================================================
