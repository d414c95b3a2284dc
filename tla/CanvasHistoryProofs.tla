------------------------ MODULE CanvasHistoryProofs -------------------------
(***************************************************************************)
(* What validate_history asserts of a canvas history after each handler,   *)
(* proved for every value of the constants: the history has its type, a    *)
(* save point is held only by an entry that a replay may start from, and   *)
(* the entry that the local fork starts at is still there.                 *)
(* Then what the handlers do to the canvas: whichever save point a replay  *)
(* starts from, it draws what all commands of the history draw.            *)
(***************************************************************************)
EXTENDS CanvasHistory, DataFacts, FiniteSetTheorems

----------------------------------------------------------------------------
(* Facts about data.                                                       *)

(* A sequence changed pointwise is a sequence of the same length.          *)
LEMMA PointwiseSeq ==
  ASSUME NEW S, NEW s, NEW n \in Nat, NEW f \in [1 .. n -> S]
  PROVE  f \in Seq(S) /\ Len(f) = n /\ DOMAIN f = 1 .. n
OBVIOUS

(* The latest of a set of positions is in it, or is 0.                     *)
LEMMA LatestIn == ASSUME NEW S PROVE Latest(S) \in S \cup {0}
BY DEF Latest

(* The earliest of a set of positions is in it, or is 0.                   *)
LEMMA EarliestIn == ASSUME NEW S PROVE Earliest(S) \in S \cup {0}
BY DEF Earliest

----------------------------------------------------------------------------
(* Messages and canvases.                                                  *)

(* The undo points the code makes up itself are messages.                  *)
LEMMA UndoPointType == ASSUME NEW user \in Users \cup {Nobody}
                       PROVE  UndoPointBy(user) \in Message
<1>1. UserAttrs(AnyId) \in Area
  BY HistoryAssumption DEF HistoryAssumption, UserAttrs, Area, Domains
<1> QED BY <1>1 DEF UndoPointBy, Message

(* Drawing commands on a canvas gives a canvas.                            *)
LEMMA DrawType ==
  ASSUME NEW cs \in Canvas, NEW msgs \in Seq(Message), NEW D, D \subseteq DOMAIN msgs
  PROVE  Draw(cs, msgs, D) \in Canvas
<1> DEFINE new    == cs.applied \cup {msgs[i] : i \in D}
           before == {{<<x, msgs[i]>> : x \in {y \in cs.applied :
                                   MustStayOrdered(y, msgs[i])}} : i \in D}
           among  == {{<<msgs[i], msgs[j]>> : i \in {k \in D :
                                   k < j /\ MustStayOrdered(msgs[k], msgs[j])}} : j \in D}
<1>1. \A i \in D : msgs[i] \in Message
  BY ElementOfSeq, LenProperties
<1>2. cs.applied \in SUBSET Message /\ cs.order \in SUBSET (Message \X Message)
  BY DEF Canvas
<1>3. new \in SUBSET Message
  BY <1>1, <1>2
<1>4. before \in SUBSET SUBSET (Message \X Message)
  <2> SUFFICES ASSUME NEW i \in D, NEW x \in cs.applied
               PROVE  <<x, msgs[i]>> \in Message \X Message
    OBVIOUS
  <2> QED BY <1>1, <1>2
<1>5. among \in SUBSET SUBSET (Message \X Message)
  <2> SUFFICES ASSUME NEW j \in D, NEW i \in D
               PROVE  <<msgs[i], msgs[j]>> \in Message \X Message
    OBVIOUS
  <2> QED BY <1>1
<1>6. Draw(cs, msgs, D) = [applied |-> new, order |-> cs.order \cup UNION (before \cup among)]
  BY DEF Draw
<1> HIDE DEF new, before, among
<1>7. cs.order \cup UNION (before \cup among) \in SUBSET (Message \X Message)
  BY <1>2, <1>4, <1>5
<1> QED BY <1>3, <1>6, <1>7 DEF Canvas

(* So does drawing one.                                                    *)
LEMMA DrawOneType == ASSUME NEW cs \in Canvas, NEW m \in Message
                     PROVE  DrawOne(cs, m) \in Canvas
<1>1. <<m>> \in Seq(Message) /\ {1} \subseteq DOMAIN <<m>>
  OBVIOUS
<1> QED BY <1>1, DrawType DEF DrawOne

----------------------------------------------------------------------------
(* The inductive invariant.  A history is sound when every entry with a    *)
(* state may have one, and the fork starts at an entry that is there.      *)

SoundEntry == {e \in Entry : e.state # NoState => is_valid_save_point_entry(e)}

SoundHistory == [entries : Seq(SoundEntry), offset : Nat, current : Canvas,
                 fork : Seq(Message), forkStart : Nat, forkAtUndoPoint : BOOLEAN,
                 fallbehind : Nat, markDone : BOOLEAN,
                 limit : UndoDepthMin..UndoDepthMax]

ForkPoint(c) == c.forkStart \in c.offset + 1 .. c.offset + Len(c.entries)

StartsWithin(c) == have_local_fork(c) => ForkPoint(c)

Sound(c) == c \in SoundHistory /\ c.entries # << >> /\ StartsWithin(c)

SoundInv == Sound(ch) /\ drawing \in BOOLEAN

(* A NULL canvas state is told apart from every canvas.                    *)
LEMMA NoStateIsNoCanvas == NoState \notin Canvas
BY HistoryAssumption DEF HistoryAssumption

(* Which changes of one entry keep it sound.                               *)
LEMMA NewEntry ==
  ASSUME NEW m \in Message, NEW u \in {"Done", "Undone"}
  PROVE  [undo |-> u, msg |-> m, state |-> NoState] \in SoundEntry
BY DEF SoundEntry, Entry

(* Dropping a state keeps an entry sound.                                  *)
LEMMA ClearState ==
  ASSUME NEW e \in SoundEntry
  PROVE  [e EXCEPT !.state = NoState] \in SoundEntry
BY DEF SoundEntry, Entry

(* A state may be saved on an entry that is a valid save point.            *)
LEMMA SaveState ==
  ASSUME NEW e \in SoundEntry, is_valid_save_point_entry(e), NEW cs \in Canvas
  PROVE  [e EXCEPT !.state = cs] \in SoundEntry
BY DEF SoundEntry, Entry, is_valid_save_point_entry, is_undo_point_entry

(* One field of a history changed.                                         *)
LEMMA EntriesChanged ==
  ASSUME NEW c \in SoundHistory, NEW es \in Seq(SoundEntry)
  PROVE  [c EXCEPT !.entries = es] \in SoundHistory
BY DEF SoundHistory

(* New entries, as many as before, keep a history sound.                   *)
LEMMA ChangedEntries ==
  ASSUME NEW c, Sound(c), NEW es \in Seq(SoundEntry), Len(es) = Len(c.entries)
  PROVE  Sound([c EXCEPT !.entries = es])
<1>1. Len(c.entries) \in Nat \ {0} /\ es # << >>
  BY EmptySeq, LenProperties DEF Sound, SoundHistory
<1> QED BY <1>1 DEF Sound, SoundHistory, StartsWithin, ForkPoint, have_local_fork

(* A new canvas keeps a history sound.                                     *)
LEMMA ChangedCanvas ==
  ASSUME NEW c, Sound(c), NEW cs \in Canvas
  PROVE  Sound([c EXCEPT !.current = cs])
BY DEF Sound, SoundHistory, StartsWithin, ForkPoint, have_local_fork

----------------------------------------------------------------------------
(* Fork and entries.                                                       *)

(* A history is never empty, and its entries are sound.                    *)
LEMMA IntactEntries ==
  ASSUME NEW c \in SoundHistory, c.entries # << >>
  PROVE  /\ c.entries \in Seq(SoundEntry)
         /\ Len(c.entries) \in Nat \ {0}
         /\ DOMAIN c.entries = 1 .. Len(c.entries)
         /\ \A i \in DOMAIN c.entries : c.entries[i] \in SoundEntry
<1>1. c.entries \in Seq(SoundEntry)
  BY DEF SoundHistory
<1> QED BY <1>1, EmptySeq, LenProperties, ElementOfSeq

(* What the other proofs use of the entries of a sound history.            *)
LEMMA Entries ==
  ASSUME NEW c, Sound(c)
  PROVE  /\ c.entries \in Seq(SoundEntry)
         /\ Len(c.entries) \in Nat \ {0}
         /\ DOMAIN c.entries = 1 .. Len(c.entries)
         /\ \A i \in DOMAIN c.entries : c.entries[i] \in SoundEntry
BY IntactEntries DEF Sound

(* A fork may start at the end of any history.                             *)
LEMMA SetForkStart ==
  ASSUME NEW c \in SoundHistory, c.entries # << >>, NEW b, b \in BOOLEAN
  PROVE  LET d == set_fork_start(c, b)
         IN Sound(d) /\ ForkPoint(d) /\ d.entries = c.entries
<1> DEFINE start == c.offset + Len(c.entries)
           d == [c EXCEPT !.forkAtUndoPoint = b, !.forkStart = start]
<1>1. c.entries \in Seq(SoundEntry) /\ Len(c.entries) \in Nat \ {0} /\ c.offset \in Nat
  BY IntactEntries DEF SoundHistory
<1>2. start \in Nat /\ start \in c.offset + 1 .. c.offset + Len(c.entries)
  BY <1>1
<1> HIDE DEF start
<1>3. d \in SoundHistory /\ d.entries = c.entries /\ d.offset = c.offset /\ d.forkStart = start
  BY <1>2 DEF SoundHistory
<1>4. Sound(d) /\ ForkPoint(d)
  BY <1>2, <1>3 DEF Sound, StartsWithin, ForkPoint
<1> QED BY <1>3, <1>4 DEF set_fork_start, start

(* Clearing the fork keeps a history sound.                                *)
LEMMA ClearFork ==
  ASSUME NEW c, Sound(c)
  PROVE  Sound([c EXCEPT !.fork = << >>])
<1>1. << >> \in Seq(Message)
  BY EmptySeq
<1> DEFINE none == << >>
<1>2. none \in Seq(Message) /\ none = << >>
  BY <1>1
<1> HIDE DEF none
<1>3. Sound([c EXCEPT !.fork = none])
  BY <1>2 DEF Sound, SoundHistory, StartsWithin, ForkPoint, have_local_fork
<1> QED BY <1>2, <1>3

(* Dropping the oldest fork entry keeps a history sound.                   *)
LEMMA ForkTail ==
  ASSUME NEW c, Sound(c), have_local_fork(c)
  PROVE  Sound([c EXCEPT !.fork = Tail(c.fork)])
<1>1. c.fork \in Seq(Message) /\ c.fork # << >>
  BY DEF Sound, SoundHistory, have_local_fork
<1>2. Tail(c.fork) \in Seq(Message)
  BY <1>1, HeadTailProperties
<1> QED BY <1>1, <1>2 DEF Sound, SoundHistory, StartsWithin, ForkPoint, have_local_fork

(* Counting how far the fork is behind keeps a history sound.              *)
LEMMA FallBehind ==
  ASSUME NEW c, Sound(c), NEW n \in Nat
  PROVE  Sound([c EXCEPT !.fallbehind = n])
BY DEF Sound, SoundHistory, StartsWithin, ForkPoint, have_local_fork

(* append_to_history: the new entry is the last one, and has no state.     *)
LEMMA AppendToHistory ==
  ASSUME NEW c, Sound(c), NEW m \in Message, NEW u \in {"Done", "Undone"}
  PROVE  /\ Sound(append_to_history(c, m, u))
         /\ LET es == append_to_history(c, m, u).entries
            IN es[Len(es)] = [undo |-> u, msg |-> m, state |-> NoState]
<1> DEFINE e == [undo |-> u, msg |-> m, state |-> NoState]
           es == Append(c.entries, e)
<1>1. e \in SoundEntry
  BY NewEntry
<1> HIDE DEF e
<1>2. c.entries \in Seq(SoundEntry) /\ Len(c.entries) \in Nat
  BY Entries
<1>3. /\ es \in Seq(SoundEntry) /\ es # << >> /\ Len(es) = Len(c.entries) + 1
      /\ es[Len(es)] = e
  BY <1>1, <1>2, AppendProperties
<1>4. append_to_history(c, m, u) = [c EXCEPT !.entries = es]
  BY DEF append_to_history, e
<1>5. c.entries \in Seq(SoundEntry) /\ [c EXCEPT !.entries = es].entries = es
  BY DEF Sound, SoundHistory
<1> HIDE DEF es
<1> DEFINE d == [c EXCEPT !.entries = es]
<1>6. /\ d \in SoundHistory /\ d.entries = es
      /\ d.fork = c.fork /\ d.forkStart = c.forkStart /\ d.offset = c.offset
      /\ c.offset \in Nat /\ c.forkStart \in Nat
  BY <1>3 DEF Sound, SoundHistory
<1> HIDE DEF d
<1>7. StartsWithin(d)
  BY <1>2, <1>3, <1>6 DEF Sound, StartsWithin, ForkPoint, have_local_fork
<1>8. Sound(d)
  BY <1>3, <1>6, <1>7 DEF Sound
<1> QED BY <1>3, <1>4, <1>5, <1>8 DEF d, e

(* A state is dropped anywhere, or saved on a valid save point.            *)
LEMMA StateChanged ==
  ASSUME NEW c, Sound(c), NEW i, NEW cs \in Canvas \cup {NoState},
         i \in DOMAIN c.entries /\ cs # NoState => is_valid_save_point_entry(c.entries[i])
  PROVE  Sound([c EXCEPT !.entries = WithState(c.entries, i, cs)])
<1> DEFINE es == WithState(c.entries, i, cs)
<1>1. c.entries \in Seq(SoundEntry) /\ DOMAIN c.entries = 1 .. Len(c.entries)
  BY Entries
<1>2. CASE i \in DOMAIN c.entries
  <2>1. c.entries[i] \in SoundEntry
    BY <1>2, Entries
  <2>2. [c.entries[i] EXCEPT !.state = cs] \in SoundEntry
    BY <1>2, <2>1, ClearState, SaveState
  <2>3. es \in Seq(SoundEntry) /\ Len(es) = Len(c.entries)
    BY <1>1, <1>2, <2>2, ExceptSeq DEF WithState
  <2> QED BY <2>3, ChangedEntries
<1>3. CASE i \notin DOMAIN c.entries
  <2>1. es = c.entries
    BY <1>1, <1>3 DEF WithState
  <2> QED BY <1>1, <2>1, ChangedEntries
<1> QED BY <1>2, <1>3

(* make_save_point on an entry that may hold a state.                      *)
LEMMA MakeSavePoint ==
  ASSUME NEW c, Sound(c), NEW i,
         i \in DOMAIN c.entries => is_valid_save_point_entry(c.entries[i])
  PROVE  Sound(make_save_point(c, i))
<1>1. c.current \in Canvas
  BY DEF Sound, SoundHistory
<1> QED BY <1>1, StateChanged DEF make_save_point

----------------------------------------------------------------------------
(* Replays.                                                                *)

(* Drawing some of the history's commands on a canvas gives a canvas.      *)
LEMMA ReplayedToType ==
  ASSUME NEW es \in Seq(SoundEntry), NEW start \in DOMAIN es, NEW cs \in Canvas,
         NEW i \in DOMAIN es
  PROVE  ReplayedTo(es, start, cs, i) \in Canvas
<1> DEFINE msgs == [j \in DOMAIN es |-> es[j].msg]
           D == {j \in start + 1 .. i : es[j].undo = "Done" /\ IsDraw(es[j].msg)}
<1>1. Len(es) \in Nat /\ DOMAIN es = 1 .. Len(es) /\ \A j \in 1 .. Len(es) : es[j] \in SoundEntry
  BY LenProperties, ElementOfSeq
<1>2. \A j \in 1 .. Len(es) : es[j].msg \in Message
  BY <1>1 DEF SoundEntry, Entry
<1>3. msgs \in [1 .. Len(es) -> Message]
  BY <1>1, <1>2
<1>4. D \subseteq 1 .. Len(es)
  BY <1>1
<1>5. ReplayedTo(es, start, cs, i) = Draw(cs, msgs, D)
  BY DEF ReplayedTo
<1> HIDE DEF msgs, D
<1>6. msgs \in Seq(Message) /\ DOMAIN msgs = 1 .. Len(es)
  BY <1>1, <1>3, PointwiseSeq
<1> QED BY <1>4, <1>5, <1>6, DrawType

(* The fork drawn again on a canvas, from the end of the history.          *)
LEMMA ReplayFork ==
  ASSUME NEW c \in SoundHistory, c.entries # << >>, NEW cs \in Canvas
  PROVE  Sound(replay_fork_dec(c, cs))
<1> DEFINE b == Head(c.fork).type = "UndoPoint"
<1>1. b \in BOOLEAN
  OBVIOUS
<1>2. Sound(set_fork_start(c, b))
  BY <1>1, SetForkStart
<1>3. c.fork \in Seq(Message)
  BY DEF SoundHistory
<1>4. Draw(cs, c.fork, ForkDraws(c)) \in Canvas
  BY <1>3, DrawType DEF ForkDraws
<1> QED BY <1>2, <1>4, ChangedCanvas DEF replay_fork_dec

(* A replay gives states to undo points that are not gone, which may have  *)
(* one.                                                                    *)
LEMMA ReplayFrom ==
  ASSUME NEW c, Sound(c), NEW start \in DOMAIN c.entries,
         c.entries[start].state # NoState, NEW withFork
  PROVE  Sound(replay_from(c, start, withFork))
<1> DEFINE es == c.entries
           cs == es[start].state
           at(i) == ReplayedTo(es, start, cs, i)
           new(i) == IF i > start /\ es[i].undo # "Gone" /\ is_undo_point_entry(es[i])
                     THEN [es[i] EXCEPT !.state = at(i)] ELSE es[i]
           es2 == [i \in DOMAIN es |-> new(i)]
           end == at(Len(es))
           c2 == [c EXCEPT !.entries = es2]
<1>1. /\ es \in Seq(SoundEntry) /\ Len(es) \in Nat \ {0} /\ DOMAIN es = 1 .. Len(es)
      /\ \A i \in DOMAIN es : es[i] \in SoundEntry
  BY Entries
<1>2. cs \in Canvas
  BY <1>1 DEF SoundEntry, Entry
<1>3. \A i \in DOMAIN es : at(i) \in Canvas
  BY <1>1, <1>2, ReplayedToType
<1>4. ASSUME NEW i \in DOMAIN es PROVE new(i) \in SoundEntry
  <2>1. CASE es[i].undo # "Gone" /\ is_undo_point_entry(es[i])
    <3>1. es[i].undo \in {"Done", "Undone"}
      BY <1>1, <2>1 DEF SoundEntry, Entry
    <3>2. is_valid_save_point_entry(es[i])
      BY <2>1, <3>1 DEF is_valid_save_point_entry
    <3>3. at(i) \in Canvas /\ es[i] \in SoundEntry
      BY <1>1, <1>3
    <3> HIDE DEF at, es
    <3>4. [es[i] EXCEPT !.state = at(i)] \in SoundEntry
      BY <3>2, <3>3, SaveState
    <3> QED BY <3>3, <3>4
  <2> QED BY <1>1, <2>1
<1>5. es2 \in [1 .. Len(es) -> SoundEntry]
  BY <1>1, <1>4
<1>6. end \in Canvas
  BY <1>1, <1>3
<1>7. replay_from(c, start, withFork)
        = IF withFork /\ have_local_fork(c2) THEN replay_fork_dec(c2, end)
          ELSE [c2 EXCEPT !.current = end]
  <2>1. have_local_fork(c2) = have_local_fork(c)
    BY DEF Sound, SoundHistory, have_local_fork
  <2> QED BY <2>1, Zenon DEF replay_from
<1> HIDE DEF es2, end
<1>8. es2 \in Seq(SoundEntry) /\ Len(es2) = Len(c.entries)
  BY <1>1, <1>5, PointwiseSeq
<1>9. Sound(c2)
  BY <1>8, ChangedEntries
<1> HIDE DEF c2
<1>10. Sound(replay_fork_dec(c2, end))
  BY <1>6, <1>9, ReplayFork DEF Sound
<1> QED BY <1>6, <1>7, <1>9, <1>10, ChangedCanvas, Zenon

(* A replay up to any entry, whether a save point is found or not.         *)
LEMMA SearchAndReplayFrom ==
  ASSUME NEW c, Sound(c), NEW target \in DOMAIN c.entries, NEW withFork
  PROVE  Sound(search_and_replay_from(c, target, withFork))
<1> DEFINE S == {i \in 1 .. target : c.entries[i].state # NoState}
           start == search_save_point_index(c.entries, target)
<1>1. start \in S \cup {0}
  BY LatestIn DEF search_save_point_index
<1>2. start # 0 => start \in DOMAIN c.entries /\ c.entries[start].state # NoState
  BY <1>1, Entries
<1> QED BY <1>2, ReplayFrom DEF search_and_replay_from

(* A rollback is a replay up to the fork start, which is an entry.         *)
LEMMA RollbackSound ==
  ASSUME NEW c, Sound(c), ForkPoint(c)
  PROVE  Sound(rollback(c))
<1>1. Len(c.entries) \in Nat /\ c.offset \in Nat /\ c.forkStart \in Nat
  BY Entries DEF Sound, SoundHistory
<1>2. fork_start_index(c) \in DOMAIN c.entries
  BY <1>1, Entries DEF ForkPoint, fork_start_index
<1> QED BY <1>2, SearchAndReplayFrom DEF rollback

----------------------------------------------------------------------------
(* Undo points.                                                            *)

(* Where the marking stops is before the undo point at the end.            *)
LEMMA GoneStopType ==
  ASSUME NEW c, Sound(c)
  PROVE  GoneStop(c).at \in 0 .. Len(c.entries) - 1
<1> DEFINE es == c.entries
           n == Len(es)
           Deep == {i \in 1 .. n - 1 : Depth(es, i + 1) >= c.limit}
           Gone == {i \in 1 .. n - 1 : es[i].undo = "Gone" /\ es[i].msg.user = es[n].msg.user}
<1>1. n \in Nat \ {0}
  BY Entries
<1>2. Latest(Deep) \in Deep \cup {0} /\ Latest(Gone) \in Gone \cup {0}
  BY LatestIn
<1>3. GoneStop(c).at \in {Latest(Deep), Latest(Gone)}
  BY DEF GoneStop
<1>4. Deep \subseteq 0 .. n - 1 /\ Gone \subseteq 0 .. n - 1 /\ 0 \in 0 .. n - 1
  BY <1>1
<1> HIDE DEF Deep, Gone, n
<1>5. GoneStop(c).at \in 0 .. n - 1
  BY <1>2, <1>3, <1>4
<1> QED BY <1>5 DEF n

(* Gone entries lose their state: a gone one is no valid save point.       *)
LEMMA MarkUndoneActionsGone ==
  ASSUME NEW c, Sound(c), NEW stop
  PROVE  /\ Sound(mark_undone_actions_gone(c, stop))
         /\ Len(mark_undone_actions_gone(c, stop).entries) = Len(c.entries)
<1> DEFINE es == c.entries
           user == es[Len(es)].msg.user
           gone(i) == i \in stop + 1 .. Len(es) - 1
                      /\ es[i].undo = "Undone" /\ es[i].msg.user = user
           new(i) == IF gone(i) THEN [es[i] EXCEPT !.undo = "Gone", !.state = NoState] ELSE es[i]
           es2 == [i \in DOMAIN es |-> new(i)]
<1>1. /\ Len(es) \in Nat \ {0} /\ DOMAIN es = 1 .. Len(es)
      /\ \A i \in DOMAIN es : es[i] \in SoundEntry
  BY Entries
<1>2. ASSUME NEW i \in DOMAIN es PROVE new(i) \in SoundEntry
  <2>1. es[i] \in SoundEntry
    BY <1>1
  <2>2. [es[i] EXCEPT !.undo = "Gone", !.state = NoState] \in SoundEntry
    BY <2>1 DEF SoundEntry, Entry
  <2> QED BY <2>1, <2>2
<1>3. es2 \in [1 .. Len(es) -> SoundEntry]
  BY <1>1, <1>2
<1>4. mark_undone_actions_gone(c, stop) = [c EXCEPT !.entries = es2]
  BY Zenon DEF mark_undone_actions_gone
<1> HIDE DEF es2
<1>5. es2 \in Seq(SoundEntry) /\ Len(es2) = Len(c.entries)
  BY <1>1, <1>3, PointwiseSeq
<1>6. [c EXCEPT !.entries = es2].entries = es2
  BY DEF Sound, SoundHistory
<1> QED BY <1>4, <1>5, <1>6, ChangedEntries

(* What stays begins within the history, and no later than the fork.       *)
LEMMA FirstReachableType ==
  ASSUME NEW c, Sound(c), NEW stop, stop.at \in 0 .. Len(c.entries) - 1
  PROVE  /\ FirstReachable(c, stop) \in 1 .. Len(c.entries)
         /\ have_local_fork(c) => FirstReachable(c, stop) <= fork_start_index(c)
<1> DEFINE es == c.entries
           Deep == {i \in 1 .. stop.at : stop.depth + UndoPoints(es, i + 1, stop.at) >= c.limit}
           deep == Latest(Deep)
           kept == IF have_local_fork(c) /\ deep > fork_start_index(c)
                   THEN fork_start_index(c) ELSE deep
           saved == search_save_point_index(es, kept)
<1>1. Len(es) \in Nat \ {0}
  BY Entries
<1>2. deep \in 0 .. Len(es) - 1
  BY <1>1, LatestIn
<1>3. have_local_fork(c) => fork_start_index(c) \in 1 .. Len(es)
  BY <1>1 DEF Sound, SoundHistory, StartsWithin, ForkPoint, fork_start_index
<1>4. kept \in 0 .. Len(es) /\ (have_local_fork(c) => kept <= fork_start_index(c))
  BY <1>1, <1>2, <1>3
<1>5. saved \in {i \in 1 .. kept : es[i].state # NoState} \cup {0}
  BY LatestIn DEF search_save_point_index
<1>6. FirstReachable(c, stop) = IF saved > 1 THEN saved ELSE 1
  BY DEF FirstReachable
<1> HIDE DEF saved, kept
<1> QED BY <1>1, <1>3, <1>4, <1>5, <1>6

(* Truncation moves the offset by what it drops, so that the fork start,   *)
(* an absolute position, stays where it was.                               *)
LEMMA TruncateHistory ==
  ASSUME NEW c, Sound(c), NEW first \in 1 .. Len(c.entries),
         have_local_fork(c) => first <= fork_start_index(c)
  PROVE  Sound(truncate_history(c, first))
<1> DEFINE es == SubSeq(c.entries, first, Len(c.entries))
           off == c.offset + (first - 1)
           d == [c EXCEPT !.entries = es, !.offset = off]
<1>1. Len(c.entries) \in Nat \ {0} /\ \A i \in 1 .. Len(c.entries) : c.entries[i] \in SoundEntry
  BY Entries
<1>2. es \in Seq(SoundEntry) /\ Len(es) = Len(c.entries) - first + 1
  BY <1>1, SubSeqProperties
<1>3. es # << >>
  BY <1>1, <1>2, EmptySeq
<1>4. off \in Nat
  BY <1>1 DEF Sound, SoundHistory
<1>5. truncate_history(c, first) = d
  BY DEF truncate_history
<1> HIDE DEF es
<1>6. d \in SoundHistory /\ d.entries = es /\ d.offset = off /\ d.fork = c.fork
      /\ d.forkStart = c.forkStart
  BY <1>2, <1>4 DEF Sound, SoundHistory
<1> HIDE DEF d
<1>7. StartsWithin(d)
  <2>1. SUFFICES ASSUME have_local_fork(d) PROVE ForkPoint(d)
    BY DEF StartsWithin
  <2>2. have_local_fork(c) /\ ForkPoint(c) /\ c.forkStart \in Nat /\ c.offset \in Nat
    BY <1>6, <2>1 DEF Sound, SoundHistory, StartsWithin, have_local_fork
  <2>3. first <= c.forkStart - c.offset
    BY <2>2 DEF fork_start_index
  <2>4. c.forkStart \in c.offset + 1 .. c.offset + Len(c.entries)
    BY <2>2 DEF ForkPoint
  <2>5. c.forkStart \in off + 1 .. off + Len(es)
    <3> DEFINE n == Len(c.entries)
               f == c.forkStart
               o == c.offset
               m == Len(es)
    <3>1. /\ n \in Nat /\ f \in Nat /\ o \in Nat /\ first \in Nat /\ m = n - first + 1
          /\ first <= f - o /\ f <= o + n
      BY <1>1, <1>2, <2>2, <2>3, <2>4
    <3>2. off = o + (first - 1)
      OBVIOUS
    <3> HIDE DEF n, f, o, m, off
    <3>3. off + 1 <= f /\ f <= off + m /\ f \in Int /\ off \in Int /\ m \in Int
      BY <3>1, <3>2
    <3>4. f \in off + 1 .. off + m
      BY <3>3
    <3> QED BY <3>4 DEF f, m
  <2> QED BY <1>6, <2>5 DEF ForkPoint
<1> QED BY <1>3, <1>5, <1>6, <1>7 DEF Sound

(* The handler of an undo point, which is the entry at the end.            *)
LEMMA HandleUndoPoint ==
  ASSUME NEW c, Sound(c), c.entries[Len(c.entries)].undo = "Done"
  PROVE  Sound(handle_undo_point(c))
<1> DEFINE saved == IF have_local_fork(c) THEN c ELSE make_save_point(c, Len(c.entries))
           stop == GoneStop(saved)
           marked == mark_undone_actions_gone(saved, stop.at)
<1>1. Sound(saved)
  BY MakeSavePoint DEF is_valid_save_point_entry
<1>2. handle_undo_point(c) = truncate_unreachable(marked, stop)
  BY DEF handle_undo_point
<1> HIDE DEF saved
<1>3. stop.at \in 0 .. Len(saved.entries) - 1
  BY <1>1, GoneStopType
<1>4. Sound(marked) /\ Len(marked.entries) = Len(saved.entries)
  BY <1>1, MarkUndoneActionsGone
<1> HIDE DEF marked, stop
<1>5. /\ FirstReachable(marked, stop) \in 1 .. Len(marked.entries)
      /\ have_local_fork(marked) => FirstReachable(marked, stop) <= fork_start_index(marked)
  BY <1>3, <1>4, FirstReachableType
<1> QED BY <1>2, <1>4, <1>5, TruncateHistory DEF truncate_unreachable

----------------------------------------------------------------------------
(* Undo and redo.                                                          *)

(* An undo keeps the states of undo points only.                           *)
LEMMA UndoingSound ==
  ASSUME NEW c, Sound(c), NEW user
  PROVE  Sound(undo(c, user))
<1> DEFINE es == c.entries
           start == undo_start_of(es, c.limit, user)
           new(i) == IF i < start THEN es[i]
             ELSE [es[i] EXCEPT
                     !.undo = IF is_done_entry_by(es[i], user) THEN "Undone" ELSE es[i].undo,
                     !.state = IF is_undo_point_entry(es[i]) THEN es[i].state ELSE NoState]
           es2 == [i \in DOMAIN es |-> new(i)]
<1>1. /\ Len(es) \in Nat \ {0} /\ DOMAIN es = 1 .. Len(es)
      /\ \A i \in DOMAIN es : es[i] \in SoundEntry
  BY Entries
<1>2. start \in DOMAIN es \cup {0}
  BY LatestIn DEF undo_start_of, UndoPointsBy
<1>3. ASSUME NEW i \in DOMAIN es PROVE new(i) \in SoundEntry
  <2>1. es[i] \in SoundEntry
    BY <1>1
  <2> QED BY <2>1 DEF SoundEntry, Entry, is_valid_save_point_entry, is_undo_point_entry,
                      is_done_entry_by
<1>4. es2 \in [1 .. Len(es) -> SoundEntry]
  BY <1>1, <1>3
<1>5. es2 = mark_entries_undone(es, user, start)
  BY DEF mark_entries_undone
<1> HIDE DEF es2
<1>6. es2 \in Seq(SoundEntry) /\ Len(es2) = Len(c.entries) /\ DOMAIN es2 = DOMAIN es
  BY <1>1, <1>4, PointwiseSeq
<1>7. Sound([c EXCEPT !.entries = es2]) /\ [c EXCEPT !.entries = es2].entries = es2
  BY <1>6, ChangedEntries DEF Sound, SoundHistory
<1>8. undo(c, user) = IF start = 0 THEN c
                      ELSE search_and_replay_from([c EXCEPT !.entries = es2], start, TRUE)
  BY <1>5 DEF undo
<1> HIDE DEF start
<1> QED BY <1>2, <1>6, <1>7, <1>8, SearchAndReplayFrom

(* A redo makes undone entries done, which may hold any state.             *)
LEMMA RedoingSound ==
  ASSUME NEW c, Sound(c), NEW user
  PROVE  Sound(redo(c, user))
<1> DEFINE es == c.entries
           start == redo_start_of(es, c.limit, user)
           es2 == mark_entries_redone(es, user, start)
<1>1. /\ Len(es) \in Nat \ {0} /\ DOMAIN es = 1 .. Len(es)
      /\ \A i \in DOMAIN es : es[i] \in SoundEntry
  BY Entries
<1>2. start \in DOMAIN es \cup {0}
  BY EarliestIn DEF redo_start_of, UndoPointsBy
<1>3. \A e \in SoundEntry : [e EXCEPT !.undo = "Done"] \in SoundEntry
  BY DEF SoundEntry, Entry, is_valid_save_point_entry
<1>4. es2 \in [1 .. Len(es) -> SoundEntry]
  BY <1>1, <1>3 DEF mark_entries_redone
<1> HIDE DEF es2
<1>5. es2 \in Seq(SoundEntry) /\ Len(es2) = Len(c.entries) /\ DOMAIN es2 = DOMAIN es
  BY <1>1, <1>4, PointwiseSeq
<1>6. Sound([c EXCEPT !.entries = es2]) /\ [c EXCEPT !.entries = es2].entries = es2
  BY <1>5, ChangedEntries DEF Sound, SoundHistory
<1>7. redo(c, user) = IF start = 0 THEN c
                      ELSE search_and_replay_from([c EXCEPT !.entries = es2], start, TRUE)
  BY DEF redo, es2
<1> HIDE DEF start
<1> QED BY <1>2, <1>5, <1>6, <1>7, SearchAndReplayFrom

----------------------------------------------------------------------------
(* Commands from the server.                                               *)

(* The mark of the entry at the end is what an undo point's handler needs. *)
LastIsDone(c) == c.entries[Len(c.entries)].undo = "Done"

(* An undo point is handled as the last entry, and is done.                *)
LEMMA HandleCommand ==
  ASSUME NEW c, Sound(c), NEW m \in Message, m.type = "UndoPoint" => LastIsDone(c)
  PROVE  Sound(handle_command(c, m))
<1>1. m.type \in {"UndoPoint", "Undo", "Redo", "Draw"}
  BY DEF Message
<1>2. CASE m.type = "UndoPoint"
  <2>1. Sound(handle_undo_point(c))
    BY <1>2, HandleUndoPoint DEF LastIsDone
  <2> QED BY <1>2, <2>1 DEF handle_command, IsUndo, IsDraw
<1>3. CASE m.type \in {"Undo", "Redo"}
  <2>1. Sound(handle_undo(c, m))
    BY UndoingSound, RedoingSound DEF handle_undo
  <2> QED BY <1>3, <2>1 DEF handle_command, IsUndo, IsDraw
<1>4. CASE m.type = "Draw"
  <2>1. DrawOne(c.current, m) \in Canvas
    BY DrawOneType DEF Sound, SoundHistory
  <2>2. Sound(handle_drawing_command(c, m))
    BY <2>1, ChangedCanvas DEF handle_drawing_command
  <2> QED BY <1>4, <2>2 DEF handle_command, IsUndo, IsDraw
<1> QED BY <1>1, <1>2, <1>3, <1>4

(* maybe_append_to_history: an undo point ends up last and done.           *)
LEMMA MaybeAppend ==
  ASSUME NEW c, Sound(c), NEW m \in Message
  PROVE  LET c1 == maybe_append_to_history(c, m)
         IN /\ Sound(c1) /\ c1.fork = c.fork
            /\ m.type = "UndoPoint" => LastIsDone(c1)
<1>1. LET c1 == append_to_history(c, m, "Done")
      IN Sound(c1) /\ c1.fork = c.fork /\ LastIsDone(c1)
  <2>1. append_to_history(c, m, "Done").fork = c.fork
    BY DEF append_to_history, Sound, SoundHistory
  <2>2. LET es == append_to_history(c, m, "Done").entries
        IN es[Len(es)] = [undo |-> "Done", msg |-> m, state |-> NoState]
    BY AppendToHistory
  <2>3. Sound(append_to_history(c, m, "Done"))
    BY AppendToHistory
  <2> QED BY <2>1, <2>2, <2>3 DEF LastIsDone
<1>2. m.type = "UndoPoint" => ~IsUndo(m)
  BY DEF IsUndo
<1> QED BY <1>1, <1>2 DEF maybe_append_to_history

(* clear_fork_fallbehind drops a state; it changes no mark.                *)
LEMMA ClearForkFallbehind ==
  ASSUME NEW c, Sound(c)
  PROVE  /\ Sound(clear_fork_fallbehind(c))
         /\ LastIsDone(c) => LastIsDone(clear_fork_fallbehind(c))
<1> DEFINE i == fork_start_index(c)
           c2 == [c EXCEPT !.fallbehind = 0]
           es == WithState(c.entries, i, NoState)
<1>1. Sound(c2) /\ c2.entries = c.entries
  BY FallBehind DEF Sound, SoundHistory
<1>2. Sound([c2 EXCEPT !.entries = WithState(c2.entries, i, NoState)])
  BY <1>1, StateChanged
<1>3. Len(es) = Len(c.entries) /\ \A j \in DOMAIN c.entries : es[j].undo = c.entries[j].undo
  <2>1. /\ c.entries \in Seq(SoundEntry) /\ DOMAIN c.entries = 1 .. Len(c.entries)
        /\ \A j \in DOMAIN c.entries : c.entries[j] \in SoundEntry
    BY Entries
  <2>2. \A e \in SoundEntry : /\ [e EXCEPT !.state = NoState] \in SoundEntry
                              /\ [e EXCEPT !.state = NoState].undo = e.undo
    BY DEF SoundEntry, Entry
  <2> QED BY <2>1, <2>2, ExceptSeq DEF WithState
<1>4. LastIsDone(c) => LastIsDone([c2 EXCEPT !.entries = es])
  <2>1. c2 \in SoundHistory
    BY <1>1 DEF Sound
  <2> HIDE DEF es, c2
  <2>2. [c2 EXCEPT !.entries = es].entries = es
    BY <2>1 DEF SoundHistory
  <2>3. Len(c.entries) \in DOMAIN c.entries
    BY Entries
  <2> QED BY <1>3, <2>2, <2>3 DEF LastIsDone
<1>5. \/ clear_fork_fallbehind(c) = c2
      \/ clear_fork_fallbehind(c) = [c2 EXCEPT !.entries = WithState(c2.entries, i, NoState)]
  BY DEF clear_fork_fallbehind
<1> QED BY <1>1, <1>2, <1>4, <1>5 DEF LastIsDone

(* Whatever the fork and the command are, the history stays sound, and a   *)
(* rollback finds the place that the fork started at.                      *)
Reconciled(r, m) ==
  /\ Sound(r.ch)
  /\ r.action \in {"Concurrent", "AlreadyDone", "Rollback"}
  /\ r.action = "Rollback" => ForkPoint(r.ch)
  /\ m.type = "UndoPoint" /\ r.action = "Concurrent" => LastIsDone(r.ch)

(* Each of the ways a remote command meets the fork.                       *)
LEMMA Reconciling ==
  ASSUME NEW c, Sound(c), NEW m \in Message, NEW isDrawing, NEW stray
  PROVE  Reconciled(reconcile_remote_command(c, m, isDrawing, stray), m)
<1> DEFINE c1 == maybe_append_to_history(c, m)
           behind == c1.fallbehind + 1
           cleared == [c1 EXCEPT !.fork = << >>]
           shifted == [c1 EXCEPT !.fork = Tail(c1.fork)]
           acked == IF Len(c.fork) = 1 THEN clear_fork_fallbehind(shifted) ELSE shifted
           r == reconcile_remote_command(c, m, isDrawing, stray)
<1> SUFFICES Reconciled(r, m)
  OBVIOUS
<1>1. Sound(c1) /\ c1.fork = c.fork /\ (m.type = "UndoPoint" => LastIsDone(c1))
  BY MaybeAppend
<1>2. behind \in Nat
  BY <1>1 DEF Sound, SoundHistory
<1>3. CASE ~have_local_fork(c)
  <2>1. r = [ch |-> c1, action |-> "Concurrent"]
    BY <1>3, Zenon DEF reconcile_remote_command
  <2> QED BY <1>1, <2>1 DEF Reconciled
<1>4. CASE have_local_fork(c)
  <2>1. ForkPoint(c1)
    BY <1>1, <1>4 DEF Sound, StartsWithin, have_local_fork
  <2>2. Sound(cleared) /\ ForkPoint(cleared)
    BY <1>1, <2>1, ClearFork DEF Sound, SoundHistory, ForkPoint
  <2>3. Sound(shifted) /\ (LastIsDone(c1) => LastIsDone(shifted))
    BY <1>1, <1>4, ForkTail DEF Sound, SoundHistory, have_local_fork, LastIsDone
  <2>4. Sound(acked) /\ (LastIsDone(c1) => LastIsDone(acked))
    BY <2>3, ClearForkFallbehind
  <2>5. \A d, k : Sound(d) /\ k \in Nat =>
                  LET f == [d EXCEPT !.fallbehind = k]
                  IN /\ Sound(f)
                     /\ ForkPoint(d) => ForkPoint(f)
                     /\ LastIsDone(d) => LastIsDone(f)
    BY FallBehind DEF Sound, SoundHistory, ForkPoint, LastIsDone
  <2>6. \/ r = [ch |-> acked, action |-> IF IsDraw(m) THEN "AlreadyDone" ELSE "Concurrent"]
        \/ r = [ch |-> [cleared EXCEPT !.fallbehind = 0], action |-> "Rollback"]
        \/ r = [ch |-> [c1 EXCEPT !.fallbehind = behind], action |-> "Concurrent"]
        \/ r = [ch |-> [c1 EXCEPT !.fallbehind = behind], action |-> "Rollback"]
        \/ r = [ch |-> [cleared EXCEPT !.fallbehind = behind], action |-> "Rollback"]
    BY <1>4, Zenon DEF reconcile_remote_command
  <2> HIDE DEF r, acked, cleared, behind, c1
  <2>7. CASE r = [ch |-> acked, action |-> IF IsDraw(m) THEN "AlreadyDone" ELSE "Concurrent"]
    BY <1>1, <2>4, <2>7 DEF Reconciled
  <2>8. CASE r = [ch |-> [cleared EXCEPT !.fallbehind = 0], action |-> "Rollback"]
    BY <2>2, <2>5, <2>8 DEF Reconciled
  <2>9. CASE r = [ch |-> [c1 EXCEPT !.fallbehind = behind], action |-> "Concurrent"]
    BY <1>1, <1>2, <2>5, <2>9 DEF Reconciled
  <2>10. CASE r = [ch |-> [c1 EXCEPT !.fallbehind = behind], action |-> "Rollback"]
    BY <1>1, <1>2, <2>1, <2>5, <2>10 DEF Reconciled
  <2>11. CASE r = [ch |-> [cleared EXCEPT !.fallbehind = behind], action |-> "Rollback"]
    BY <1>2, <2>2, <2>5, <2>11 DEF Reconciled
  <2> QED BY <2>6, <2>7, <2>8, <2>9, <2>10, <2>11
<1> QED BY <1>3, <1>4

(* A remote command, whatever the fork makes of it.                        *)
LEMMA HandleRemoteCommand ==
  ASSUME NEW c, Sound(c), NEW m \in Message, NEW isDrawing, NEW stray
  PROVE  Sound(handle_remote_command(c, m, isDrawing, stray))
<1> DEFINE r == reconcile_remote_command(c, m, isDrawing, stray)
<1>1. Reconciled(r, m)
  BY Reconciling
<1>2. handle_remote_command(c, m, isDrawing, stray)
        = CASE r.action = "Concurrent"  -> handle_command(r.ch, m)
            [] r.action = "Rollback"    -> rollback(r.ch)
            [] r.action = "AlreadyDone" -> r.ch
  BY Zenon DEF handle_remote_command
<1> HIDE DEF r
<1>3. r.action = "Concurrent" => Sound(handle_command(r.ch, m))
  BY <1>1, HandleCommand DEF Reconciled
<1>4. r.action = "Rollback" => Sound(rollback(r.ch))
  BY <1>1, RollbackSound DEF Reconciled
<1> QED BY <1>1, <1>2, <1>3, <1>4 DEF Reconciled

(* Marking the next command undone keeps a history sound.                  *)
LEMMA MarkChanged ==
  ASSUME NEW c, Sound(c), NEW b, b \in BOOLEAN
  PROVE  Sound([c EXCEPT !.markDone = b])
BY DEF Sound, SoundHistory, StartsWithin, ForkPoint, have_local_fork

(* The whole handler of a remote command.                                  *)
LEMMA HandleSound ==
  ASSUME NEW c, Sound(c), NEW m \in Message, NEW isDrawing, NEW stray
  PROVE  Sound(DP_canvas_history_handle(c, m, isDrawing, stray))
<1>1. Sound([c EXCEPT !.markDone = FALSE]) /\ Sound([c EXCEPT !.markDone = TRUE])
  BY MarkChanged
<1>2. Sound(handle_remote_command(c, m, isDrawing, stray))
  BY HandleRemoteCommand
<1>3. Sound(append_to_history([c EXCEPT !.markDone = TRUE], m, "Undone"))
  BY <1>1, AppendToHistory
<1> QED BY <1>1, <1>2, <1>3, Zenon DEF DP_canvas_history_handle

----------------------------------------------------------------------------
(* Several dabs at once.                                                   *)

(* What is left of a batch after some of its dabs.                         *)
SoundBatch(b) == Sound(b.ch) /\ b.pending \in Seq(Message)

(* One of several dabs.                                                    *)
LEMMA MultidabStepSound ==
  ASSUME NEW b, SoundBatch(b), NEW m \in Message, NEW isDrawing, NEW stray
  PROVE  SoundBatch(MultidabStep(b, m, isDrawing, stray))
<1> DEFINE r == reconcile_remote_command(b.ch, m, isDrawing, stray)
           next == MultidabStep(b, m, isDrawing, stray)
           pending == Append(b.pending, m)
           none == << >>
<1>1. Reconciled(r, m)
  BY Reconciling DEF SoundBatch
<1>2. b.pending \in Seq(Message) /\ pending \in Seq(Message) /\ none \in Seq(Message)
  BY AppendProperties, EmptySeq DEF SoundBatch
<1>3. \/ next = [ch |-> r.ch, pending |-> pending]
      \/ next = [ch |-> rollback(r.ch), pending |-> none] /\ r.action = "Rollback"
      \/ next = [ch |-> r.ch, pending |-> b.pending]
  BY <1>1 DEF MultidabStep, Reconciled
<1> HIDE DEF r, next, pending, none
<1>4. r.action = "Rollback" => Sound(rollback(r.ch))
  BY <1>1, RollbackSound DEF Reconciled
<1>5. SoundBatch(next)
  BY <1>1, <1>2, <1>3, <1>4 DEF SoundBatch, Reconciled
<1> QED BY <1>5 DEF next

(* f holds what is left after each of the first n dabs.                    *)
BatchRun(f, c, ms, isDrawing, stray, n) ==
  f = [i \in 0 .. n |-> IF i = 0 THEN [ch |-> c, pending |-> << >>]
                        ELSE MultidabStep(f[i - 1], ms[i], isDrawing, stray)]

(* The recursion that the handler is written with has a solution.          *)
LEMMA BatchRuns ==
  ASSUME NEW c, NEW ms, NEW isDrawing, NEW stray, NEW n \in Nat
  PROVE  \E f : BatchRun(f, c, ms, isDrawing, stray, n)
<1> DEFINE Run(f, k) == BatchRun(f, c, ms, isDrawing, stray, k)
           first == [ch |-> c, pending |-> << >>]
           step(b, i) == MultidabStep(b, ms[i], isDrawing, stray)
           T == {k \in Nat : ~\E f : Run(f, k)}
<1>1. \A f, k : Run(f, k) <=> f = [i \in 0 .. k |-> IF i = 0 THEN first ELSE step(f[i - 1], i)]
  BY DEF BatchRun
<1> HIDE DEF Run, first, step
<1>2. SUFFICES ASSUME T # {} PROVE FALSE
  BY DEF Run
<1>3. PICK k \in T : \A j \in T : k <= j
  BY <1>2, LeastNumber
<1>4. k # 0
  <2> DEFINE f == [i \in 0 .. 0 |-> first]
  <2>1. f = [i \in 0 .. 0 |-> IF i = 0 THEN first ELSE step(f[i - 1], i)]
    OBVIOUS
  <2>2. Run(f, 0)
    BY <1>1, <2>1
  <2> QED BY <2>2
<1>5. k \in Nat /\ k - 1 \in Nat /\ k - 1 \notin T
  BY <1>3, <1>4
<1>6. PICK g : Run(g, k - 1)
  BY <1>5
<1> DEFINE f == [i \in 0 .. k |-> IF i = k THEN step(g[k - 1], k) ELSE g[i]]
<1>7. g = [i \in 0 .. k - 1 |-> IF i = 0 THEN first ELSE step(g[i - 1], i)]
  BY <1>1, <1>6
<1>8. \A i \in 0 .. k : f[i] = IF i = 0 THEN first ELSE step(f[i - 1], i)
  <2> TAKE i \in 0 .. k
  <2>1. CASE i = k
    BY <1>4, <1>5, <2>1
  <2>2. CASE i # k
    <3>1. i \in 0 .. k - 1 /\ (i # 0 => i - 1 \in 0 .. k - 1)
      BY <1>5, <2>2
    <3>2. g[i] = IF i = 0 THEN first ELSE step(g[i - 1], i)
      BY <1>7, <3>1
    <3>3. f[i] = g[i] /\ (i # 0 => f[i - 1] = g[i - 1])
      BY <1>5, <2>2
    <3> QED BY <3>2, <3>3
  <2> QED BY <2>1, <2>2
<1>9. f = [i \in 0 .. k |-> IF i = 0 THEN first ELSE step(f[i - 1], i)]
  <2> DEFINE rhs(i) == IF i = 0 THEN first ELSE step(f[i - 1], i)
  <2>1. f = [i \in 0 .. k |-> f[i]]
    OBVIOUS
  <2>2. \A i \in 0 .. k : f[i] = rhs(i)
    BY <1>8
  <2> HIDE DEF f, rhs
  <2>3. f = [i \in 0 .. k |-> rhs(i)]
    BY <2>1, <2>2
  <2> QED BY <2>3 DEF rhs
<1> HIDE DEF f
<1>10. Run(f, k)
  BY <1>1, <1>9
<1> QED BY <1>3, <1>10

(* Sound after each dab.                                                   *)
LEMMA BatchSound ==
  ASSUME NEW c, Sound(c), NEW ms \in Seq(Message), NEW isDrawing, NEW stray, NEW f,
         BatchRun(f, c, ms, isDrawing, stray, Len(ms))
  PROVE  SoundBatch(f[Len(ms)])
<1> DEFINE first == [ch |-> c, pending |-> << >>]
           T == {i \in 0 .. Len(ms) : ~SoundBatch(f[i])}
<1>1. Len(ms) \in Nat /\ \A i \in 1 .. Len(ms) : ms[i] \in Message
  BY LenProperties, ElementOfSeq
<1>2. \A i \in 0 .. Len(ms) :
        f[i] = IF i = 0 THEN first ELSE MultidabStep(f[i - 1], ms[i], isDrawing, stray)
  BY DEF BatchRun
<1>3. SoundBatch(first)
  <2>1. << >> \in Seq(Message)
    BY EmptySeq
  <2> QED BY <2>1 DEF SoundBatch
<1> HIDE DEF first
<1>4. SUFFICES ASSUME T # {} PROVE FALSE
  BY <1>1
<1>5. PICK k \in T : \A j \in T : k <= j
  <2>1. T \subseteq Nat
    OBVIOUS
  <2> QED BY <1>4, <2>1, LeastNumber
<1>6. k # 0
  BY <1>1, <1>2, <1>3, <1>5
<1>7. k \in 1 .. Len(ms) /\ k - 1 \in 0 .. Len(ms) /\ k - 1 \notin T
  BY <1>1, <1>5, <1>6
<1>8. SoundBatch(MultidabStep(f[k - 1], ms[k], isDrawing, stray))
  BY <1>1, <1>7, MultidabStepSound
<1> QED BY <1>2, <1>5, <1>6, <1>8

(* The whole handler of several dabs: one step after the other, then the   *)
(* drawing of those that wait.                                             *)
LEMMA HandleMultidabSound ==
  ASSUME NEW c, Sound(c), NEW ms \in Seq(Message), NEW isDrawing, NEW stray
  PROVE  Sound(DP_canvas_history_handle_multidab_dec(c, ms, isDrawing, stray))
<1> DEFINE run == CHOOSE f : BatchRun(f, c, ms, isDrawing, stray, Len(ms))
           b == run[Len(ms)]
<1>1. BatchRun(run, c, ms, isDrawing, stray, Len(ms))
  BY BatchRuns, LenProperties
<1>2. DP_canvas_history_handle_multidab_dec(c, ms, isDrawing, stray)
        = [b.ch EXCEPT !.current = Draw(b.ch.current, b.pending, DOMAIN b.pending)]
  BY DEF DP_canvas_history_handle_multidab_dec, BatchRun
<1> HIDE DEF run
<1>3. SoundBatch(b)
  BY <1>1, BatchSound
<1>4. Draw(b.ch.current, b.pending, DOMAIN b.pending) \in Canvas
  BY <1>3, DrawType DEF SoundBatch, Sound, SoundHistory
<1> QED BY <1>2, <1>3, <1>4, ChangedCanvas DEF SoundBatch

----------------------------------------------------------------------------
(* Local commands.                                                         *)

(* Saving a state moves neither the fork start nor the entries.            *)
LEMMA NoForkStartLost ==
  ASSUME NEW c, Sound(c), ForkPoint(c), NEW i,
         i \in DOMAIN c.entries => is_valid_save_point_entry(c.entries[i])
  PROVE  Sound(make_save_point(c, i)) /\ ForkPoint(make_save_point(c, i))
<1> DEFINE es == WithState(c.entries, i, c.current)
           d == [c EXCEPT !.entries = es]
<1>1. c.entries \in Seq(SoundEntry)
  BY Entries
<1>2. Len(es) = Len(c.entries)
  BY <1>1 DEF WithState
<1> HIDE DEF es
<1>3. d.entries = es /\ d.offset = c.offset /\ d.forkStart = c.forkStart
  BY DEF Sound, SoundHistory
<1>4. ForkPoint(d)
  BY <1>2, <1>3 DEF ForkPoint
<1>5. make_save_point(c, i) \in {c, d}
  BY DEF make_save_point, es
<1> QED BY <1>4, <1>5, MakeSavePoint

(* The save point of a new fork goes to an entry that may have one.        *)
LEMMA SavePointFound ==
  ASSUME NEW c, Sound(c)
  PROVE  LET i == find_save_point_index(c.entries)
         IN i \in DOMAIN c.entries => is_valid_save_point_entry(c.entries[i])
<1> DEFINE S == {i \in DOMAIN c.entries : is_valid_save_point_entry(c.entries[i])}
<1>1. find_save_point_index(c.entries) \in S \cup {0}
  BY LatestIn DEF find_save_point_index
<1>2. 0 \notin DOMAIN c.entries
  BY Entries
<1> QED BY <1>1, <1>2

(* A new fork starts at the last entry, an old one stays.                  *)
LEMMA StartForkSound ==
  ASSUME NEW c, Sound(c), NEW m
  PROVE  Sound(StartFork(c, m)) /\ ForkPoint(StartFork(c, m))
<1> DEFINE b == m.type = "UndoPoint"
           d == set_fork_start(c, b)
<1>1. b \in BOOLEAN
  OBVIOUS
<1>2. Sound(d) /\ ForkPoint(d) /\ d.entries = c.entries
  BY <1>1, SetForkStart DEF Sound
<1>3. LET e == make_save_point(d, find_save_point_index(c.entries))
      IN Sound(e) /\ ForkPoint(e)
  BY <1>2, SavePointFound, NoForkStartLost
<1> HIDE DEF d
<1>4. CASE have_local_fork(c)
  BY <1>4 DEF StartFork, Sound, StartsWithin
<1>5. CASE ~have_local_fork(c)
  BY <1>3, <1>5 DEF StartFork, d
<1> QED BY <1>4, <1>5

(* The fork may grow once its start is an entry.                           *)
LEMMA ForkPushed ==
  ASSUME NEW c, Sound(c), ForkPoint(c), NEW f \in Seq(Message)
  PROVE  Sound([c EXCEPT !.fork = f])
BY DEF Sound, SoundHistory, StartsWithin, ForkPoint

(* The whole handler of a local command.                                   *)
LEMMA HandleLocalSound ==
  ASSUME NEW c, Sound(c), NEW m \in Message
  PROVE  Sound(DP_canvas_history_handle_local(c, m))
<1> DEFINE d == StartFork(c, m)
           f == Append(d.fork, m)
           pushed == [d EXCEPT !.fork = f]
<1>1. Sound(d) /\ ForkPoint(d)
  BY StartForkSound
<1>2. f \in Seq(Message)
  BY <1>1, AppendProperties DEF Sound, SoundHistory
<1>3. DP_canvas_history_handle_local(c, m)
        = IF IsDraw(m) THEN handle_drawing_command(pushed, m) ELSE pushed
  BY DEF DP_canvas_history_handle_local
<1> HIDE DEF d, f
<1>4. Sound(pushed)
  BY <1>1, <1>2, ForkPushed
<1> HIDE DEF pushed
<1>5. DrawOne(pushed.current, m) \in Canvas
  BY <1>4, DrawOneType DEF Sound, SoundHistory
<1>6. Sound(handle_drawing_command(pushed, m))
  BY <1>4, <1>5, ChangedCanvas DEF handle_drawing_command
<1> QED BY <1>3, <1>4, <1>6

(* The whole handler of several local dabs.                                *)
LEMMA HandleLocalMultidabSound ==
  ASSUME NEW c, Sound(c), NEW ms \in Seq(Message)
  PROVE  Sound(DP_canvas_history_handle_local_multidab_dec(c, ms))
<1> DEFINE d == StartFork(c, Head(ms))
           f == d.fork \o ms
           pushed == [d EXCEPT !.fork = f]
           cs == Draw(pushed.current, ms, DOMAIN ms)
<1>1. Sound(d) /\ ForkPoint(d)
  BY StartForkSound
<1>2. f \in Seq(Message)
  BY <1>1, ConcatProperties DEF Sound, SoundHistory
<1>3. DP_canvas_history_handle_local_multidab_dec(c, ms) = [pushed EXCEPT !.current = cs]
  BY DEF DP_canvas_history_handle_local_multidab_dec
<1> HIDE DEF d, f
<1>4. Sound(pushed)
  BY <1>1, <1>2, ForkPushed
<1> HIDE DEF pushed
<1>5. cs \in Canvas
  BY <1>4, DrawType DEF Sound, SoundHistory
<1> QED BY <1>3, <1>4, <1>5, ChangedCanvas

(* Giving up the fork.                                                     *)
LEMMA LocalForkClearSound ==
  ASSUME NEW c, Sound(c)
  PROVE  Sound(DP_canvas_history_local_fork_clear(c))
<1> DEFINE d == [c EXCEPT !.fork = << >>]
<1>1. Sound(d)
  BY ClearFork
<1>2. have_local_fork(c) => ForkPoint(d)
  BY DEF Sound, SoundHistory, StartsWithin, ForkPoint
<1>3. have_local_fork(c) => Sound(rollback(d))
  BY <1>1, <1>2, RollbackSound
<1> QED BY <1>3 DEF DP_canvas_history_local_fork_clear

(* A save point asked for by a snapshot.                                   *)
LEMMA SavePointMakeSound ==
  ASSUME NEW c, Sound(c)
  PROVE  Sound(DP_canvas_history_save_point_make(c))
BY SavePointFound, MakeSavePoint DEF DP_canvas_history_save_point_make

----------------------------------------------------------------------------
(* Resets.                                                                 *)

(* The entry a history starts with is a done undo point with a state.      *)
LEMMA InitialEntries ==
  ASSUME NEW cs \in Canvas
  PROVE  <<InitialEntry(cs)>> \in Seq(SoundEntry) /\ <<InitialEntry(cs)>> # << >>
<1>1. UndoPointBy(Nobody) \in Message
  BY UndoPointType
<1>2. InitialEntry(cs) \in SoundEntry
  BY <1>1 DEF InitialEntry, SoundEntry, Entry, is_valid_save_point_entry
<1> QED BY <1>2

(* A reset gives a history, but it leaves the start of the fork behind.    *)
LEMMA ResetToStateType ==
  ASSUME NEW c \in SoundHistory, NEW cs \in Canvas
  PROVE  LET d == reset_to_state(c, cs)
         IN d \in SoundHistory /\ d.entries # << >> /\ d.fork = c.fork /\ d.current = cs
<1> DEFINE es == <<InitialEntry(cs)>>
           d == [c EXCEPT !.current = cs, !.entries = es, !.offset = 0, !.markDone = TRUE]
<1>1. es \in Seq(SoundEntry) /\ es # << >>
  BY InitialEntries
<1>2. reset_to_state(c, cs) = d
  BY DEF reset_to_state
<1> HIDE DEF es
<1>3. d \in SoundHistory /\ d.entries # << >> /\ d.fork = c.fork /\ d.current = cs
  BY <1>1 DEF SoundHistory
<1> QED BY <1>2, <1>3

(* A reset to a given canvas leaves one entry and no fork.                 *)
LEMMA ResetToStateSound ==
  ASSUME NEW c, Sound(c), NEW cs \in Canvas
  PROVE  Sound(DP_canvas_history_reset_to_state(c, cs))
<1> DEFINE none == << >>
           d == [c EXCEPT !.fork = none]
<1>1. Sound(d)
  BY ClearFork
<1>2. d.fork = none /\ none = << >>
  BY DEF Sound, SoundHistory
<1> HIDE DEF none
<1>3. LET r == reset_to_state(d, cs)
      IN r \in SoundHistory /\ r.entries # << >> /\ r.fork = << >>
  BY <1>1, <1>2, ResetToStateType DEF Sound
<1> QED BY <1>2, <1>3 DEF DP_canvas_history_reset_to_state, Sound, StartsWithin, have_local_fork

(* Another undo depth within its range keeps a history sound.              *)
LEMMA LimitChanged ==
  ASSUME NEW c, Sound(c), NEW limit \in UndoDepthMin .. UndoDepthMax
  PROVE  Sound([c EXCEPT !.limit = limit])
BY DEF Sound, SoundHistory, StartsWithin, ForkPoint, have_local_fork

(* The blank canvas is a canvas.                                           *)
LEMMA BlankCanvasType == BlankCanvas \in Canvas
BY DEF BlankCanvas, Canvas

(* A reset to the blank canvas.                                            *)
LEMMA ResetSound ==
  ASSUME NEW c, Sound(c)
  PROVE  Sound(DP_canvas_history_reset(c))
<1>1. Sound(DP_canvas_history_reset_to_state(c, BlankCanvas))
  BY BlankCanvasType, ResetToStateSound
<1>2. UndoDepthDefault \in UndoDepthMin .. UndoDepthMax
  BY HistoryAssumption DEF HistoryAssumption
<1> QED BY <1>1, <1>2, LimitChanged DEF DP_canvas_history_reset

(* A reset that keeps the fork starts it anew at the only entry.           *)
LEMMA ResetKeepingForkSound ==
  ASSUME NEW c, Sound(c)
  PROVE  Sound(ResetKeepingFork(c))
<1> DEFINE bare == IF have_local_fork(c)
                   THEN search_and_replay_from(c, fork_start_index(c), FALSE) ELSE c
           d == reset_to_state(bare, bare.current)
<1>1. have_local_fork(c) => fork_start_index(c) \in DOMAIN c.entries
  <2>1. Len(c.entries) \in Nat /\ c.offset \in Nat /\ c.forkStart \in Nat
        /\ DOMAIN c.entries = 1 .. Len(c.entries)
    BY Entries DEF Sound, SoundHistory
  <2> QED BY <2>1 DEF Sound, StartsWithin, ForkPoint, fork_start_index
<1>2. Sound(bare)
  BY <1>1, SearchAndReplayFrom
<1>3. ResetKeepingFork(c) = IF have_local_fork(c) THEN replay_fork_dec(d, d.current) ELSE d
  BY DEF ResetKeepingFork
<1>4. ~have_local_fork(c) => bare.fork = << >>
  BY DEF have_local_fork
<1> HIDE DEF bare
<1>5. d \in SoundHistory /\ d.entries # << >> /\ d.fork = bare.fork /\ d.current \in Canvas
  <2>1. bare.current \in Canvas
    BY <1>2 DEF Sound, SoundHistory
  <2> QED BY <1>2, <2>1, ResetToStateType DEF Sound
<1> HIDE DEF d
<1>6. Sound(replay_fork_dec(d, d.current))
  BY <1>5, ReplayFork
<1>7. ~have_local_fork(c) => Sound(d)
  BY <1>4, <1>5 DEF Sound, StartsWithin, have_local_fork
<1> QED BY <1>3, <1>6, <1>7

(* Any depth that is asked for is brought into its range.                  *)
LEMMA UndoDepthLimitSetSound ==
  ASSUME NEW c, Sound(c), NEW limit \in Nat
  PROVE  Sound(DP_canvas_history_undo_depth_limit_set(c, limit))
<1> DEFINE effective == IF limit < UndoDepthMin THEN UndoDepthMin
                        ELSE IF limit > UndoDepthMax THEN UndoDepthMax ELSE limit
<1>1. effective \in UndoDepthMin .. UndoDepthMax
  BY HistoryAssumption DEF HistoryAssumption
<1>2. DP_canvas_history_undo_depth_limit_set(c, limit)
        = ResetKeepingFork([c EXCEPT !.limit = effective])
  BY DEF DP_canvas_history_undo_depth_limit_set
<1> HIDE DEF effective
<1> QED BY <1>1, <1>2, LimitChanged, ResetKeepingForkSound

(* A new history.                                                          *)
LEMMA NewSound == ASSUME NEW cs \in Canvas PROVE Sound(DP_canvas_history_new(cs))
<1> DEFINE es == <<InitialEntry(cs)>>
           none == << >>
           d == [entries |-> es, offset |-> 0, current |-> cs, fork |-> none,
                 forkStart |-> 0, forkAtUndoPoint |-> FALSE, fallbehind |-> 0,
                 markDone |-> TRUE, limit |-> UndoDepthDefault]
<1>1. es \in Seq(SoundEntry) /\ es # << >>
  BY InitialEntries
<1>2. none \in Seq(Message) /\ none = << >>
  BY EmptySeq
<1>3. UndoDepthDefault \in UndoDepthMin .. UndoDepthMax
  BY HistoryAssumption DEF HistoryAssumption
<1>4. DP_canvas_history_new(cs) = d
  BY DEF DP_canvas_history_new
<1> HIDE DEF es, none
<1>5. Sound(d)
  BY <1>1, <1>2, <1>3 DEF Sound, SoundHistory, StartsWithin, have_local_fork
<1> QED BY <1>4, <1>5

----------------------------------------------------------------------------
(* The invariant is inductive, and it implies what the code asserts.       *)

(* A new history is sound.                                                 *)
LEMMA InitSound == Init => SoundInv
BY NewSound, BlankCanvasType DEF Init, SoundInv

(* Every entry point keeps a history sound, on every input.                *)
LEMMA NextSound == SoundInv /\ [Next]_vars => SoundInv'
<1> SUFFICES ASSUME SoundInv, [Next]_vars PROVE SoundInv'
  OBVIOUS
<1>1. Sound(ch) /\ drawing \in BOOLEAN
  BY DEF SoundInv
<1>2. ASSUME NEW m \in Message, Handle(m) PROVE SoundInv'
  BY <1>1, <1>2, HandleSound DEF Handle, SoundInv
<1>3. ASSUME NEW m \in Message, HandleLocal(m) PROVE SoundInv'
  BY <1>1, <1>3, HandleLocalSound DEF HandleLocal, SoundInv
<1>4. ASSUME NEW ms \in Seq(DabMessages), HandleMultidab(ms) PROVE SoundInv'
  <2>1. ms \in Seq(Message)
    BY <1>4 DEF DabMessages
  <2> QED BY <1>1, <1>4, <2>1, HandleMultidabSound DEF HandleMultidab, SoundInv
<1>5. ASSUME NEW ms \in Seq(OwnDabMessages), HandleLocalMultidab(ms) PROVE SoundInv'
  <2>1. ms \in Seq(Message)
    BY <1>5 DEF DabMessages, OwnDabMessages
  <2> QED BY <1>1, <1>5, <2>1, HandleLocalMultidabSound DEF HandleLocalMultidab, SoundInv
<1>6. CASE LocalForkClear
  BY <1>1, <1>6, LocalForkClearSound DEF LocalForkClear, SoundInv
<1>7. CASE Cleanup
  BY <1>1, <1>7, LocalForkClearSound DEF Cleanup, DP_canvas_history_cleanup, SoundInv
<1>8. CASE SavePointMake
  BY <1>1, <1>8, SavePointMakeSound DEF SavePointMake, SoundInv
<1>9. CASE Reset
  BY <1>1, <1>9, ResetSound DEF Reset, SoundInv
<1>10. CASE SoftReset
  BY <1>1, <1>10, ResetKeepingForkSound DEF SoftReset, DP_canvas_history_soft_reset, SoundInv
<1>11. ASSUME NEW cs \in Canvas, ResetToState(cs) PROVE SoundInv'
  BY <1>1, <1>11, ResetToStateSound DEF ResetToState, SoundInv
<1>12. ASSUME NEW limit \in Nat, UndoDepthLimitSet(limit) PROVE SoundInv'
  BY <1>1, <1>12, UndoDepthLimitSetSound DEF UndoDepthLimitSet, SoundInv
<1>13. ASSUME NEW b \in BOOLEAN, LocalDrawingInProgressSet(b) PROVE SoundInv'
  BY <1>1, <1>13, Zenon DEF LocalDrawingInProgressSet, SoundInv
<1>14. CASE UNCHANGED vars
  BY <1>1, <1>14, Zenon DEF vars, SoundInv
<1> QED BY <1>2, <1>3, <1>4, <1>5, <1>6, <1>7, <1>8, <1>9, <1>10, <1>11, <1>12, <1>13, <1>14,
           Zenon DEF Next

(* A sound history has its type, and only the save points it should.       *)
LEMMA SoundIsValid == SoundInv => TypeOK /\ SavePointsValid /\ ForkStartReachable
<1> SUFFICES ASSUME SoundInv PROVE TypeOK /\ SavePointsValid /\ ForkStartReachable
  OBVIOUS
<1>1. Sound(ch) /\ drawing \in BOOLEAN
  BY DEF SoundInv
<1>2. ch.entries \in Seq(Entry)
  <2>1. ch.entries \in Seq(SoundEntry) /\ SoundEntry \subseteq Entry
    BY <1>1, Entries DEF SoundEntry
  <2> QED BY <2>1
<1>3. ch \in History
  BY <1>1, <1>2 DEF Sound, SoundHistory, History
<1>4. SavePointsValid
  BY <1>1, Entries DEF SavePointsValid, SoundEntry
<1>5. ForkStartReachable
  BY <1>1 DEF Sound, StartsWithin, ForkPoint, ForkStartReachable
<1> QED BY <1>1, <1>3, <1>4, <1>5 DEF TypeOK

(* A history is sound in every state that its handlers can reach.          *)
THEOREM AlwaysSound == Spec => []SoundInv
BY InitSound, NextSound, PTL DEF Spec

(* A canvas history always has its type (canvas_history.h): the positions, *)
(* the fork and the marks that the handlers compute never leave it.        *)
THEOREM TypeCorrect == Spec => []TypeOK
BY AlwaysSound, SoundIsValid, PTL

(* validate_history's assertion on save points: an entry that holds a      *)
(* canvas state is done, or is an undo point that is undone.               *)
THEOREM SavePointsAlwaysValid == Spec => []SavePointsValid
BY AlwaysSound, SoundIsValid, PTL

(* validate_history's assertion on the fork: truncate_history never takes  *)
(* away the entry that a rollback goes back to.                            *)
THEOREM ForkStartAlwaysReachable == Spec => []ForkStartReachable
BY AlwaysSound, SoundIsValid, PTL

----------------------------------------------------------------------------
(***************************************************************************)
(* What drawing does, as sets.                                             *)
(***************************************************************************)

(* A command x is on cs after the commands msgs[i], i \in D; x comes before *)
(* y there.                                                                *)
Applied(cs, msgs, D, x) == x \in cs.applied \/ \E i \in D : x = msgs[i]

Ordered(cs, msgs, D, x, y) ==
  \/ <<x, y>> \in cs.order
  \/ x \in cs.applied /\ \E i \in D : y = msgs[i] /\ MustStayOrdered(x, msgs[i])
  \/ \E i \in D : \E j \in D :
       i < j /\ x = msgs[i] /\ y = msgs[j] /\ MustStayOrdered(msgs[i], msgs[j])

(* d is cs after these commands.                                           *)
Drawn(d, cs, msgs, D) ==
  /\ \A x : x \in d.applied <=> Applied(cs, msgs, D, x)
  /\ \A x : \A y : <<x, y>> \in d.order <=> Ordered(cs, msgs, D, x, y)

(* Every command is applied, in this order where the order matters.        *)
LEMMA DrawIs ==
  ASSUME NEW cs \in Canvas, NEW msgs \in Seq(Message), NEW D, D \subseteq DOMAIN msgs
  PROVE  Drawn(Draw(cs, msgs, D), cs, msgs, D)
<1> DEFINE before(i) == {<<x, msgs[i]>> : x \in {y \in cs.applied : MustStayOrdered(y, msgs[i])}}
           among(j) == {<<msgs[i], msgs[j]>> : i \in {k \in D :
                                   k < j /\ MustStayOrdered(msgs[k], msgs[j])}}
           B == {before(i) : i \in D}
           A == {among(j) : j \in D}
           d == Draw(cs, msgs, D)
<1>1. /\ d.applied = cs.applied \cup {msgs[i] : i \in D}
      /\ d.order = cs.order \cup UNION (B \cup A)
  BY Zenon DEF Draw
<1>2. \A x : x \in d.applied <=> Applied(cs, msgs, D, x)
  BY <1>1, Zenon DEF Applied
<1>3. ASSUME NEW x, NEW y
      PROVE  <<x, y>> \in d.order <=> Ordered(cs, msgs, D, x, y)
  <2>1. \A i : <<x, y>> \in before(i) <=> x \in cs.applied /\ MustStayOrdered(x, msgs[i]) /\ y = msgs[i]
    BY SMT
  <2>2. \A j : <<x, y>> \in among(j) <=>
                 \E i \in D : i < j /\ x = msgs[i] /\ y = msgs[j] /\ MustStayOrdered(msgs[i], msgs[j])
    BY SMT
  <2> HIDE DEF before, among
  <2>3. <<x, y>> \in UNION (B \cup A) <=>
          (\E i \in D : <<x, y>> \in before(i)) \/ (\E j \in D : <<x, y>> \in among(j))
    BY Zenon
  <2> QED BY <1>1, <2>1, <2>2, <2>3, Zenon DEF Ordered
<1> HIDE DEF d
<1>4. Drawn(d, cs, msgs, D)
  BY <1>2, <1>3, Zenon DEF Drawn
<1> QED BY <1>4 DEF d

(* Canvases that applied the same in the same order are the same.          *)
LEMMA CanvasSame ==
  ASSUME NEW a \in Canvas, NEW b \in Canvas,
         \A x : x \in a.applied <=> x \in b.applied,
         \A x : \A y : <<x, y>> \in a.order <=> <<x, y>> \in b.order
  PROVE  a = b
<1>1. a.applied = b.applied
  OBVIOUS
<1>2. a.order \subseteq Message \X Message /\ b.order \subseteq Message \X Message
  BY DEF Canvas
<1>3. a.order = b.order
  <2>1. \A p \in Message \X Message : p = <<p[1], p[2]>>
    OBVIOUS
  <2>2. a.order \subseteq b.order
    <3> SUFFICES ASSUME NEW p \in a.order PROVE p \in b.order
      OBVIOUS
    <3>1. p = <<p[1], p[2]>>
      BY <1>2, <2>1
    <3> QED BY <3>1
  <2>3. b.order \subseteq a.order
    <3> SUFFICES ASSUME NEW p \in b.order PROVE p \in a.order
      OBVIOUS
    <3>1. p = <<p[1], p[2]>>
      BY <1>2, <2>1
    <3> QED BY <3>1
  <2> QED BY <2>2, <2>3, Zenon
<1> QED BY <1>1, <1>3 DEF Canvas

(* The commands b[i], i \in E, are those of a, i \in D, further on by k.    *)
Shifted(a, D, b, E, k) ==
  (\A i \in Int : i \in D <=> i + k \in E) /\ \A i \in D : b[i + k] = a[i]

(* The same commands, further on in another sequence, draw the same.       *)
LEMMA DrawAlike ==
  ASSUME NEW cs \in Canvas, NEW a \in Seq(Message), NEW b \in Seq(Message), NEW k \in Int,
         NEW D, D \subseteq DOMAIN a, NEW E, E \subseteq DOMAIN b,
         Shifted(a, D, b, E, k)
  PROVE  Draw(cs, a, D) = Draw(cs, b, E)
<1> DEFINE d == Draw(cs, a, D)
           e == Draw(cs, b, E)
<1>1. d \in Canvas /\ e \in Canvas
  BY DrawType
<1>2. Drawn(d, cs, a, D) /\ Drawn(e, cs, b, E)
  BY DrawIs
<1> HIDE DEF d, e
<1>3. D \subseteq Int /\ E \subseteq Int
  <2>1. DOMAIN a = 1 .. Len(a) /\ DOMAIN b = 1 .. Len(b)
    BY LenProperties
  <2>2. 1 .. Len(a) \subseteq Int /\ 1 .. Len(b) \subseteq Int
    OBVIOUS
  <2>3. D \subseteq 1 .. Len(a) /\ E \subseteq 1 .. Len(b)
    BY <2>1, Zenon
  <2> QED BY <2>2, <2>3, Zenon
<1>4. \A i \in D : i + k \in E /\ a[i] = b[i + k]
  BY <1>3 DEF Shifted
<1>5. \A j \in E : j - k \in D /\ b[j] = a[j - k]
  <2> SUFFICES ASSUME NEW j \in E PROVE j - k \in D /\ b[j] = a[j - k]
    OBVIOUS
  <2>0. j \in Int
    BY <1>3, Zenon
  <2>1. j - k \in Int /\ (j - k) + k = j
    BY <2>0
  <2>2. j - k \in D
    BY <2>1 DEF Shifted
  <2> QED BY <2>1, <2>2 DEF Shifted
<1>6. \A x : Applied(cs, a, D, x) <=> Applied(cs, b, E, x)
  BY <1>4, <1>5, Zenon DEF Applied
<1>7. ASSUME NEW x, NEW y
      PROVE  Ordered(cs, a, D, x, y) <=> Ordered(cs, b, E, x, y)
  <2> DEFINE P(i, j) == i < j /\ x = a[i] /\ y = a[j] /\ MustStayOrdered(a[i], a[j])
             Q(i, j) == i < j /\ x = b[i] /\ y = b[j] /\ MustStayOrdered(b[i], b[j])
             G(i) == y = a[i] /\ MustStayOrdered(x, a[i])
             H(i) == y = b[i] /\ MustStayOrdered(x, b[i])
  <2>1. (\E i \in D : G(i)) <=> (\E i \in E : H(i))
    BY <1>4, <1>5, Zenon
  <2>2. ASSUME NEW i \in D, NEW j \in D, P(i, j) PROVE \E v \in E : \E w \in E : Q(v, w)
    <3>1. i + k < j + k
      BY <1>3, <2>2
    <3>2. Q(i + k, j + k)
      BY <1>4, <2>2, <3>1, Zenon
    <3> HIDE DEF Q
    <3> QED BY <1>4, <3>2, Zenon
  <2>3. ASSUME NEW i \in E, NEW j \in E, Q(i, j) PROVE \E v \in D : \E w \in D : P(v, w)
    <3>1. i - k < j - k
      BY <1>3, <2>3
    <3>2. P(i - k, j - k)
      BY <1>5, <2>3, <3>1, Zenon
    <3> HIDE DEF P
    <3> QED BY <1>5, <3>2, Zenon
  <2> HIDE DEF P, Q, G, H
  <2>4. (\E i \in D : \E j \in D : P(i, j)) <=> (\E i \in E : \E j \in E : Q(i, j))
    BY <2>2, <2>3, Zenon
  <2> QED BY <2>1, <2>4, Zenon DEF Ordered, P, Q, G, H
<1>8. d = e
  BY <1>1, <1>2, <1>6, <1>7, CanvasSame, Zenon DEF Drawn
<1> QED BY <1>8 DEF d, e

(* Nothing to draw.                                                        *)
LEMMA DrawNothing ==
  ASSUME NEW cs \in Canvas, NEW msgs \in Seq(Message) PROVE Draw(cs, msgs, {}) = cs
<1> DEFINE d == Draw(cs, msgs, {})
<1>1. d \in Canvas
  BY DrawType
<1>0. Drawn(d, cs, msgs, {})
  BY DrawIs
<1> HIDE DEF d
<1>2. \A x : x \in d.applied <=> x \in cs.applied
  BY <1>0, Zenon DEF Drawn, Applied
<1>3. \A x : \A y : <<x, y>> \in d.order <=> <<x, y>> \in cs.order
  BY <1>0, Zenon DEF Drawn, Ordered
<1>4. d = cs
  BY <1>1, <1>2, <1>3, CanvasSame, Zenon
<1> QED BY <1>4 DEF d

(* What is drawn in two parts, one after the other.                        *)
LEMMA DrawTwice ==
  ASSUME NEW cs \in Canvas, NEW msgs \in Seq(Message),
         NEW D, D \subseteq DOMAIN msgs, NEW E, E \subseteq DOMAIN msgs,
         \A i \in D, j \in E : i < j
  PROVE  Draw(Draw(cs, msgs, D), msgs, E) = Draw(cs, msgs, D \cup E)
<1> DEFINE c == Draw(cs, msgs, D)
           d == Draw(c, msgs, E)
           e == Draw(cs, msgs, D \cup E)
<1>1. c \in Canvas /\ e \in Canvas
  BY DrawType
<1>2. d \in Canvas
  BY <1>1, DrawType
<1>0. Drawn(c, cs, msgs, D) /\ Drawn(d, c, msgs, E) /\ Drawn(e, cs, msgs, D \cup E)
  BY <1>1, DrawIs
<1> HIDE DEF c, d, e
<1>3. \A x : Applied(cs, msgs, D \cup E, x) <=> Applied(c, msgs, E, x)
  <2>1. \A x : x \in c.applied <=> Applied(cs, msgs, D, x)
    BY <1>0, Zenon DEF Drawn
  <2> QED BY <2>1, Zenon DEF Applied
<1>4. ASSUME NEW x, NEW y
      PROVE  Ordered(cs, msgs, D \cup E, x, y) <=> Ordered(c, msgs, E, x, y)
  <2> DEFINE W(i, j) == i < j /\ x = msgs[i] /\ y = msgs[j] /\ MustStayOrdered(msgs[i], msgs[j])
             G(i) == y = msgs[i] /\ MustStayOrdered(x, msgs[i])
             X(i) == x = msgs[i]
  <2>1. x \in c.applied <=> x \in cs.applied \/ \E i \in D : X(i)
    BY <1>0, Zenon DEF Drawn, Applied
  <2>2. <<x, y>> \in c.order <=>
          \/ <<x, y>> \in cs.order \/ (x \in cs.applied /\ \E i \in D : G(i))
          \/ \E i \in D : \E j \in D : W(i, j)
    <3>1. <<x, y>> \in c.order <=> Ordered(cs, msgs, D, x, y)
      BY <1>0, Zenon DEF Drawn
    <3> QED BY <3>1, Zenon DEF Ordered
  <2>3. (\E i \in D \cup E : \E j \in D \cup E : W(i, j)) <=>
          \/ \E i \in D : \E j \in D : W(i, j)
          \/ \E i \in E : \E j \in E : W(i, j)
          \/ (\E i \in D : X(i)) /\ \E j \in E : G(j)
    <3>1. \A i \in D : \A j \in E : i < j /\ ~(j < i)
      <4>1. DOMAIN msgs = 1 .. Len(msgs)
        BY LenProperties
      <4> QED BY <4>1
    <3>2. \A i \in D : \A j \in E : (W(i, j) <=> X(i) /\ G(j)) /\ ~W(j, i)
      BY <3>1, Zenon
    <3> HIDE DEF W, X, G
    <3> QED BY <3>2, Zenon
  <2> HIDE DEF W, G, X
  <2>4. Ordered(cs, msgs, D \cup E, x, y) <=>
          \/ <<x, y>> \in cs.order \/ (x \in cs.applied /\ \E i \in D \cup E : G(i))
          \/ \E i \in D \cup E : \E j \in D \cup E : W(i, j)
    BY Zenon DEF Ordered, W, G
  <2>5. Ordered(c, msgs, E, x, y) <=>
          \/ <<x, y>> \in c.order \/ (x \in c.applied /\ \E i \in E : G(i))
          \/ \E i \in E : \E j \in E : W(i, j)
    BY Zenon DEF Ordered, W, G
  <2>6. (\E i \in D \cup E : G(i)) <=> (\E i \in D : G(i)) \/ \E i \in E : G(i)
    BY Zenon
  <2> QED BY <2>1, <2>2, <2>3, <2>4, <2>5, <2>6, Zenon
<1>5. /\ \A x : x \in d.applied <=> x \in e.applied
      /\ \A x : \A y : <<x, y>> \in d.order <=> <<x, y>> \in e.order
  BY <1>0, <1>3, <1>4, Zenon DEF Drawn
<1>6. d = e
  BY <1>1, <1>2, <1>5, CanvasSame, Zenon
<1> QED BY <1>6 DEF c, d, e

(* These two may be drawn either way round.                                *)
Apart(m, n) == ~MustStayOrdered(m, n) /\ ~MustStayOrdered(n, m)

(* Commands that need no order may be drawn either way round.              *)
LEMMA DrawEither ==
  ASSUME NEW cs \in Canvas, NEW a \in Seq(Message), NEW b \in Seq(Message),
         NEW D, D \subseteq DOMAIN a, NEW E, E \subseteq DOMAIN b,
         \A i \in D, j \in E : Apart(a[i], b[j])
  PROVE  Draw(Draw(cs, a, D), b, E) = Draw(Draw(cs, b, E), a, D)
<1> DEFINE c == Draw(cs, a, D)
           d == Draw(c, b, E)
           f == Draw(cs, b, E)
           e == Draw(f, a, D)
           P(x, y) == \E i \in D : \E j \in D : i < j /\ x = a[i] /\ y = a[j] /\ MustStayOrdered(a[i], a[j])
           Q(x, y) == \E i \in E : \E j \in E : i < j /\ x = b[i] /\ y = b[j] /\ MustStayOrdered(b[i], b[j])
           G(x, y) == \E i \in D : y = a[i] /\ MustStayOrdered(x, a[i])
           H(x, y) == \E i \in E : y = b[i] /\ MustStayOrdered(x, b[i])
<1>1. c \in Canvas /\ f \in Canvas
  BY DrawType
<1>2. d \in Canvas /\ e \in Canvas
  BY <1>1, DrawType
<1>0. /\ Drawn(c, cs, a, D) /\ Drawn(d, c, b, E)
      /\ Drawn(f, cs, b, E) /\ Drawn(e, f, a, D)
  BY <1>1, DrawIs
<1> HIDE DEF c, d, e, f
<1>3. \A x : Applied(c, b, E, x) <=> Applied(f, a, D, x)
  BY <1>0, Zenon DEF Drawn, Applied
<1>4. ASSUME NEW x, NEW y
      PROVE  Ordered(c, b, E, x, y) <=> Ordered(f, a, D, x, y)
  <2>1. /\ <<x, y>> \in c.order <=> <<x, y>> \in cs.order \/ (x \in cs.applied /\ G(x, y)) \/ P(x, y)
        /\ <<x, y>> \in f.order <=> <<x, y>> \in cs.order \/ (x \in cs.applied /\ H(x, y)) \/ Q(x, y)
    <3>1. /\ <<x, y>> \in c.order <=> Ordered(cs, a, D, x, y)
          /\ <<x, y>> \in f.order <=> Ordered(cs, b, E, x, y)
      BY <1>0, Zenon DEF Drawn
    <3> QED BY <3>1, Zenon DEF Ordered
  <2>2. /\ Ordered(c, b, E, x, y) <=> <<x, y>> \in c.order \/ (x \in c.applied /\ H(x, y)) \/ Q(x, y)
        /\ Ordered(f, a, D, x, y) <=> <<x, y>> \in f.order \/ (x \in f.applied /\ G(x, y)) \/ P(x, y)
    BY Zenon DEF Ordered
  <2>3. ~((\E i \in D : x = a[i]) /\ H(x, y)) /\ ~((\E i \in E : x = b[i]) /\ G(x, y))
    BY Zenon DEF Apart
  <2>4. /\ x \in c.applied <=> x \in cs.applied \/ \E i \in D : x = a[i]
        /\ x \in f.applied <=> x \in cs.applied \/ \E i \in E : x = b[i]
    BY <1>0, Zenon DEF Drawn, Applied
  <2> HIDE DEF G, H, P, Q
  <2> QED BY <2>1, <2>2, <2>3, <2>4, Zenon
<1>5. /\ \A x : x \in d.applied <=> x \in e.applied
      /\ \A x : \A y : <<x, y>> \in d.order <=> <<x, y>> \in e.order
  BY <1>0, <1>3, <1>4, Zenon DEF Drawn
<1>6. d = e
  BY <1>2, <1>5, CanvasSame, Zenon
<1> QED BY <1>6 DEF c, d, e, f

----------------------------------------------------------------------------
(***************************************************************************)
(* Replays.                                                                *)
(***************************************************************************)

(* A drawing command that is not undone.                                   *)
DoneDraw(e) == e.undo = "Done" /\ IsDraw(e.msg)

(* The commands of the entries.                                            *)
Msgs(es) == [j \in DOMAIN es |-> es[j].msg]

(* Where a replay after start and up to i finds something to draw.         *)
DrawsIn(es, start, i) == {j \in start + 1 .. i : DoneDraw(es[j])}

(* A replay draws the done drawing commands.                               *)
LEMMA ReplayIs ==
  ASSUME NEW es \in Seq(SoundEntry), NEW start \in 0 .. Len(es), NEW i \in 0 .. Len(es),
         NEW cs \in Canvas
  PROVE  /\ Msgs(es) \in Seq(Message) /\ DOMAIN Msgs(es) = 1 .. Len(es)
         /\ DrawsIn(es, start, i) \subseteq 1 .. Len(es)
         /\ ReplayedTo(es, start, cs, i) = Draw(cs, Msgs(es), DrawsIn(es, start, i))
         /\ ReplayedTo(es, start, cs, i) \in Canvas
<1>1. Len(es) \in Nat /\ DOMAIN es = 1 .. Len(es)
  BY LenProperties
<1>2. \A j \in 1 .. Len(es) : es[j].msg \in Message
  <2> SUFFICES ASSUME NEW j \in 1 .. Len(es) PROVE es[j].msg \in Message
    OBVIOUS
  <2>1. es[j] \in SoundEntry
    BY <1>1, ElementOfSeq
  <2> QED BY <2>1 DEF SoundEntry, Entry
<1>3. Msgs(es) \in [1 .. Len(es) -> Message]
  BY <1>1, <1>2 DEF Msgs
<1>4. Msgs(es) \in Seq(Message) /\ DOMAIN Msgs(es) = 1 .. Len(es)
  BY <1>1, <1>3, PointwiseSeq, Zenon
<1>5. DrawsIn(es, start, i) \subseteq 1 .. Len(es)
  BY <1>1 DEF DrawsIn
<1>6. ReplayedTo(es, start, cs, i) = Draw(cs, Msgs(es), DrawsIn(es, start, i))
  BY Zenon DEF ReplayedTo, Msgs, DrawsIn, DoneDraw
<1>7. Draw(cs, Msgs(es), DrawsIn(es, start, i)) \in Canvas
  BY <1>4, <1>5, DrawType
<1> QED BY <1>4, <1>5, <1>6, <1>7, Zenon

(* A replay may stop on its way and go on from there.                      *)
LEMMA ReplayOn ==
  ASSUME NEW es \in Seq(SoundEntry), NEW start \in 0 .. Len(es), NEW i \in 0 .. Len(es),
         NEW cs \in Canvas, NEW a \in 0 .. Len(es), start <= a, a <= i
  PROVE  ReplayedTo(es, a, ReplayedTo(es, start, cs, a), i) = ReplayedTo(es, start, cs, i)
<1> DEFINE D == DrawsIn(es, start, a)
           E == DrawsIn(es, a, i)
           ms == Msgs(es)
<1>1. Len(es) \in Nat
  BY LenProperties
<1>2. D \cup E = DrawsIn(es, start, i)
  BY <1>1 DEF DrawsIn
<1>3. \A x \in D, y \in E : x < y
  BY <1>1 DEF DrawsIn
<1>4. /\ ms \in Seq(Message) /\ DOMAIN ms = 1 .. Len(es) /\ D \subseteq 1 .. Len(es)
      /\ ReplayedTo(es, start, cs, a) = Draw(cs, ms, D)
      /\ ReplayedTo(es, start, cs, a) \in Canvas
  BY ReplayIs, Zenon
<1>5. /\ E \subseteq 1 .. Len(es)
      /\ ReplayedTo(es, a, ReplayedTo(es, start, cs, a), i)
           = Draw(ReplayedTo(es, start, cs, a), ms, E)
  BY <1>4, ReplayIs, Zenon
<1>6. ReplayedTo(es, start, cs, i) = Draw(cs, ms, DrawsIn(es, start, i))
  BY ReplayIs, Zenon
<1> HIDE DEF D, E, ms
<1>7. ms \in Seq(Message) /\ D \subseteq DOMAIN ms /\ E \subseteq DOMAIN ms
  BY <1>4, <1>5, Zenon
<1>8. Draw(Draw(cs, ms, D), ms, E) = Draw(cs, ms, D \cup E)
  BY <1>3, <1>7, DrawTwice
<1> QED BY <1>2, <1>4, <1>5, <1>6, <1>8, Zenon

(* A replay draws the same for both.                                       *)
SameDraw(e, f) == (DoneDraw(e) <=> DoneDraw(f)) /\ (DoneDraw(e) => e.msg = f.msg)

(* The entries of fs, k further on, draw what those of es do.              *)
SameDraws(es, fs, k, start, i) == \A j \in start + 1 .. i : SameDraw(es[j], fs[j + k])

(* The same drawing commands, done, replay the same.                       *)
LEMMA ReplayAlike ==
  ASSUME NEW es \in Seq(SoundEntry), NEW start \in 0 .. Len(es), NEW i \in 0 .. Len(es),
         NEW fs \in Seq(SoundEntry), NEW k \in Int,
         start + k \in 0 .. Len(fs), i + k \in 0 .. Len(fs), NEW cs \in Canvas,
         SameDraws(es, fs, k, start, i)
  PROVE  ReplayedTo(es, start, cs, i) = ReplayedTo(fs, start + k, cs, i + k)
<1> DEFINE D == DrawsIn(es, start, i)
           E == DrawsIn(fs, start + k, i + k)
           a == Msgs(es)
           b == Msgs(fs)
<1>1. Len(es) \in Nat /\ Len(fs) \in Nat
  BY LenProperties
<1>2. /\ a \in Seq(Message) /\ DOMAIN a = 1 .. Len(es) /\ D \subseteq 1 .. Len(es)
      /\ ReplayedTo(es, start, cs, i) = Draw(cs, a, D)
  BY ReplayIs, Zenon
<1>3. /\ b \in Seq(Message) /\ DOMAIN b = 1 .. Len(fs) /\ E \subseteq 1 .. Len(fs)
      /\ ReplayedTo(fs, start + k, cs, i + k) = Draw(cs, b, E)
  BY ReplayIs, Zenon
<1>4. \A j \in Int : j \in D <=> j + k \in E
  <2> SUFFICES ASSUME NEW j \in Int PROVE j \in D <=> j + k \in E
    OBVIOUS
  <2>1. j \in start + 1 .. i <=> j + k \in (start + k) + 1 .. i + k
    BY <1>1
  <2>2. j \in start + 1 .. i => (DoneDraw(es[j]) <=> DoneDraw(fs[j + k]))
    BY Zenon DEF SameDraws, SameDraw
  <2> QED BY <2>1, <2>2, Zenon DEF DrawsIn
<1>5. \A j \in D : b[j + k] = a[j]
  <2> SUFFICES ASSUME NEW j \in D PROVE b[j + k] = a[j]
    OBVIOUS
  <2>1. j \in Int /\ j \in start + 1 .. i /\ DoneDraw(es[j])
    BY <1>1 DEF DrawsIn
  <2>2. fs[j + k].msg = es[j].msg
    BY <2>1, Zenon DEF SameDraws, SameDraw
  <2>3. j + k \in E
    BY <1>4, <2>1, Zenon
  <2>4. j \in DOMAIN a /\ j + k \in DOMAIN b
    BY <1>2, <1>3, <2>3, Zenon
  <2>5. j \in DOMAIN es /\ j + k \in DOMAIN fs
    BY <2>4, Zenon DEF Msgs
  <2> QED BY <2>2, <2>5, Zenon DEF Msgs
<1> HIDE DEF D, E, a, b
<1>6. D \subseteq DOMAIN a /\ E \subseteq DOMAIN b /\ a \in Seq(Message) /\ b \in Seq(Message)
  BY <1>2, <1>3, Zenon
<1>7. Draw(cs, a, D) = Draw(cs, b, E)
  <2>1. Shifted(a, D, b, E, k)
    BY <1>4, <1>5, Zenon DEF Shifted
  <2> QED BY <1>6, <2>1, DrawAlike
<1> QED BY <1>2, <1>3, <1>7, Zenon

(* The same at the same place.                                             *)
LEMMA ReplaySame ==
  ASSUME NEW es \in Seq(SoundEntry), NEW start \in 0 .. Len(es), NEW i \in 0 .. Len(es),
         NEW fs \in Seq(SoundEntry), i <= Len(fs), start <= i, NEW cs \in Canvas,
         \A j \in start + 1 .. i : SameDraw(es[j], fs[j])
  PROVE  ReplayedTo(es, start, cs, i) = ReplayedTo(fs, start, cs, i)
<1> DEFINE none == 0
<1>1. Len(es) \in Nat /\ Len(fs) \in Nat
  BY LenProperties
<1>2. /\ start + none = start /\ i + none = i /\ none \in Int
      /\ \A j \in Int : j + none = j
      /\ start + none \in 0 .. Len(fs) /\ i + none \in 0 .. Len(fs)
  BY <1>1
<1> HIDE DEF none
<1>3. SameDraws(es, fs, none, start, i)
  <2> SUFFICES ASSUME NEW j \in start + 1 .. i PROVE SameDraw(es[j], fs[j + none])
    BY Zenon DEF SameDraws
  <2>1. j \in Int
    OBVIOUS
  <2>2. j + none = j
    BY <1>2, <2>1
  <2> QED BY <2>2, Zenon
<1>4. ReplayedTo(es, start, cs, i) = ReplayedTo(fs, start + none, cs, i + none)
  <2>1. none \in Int /\ start + none \in 0 .. Len(fs) /\ i + none \in 0 .. Len(fs)
    BY <1>2
  <2> QED BY <1>3, <2>1, ReplayAlike
<1> QED BY <1>2, <1>4, Zenon

(* Where nothing is drawn, nothing changes.                                *)
LEMMA ReplaySkips ==
  ASSUME NEW es \in Seq(SoundEntry), NEW start \in 0 .. Len(es), NEW i \in 0 .. Len(es),
         NEW cs \in Canvas, NEW a \in 0 .. Len(es), start <= a, a <= i,
         \A j \in a + 1 .. i : ~DoneDraw(es[j])
  PROVE  ReplayedTo(es, start, cs, i) = ReplayedTo(es, start, cs, a)
<1> DEFINE y == ReplayedTo(es, start, cs, a)
<1>1. y \in Canvas
  BY ReplayIs, Zenon
<1>2. ReplayedTo(es, a, y, i) = ReplayedTo(es, start, cs, i)
  BY ReplayOn, Zenon
<1> HIDE DEF y
<1>3. ReplayedTo(es, a, y, i) = Draw(y, Msgs(es), DrawsIn(es, a, i)) /\ Msgs(es) \in Seq(Message)
  BY <1>1, ReplayIs, Zenon
<1>4. DrawsIn(es, a, i) = {}
  BY Zenon DEF DrawsIn
<1>5. Draw(y, Msgs(es), {}) = y
  BY <1>1, <1>3, DrawNothing, Zenon
<1> QED BY <1>2, <1>3, <1>4, <1>5, Zenon DEF y

(* One command more.                                                       *)
LEMMA ReplayStep ==
  ASSUME NEW es \in Seq(SoundEntry), NEW start \in 0 .. Len(es), NEW i \in 1 .. Len(es),
         NEW cs \in Canvas, start < i
  PROVE  ReplayedTo(es, start, cs, i) =
           IF DoneDraw(es[i]) THEN DrawOne(ReplayedTo(es, start, cs, i - 1), es[i].msg)
                              ELSE ReplayedTo(es, start, cs, i - 1)
<1> DEFINE a == i - 1
           y == ReplayedTo(es, start, cs, a)
           m == es[i].msg
<1>1. /\ Len(es) \in Nat /\ DOMAIN es = 1 .. Len(es)
      /\ a \in 0 .. Len(es) /\ i \in 0 .. Len(es) /\ start <= a /\ a <= i /\ a + 1 = i /\ i \in Int
  BY LenProperties
<1>2. y \in Canvas
  BY <1>1, ReplayIs, Zenon
<1>3. ReplayedTo(es, a, y, i) = ReplayedTo(es, start, cs, i)
  BY <1>1, ReplayOn, Zenon
<1> HIDE DEF y
<1>4. /\ ReplayedTo(es, a, y, i) = Draw(y, Msgs(es), DrawsIn(es, a, i))
      /\ Msgs(es) \in Seq(Message) /\ DOMAIN Msgs(es) = 1 .. Len(es)
  BY <1>1, <1>2, ReplayIs, Zenon
<1>5. a + 1 .. i = {i}
  BY <1>1
<1>6. CASE DoneDraw(es[i])
  <2>1. DrawsIn(es, a, i) = {i}
    BY <1>5, <1>6, Zenon DEF DrawsIn
  <2>2. <<m>> \in Seq(Message) /\ DOMAIN <<m>> = {1} /\ <<m>>[1] = m
    <3>1. es[i] \in SoundEntry
      BY <1>1, ElementOfSeq
    <3>2. m \in Message
      BY <3>1 DEF SoundEntry, Entry
    <3> HIDE DEF m
    <3> QED BY <3>2
  <2>3. Msgs(es)[i] = m
    BY <1>1, Zenon DEF Msgs
  <2> DEFINE w == <<m>>
             E == {i}
             D == {1}
             b == Msgs(es)
  <2>4. \A j \in Int : j \in D <=> j + (i - 1) \in E
    BY <1>1
  <2>5. \A j \in D : b[j + (i - 1)] = w[j]
    <3>1. 1 + (i - 1) = i
      BY <1>1
    <3> QED BY <2>2, <2>3, <3>1, Zenon
  <2>6. i - 1 \in Int /\ D \subseteq DOMAIN w /\ E \subseteq DOMAIN b
    BY <1>1, <1>4, <2>2
  <2>7. w \in Seq(Message) /\ b \in Seq(Message)
    BY <1>4, <2>2
  <2> HIDE DEF w, b, D, E
  <2>8. Draw(y, w, D) = Draw(y, b, E)
    <3>1. Shifted(w, D, b, E, i - 1)
      BY <2>4, <2>5, Zenon DEF Shifted
    <3> QED BY <1>2, <2>6, <2>7, <3>1, DrawAlike
  <2>9. DrawOne(y, m) = Draw(y, b, E)
    BY <2>8, Zenon DEF DrawOne, D, w
  <2> QED BY <1>3, <1>4, <1>6, <2>1, <2>9, Zenon DEF b, E, y
<1>7. CASE ~DoneDraw(es[i])
  <2>1. DrawsIn(es, a, i) = {}
    BY <1>5, <1>7, Zenon DEF DrawsIn
  <2>2. Draw(y, Msgs(es), {}) = y
    BY <1>2, <1>4, DrawNothing, Zenon
  <2> QED BY <1>3, <1>4, <1>7, <2>1, <2>2, Zenon DEF y
<1> QED BY <1>6, <1>7, Zenon

(* A replay to where it starts.                                            *)
LEMMA ReplayNowhere ==
  ASSUME NEW es \in Seq(SoundEntry), NEW start \in 0 .. Len(es), NEW cs \in Canvas
  PROVE  ReplayedTo(es, start, cs, start) = cs
<1>1. Len(es) \in Nat
  BY LenProperties
<1>2. DrawsIn(es, start, start) = {}
  BY <1>1 DEF DrawsIn
<1>3. /\ Msgs(es) \in Seq(Message)
      /\ ReplayedTo(es, start, cs, start) = Draw(cs, Msgs(es), DrawsIn(es, start, start))
  BY ReplayIs, Zenon
<1> QED BY <1>2, <1>3, DrawNothing, Zenon

----------------------------------------------------------------------------
(***************************************************************************)
(* What is drawn on top of a canvas.                                       *)
(***************************************************************************)

(* The drawing commands of a fork.                                         *)
DrawsOf(f) == {i \in DOMAIN f : IsDraw(f[i])}

(* The canvas with the fork on top.                                        *)
Shown(cs, f) == Draw(cs, f, DrawsOf(f))

(* It is a canvas.                                                         *)
LEMMA ShownType ==
  ASSUME NEW cs \in Canvas, NEW f \in Seq(Message) PROVE Shown(cs, f) \in Canvas
<1>1. DrawsOf(f) \subseteq DOMAIN f
  BY DEF DrawsOf
<1> QED BY <1>1, DrawType DEF Shown

(* An empty fork shows nothing.                                            *)
LEMMA ShownNothing ==
  ASSUME NEW cs \in Canvas PROVE Shown(cs, << >>) = cs
<1>1. << >> \in Seq(Message)
  BY EmptySeq
<1>2. DrawsOf(<< >>) = {}
  BY DEF DrawsOf
<1> QED BY <1>1, <1>2, DrawNothing, Zenon DEF Shown

(* First some, then the others.                                            *)
LEMMA ShownMore ==
  ASSUME NEW cs \in Canvas, NEW f \in Seq(Message), NEW g \in Seq(Message)
  PROVE  Shown(Shown(cs, f), g) = Shown(cs, f \o g)
<1> DEFINE h == f \o g
           n == Len(f)
           p == Len(g)
           D == DrawsOf(f)
           E == DrawsOf(g)
           G == {j \in n + 1 .. n + p : IsDraw(h[j])}
           y == Shown(cs, f)
<1>1. /\ h \in Seq(Message) /\ DOMAIN f = 1 .. n /\ DOMAIN g = 1 .. p
      /\ DOMAIN h = 1 .. n + p /\ n \in Nat /\ p \in Nat
      /\ \A i \in 1 .. n : h[i] = f[i]
      /\ \A i \in 1 .. p : h[i + n] = g[i]
  BY ConcatIs
<1>2. y \in Canvas
  BY ShownType
<1>3. y = Draw(cs, f, D) /\ Shown(y, g) = Draw(y, g, E) /\ Shown(cs, h) = Draw(cs, h, DrawsOf(h))
  BY DEF Shown
<1> HIDE DEF h, n, p, y
<1>4. D = {i \in 1 .. n : IsDraw(f[i])} /\ E = {i \in 1 .. p : IsDraw(g[i])}
  BY <1>1, Zenon DEF DrawsOf
<1>5. /\ D \subseteq 1 .. n /\ E \subseteq 1 .. p /\ G \subseteq n + 1 .. n + p
  BY <1>4, Zenon
<1>6. Shifted(f, D, h, D, 0)
  <2>1. \A i \in Int : i + 0 = i
    OBVIOUS
  <2>2. \A i \in Int : i \in D <=> i + 0 \in D
    BY <2>1, Zenon
  <2>3. \A i \in D : h[i + 0] = f[i]
    BY <1>1, <1>5
  <2> QED BY <2>2, <2>3, Zenon DEF Shifted
<1>7. Shifted(g, E, h, G, n)
  <2>1. \A i \in Int : i \in 1 .. p <=> i + n \in n + 1 .. n + p
    BY <1>1
  <2>2. \A i \in Int : i \in E <=> i + n \in G
    <3> SUFFICES ASSUME NEW i \in Int PROVE i \in E <=> i + n \in G
      OBVIOUS
    <3>1. i \in E <=> i \in 1 .. p /\ IsDraw(g[i])
      BY <1>4, Zenon
    <3>2. i + n \in G <=> i + n \in n + 1 .. n + p /\ IsDraw(h[i + n])
      BY Zenon
    <3> QED BY <1>1, <2>1, <3>1, <3>2, Zenon
  <2>3. \A i \in E : h[i + n] = g[i]
    BY <1>1, <1>5, Zenon
  <2> QED BY <2>2, <2>3, Zenon DEF Shifted
<1>8. /\ D \subseteq DOMAIN f /\ D \subseteq DOMAIN h
      /\ E \subseteq DOMAIN g /\ G \subseteq DOMAIN h
  BY <1>1, <1>5
<1>9. \A i \in D, j \in G : i < j
  BY <1>1, <1>5
<1>10. D \cup G = DrawsOf(h)
  <2>1. DrawsOf(h) = {j \in 1 .. n + p : IsDraw(h[j])}
    BY <1>1, Zenon DEF DrawsOf
  <2>2. \A j : j \in 1 .. n + p <=> j \in 1 .. n \/ j \in n + 1 .. n + p
    BY <1>1
  <2>3. \A j : j \in D <=> j \in 1 .. n /\ IsDraw(h[j])
    BY <1>1, <1>4, Zenon
  <2> QED BY <2>1, <2>2, <2>3, Zenon
<1> HIDE DEF D, E, G
<1>11. Draw(cs, f, D) = Draw(cs, h, D)
  BY <1>1, <1>6, <1>8, DrawAlike
<1>12. Draw(y, g, E) = Draw(y, h, G)
  BY <1>1, <1>2, <1>7, <1>8, DrawAlike
<1>13. Draw(Draw(cs, h, D), h, G) = Draw(cs, h, D \cup G)
  <2>1. h \in Seq(Message) /\ D \subseteq DOMAIN h /\ G \subseteq DOMAIN h
    BY <1>1, <1>8, Zenon
  <2> QED BY <1>9, <2>1, DrawTwice
<1>14. Shown(y, g) = Shown(cs, h)
  BY <1>3, <1>10, <1>11, <1>12, <1>13, Zenon
<1> QED BY <1>14, Zenon DEF y, h

(* One command on top.                                                     *)
LEMMA ShownOne ==
  ASSUME NEW cs \in Canvas, NEW m \in Message
  PROVE  Shown(cs, <<m>>) = IF IsDraw(m) THEN DrawOne(cs, m) ELSE cs
<1>1. <<m>> \in Seq(Message) /\ DOMAIN <<m>> = {1} /\ <<m>>[1] = m
  OBVIOUS
<1>2. CASE IsDraw(m)
  <2>1. DrawsOf(<<m>>) = {1}
    BY <1>1, <1>2, Zenon DEF DrawsOf
  <2> QED BY <1>2, <2>1, Zenon DEF Shown, DrawOne
<1>3. CASE ~IsDraw(m)
  <2>1. DrawsOf(<<m>>) = {}
    BY <1>1, <1>3, Zenon DEF DrawsOf
  <2> QED BY <1>1, <1>3, <2>1, DrawNothing, Zenon DEF Shown
<1> QED BY <1>2, <1>3, Zenon

(* The first command goes to the canvas below.                             *)
LEMMA ShownTail ==
  ASSUME NEW cs \in Canvas, NEW f \in Seq(Message), f # << >>
  PROVE  /\ Head(f) \in Message /\ Tail(f) \in Seq(Message)
         /\ Shown(cs, f) = Shown(IF IsDraw(Head(f)) THEN DrawOne(cs, Head(f)) ELSE cs, Tail(f))
<1>1. Head(f) \in Message /\ Tail(f) \in Seq(Message) /\ <<Head(f)>> \in Seq(Message)
  OBVIOUS
<1>2. f = <<Head(f)>> \o Tail(f)
  OBVIOUS
<1>3. Shown(Shown(cs, <<Head(f)>>), Tail(f)) = Shown(cs, <<Head(f)>> \o Tail(f))
  BY <1>1, ShownMore
<1>4. Shown(cs, <<Head(f)>>) = IF IsDraw(Head(f)) THEN DrawOne(cs, Head(f)) ELSE cs
  BY <1>1, ShownOne
<1> QED BY <1>1, <1>2, <1>3, <1>4, Zenon

(* One command more on top.                                                *)
LEMMA ShownAnother ==
  ASSUME NEW cs \in Canvas, NEW f \in Seq(Message), NEW m \in Message
  PROVE  Shown(cs, Append(f, m)) =
           IF IsDraw(m) THEN DrawOne(Shown(cs, f), m) ELSE Shown(cs, f)
<1>1. Append(f, m) = f \o <<m>> /\ <<m>> \in Seq(Message)
  OBVIOUS
<1>2. Shown(Shown(cs, f), <<m>>) = Shown(cs, f \o <<m>>)
  BY <1>1, ShownMore
<1>3. Shown(cs, f) \in Canvas
  BY ShownType
<1> QED BY <1>1, <1>2, <1>3, ShownOne, Zenon

(* No drawing command of the fork has to be ordered with m.                *)
AllApart(f, m) == \A i \in DrawsOf(f) : Apart(f[i], m)

(* A drawing command that needs no order with those on top.                *)
LEMMA ShownEither ==
  ASSUME NEW cs \in Canvas, NEW f \in Seq(Message), NEW m \in Message, AllApart(f, m)
  PROVE  DrawOne(Shown(cs, f), m) = Shown(DrawOne(cs, m), f)
<1> DEFINE w == <<m>>
           D == DrawsOf(f)
           E == {1}
<1>1. w \in Seq(Message) /\ E \subseteq DOMAIN w /\ w[1] = m
  OBVIOUS
<1>2. D \subseteq DOMAIN f
  BY DEF DrawsOf
<1> HIDE DEF w
<1>3. \A i \in D, j \in E : Apart(f[i], w[j])
  BY <1>1, Zenon DEF AllApart
<1> HIDE DEF D, E
<1>4. Draw(Draw(cs, f, D), w, E) = Draw(Draw(cs, w, E), f, D)
  BY <1>1, <1>2, <1>3, DrawEither
<1> QED BY <1>4, Zenon DEF Shown, DrawOne, D, E, w

----------------------------------------------------------------------------
(***************************************************************************)
(* Counting undo points.                                                   *)
(***************************************************************************)

(* There is a number of them.                                              *)
LEMMA UndoPointsType ==
  ASSUME NEW es, NEW lo \in Int, NEW hi \in Int
  PROVE  /\ IsFiniteSet({i \in lo .. hi : is_undo_point_entry(es[i])})
         /\ UndoPoints(es, lo, hi) \in Nat
<1> DEFINE S == {i \in lo .. hi : is_undo_point_entry(es[i])}
<1>1. IsFiniteSet(lo .. hi)
  BY FS_Interval
<1>2. S \in SUBSET (lo .. hi)
  OBVIOUS
<1> HIDE DEF S
<1>3. IsFiniteSet(S)
  BY <1>1, <1>2, FS_Subset
<1>4. Cardinality(S) \in Nat
  BY <1>3, FS_CardinalityType
<1> QED BY <1>3, <1>4, Zenon DEF S, UndoPoints

(* In two parts.                                                           *)
LEMMA UndoPointsSplit ==
  ASSUME NEW es, NEW lo \in Int, NEW hi \in Int, NEW mid \in Int, lo <= mid + 1, mid <= hi
  PROVE  UndoPoints(es, lo, hi) = UndoPoints(es, lo, mid) + UndoPoints(es, mid + 1, hi)
<1> DEFINE A == {i \in lo .. mid : is_undo_point_entry(es[i])}
           B == {i \in mid + 1 .. hi : is_undo_point_entry(es[i])}
           C == {i \in lo .. hi : is_undo_point_entry(es[i])}
<1>1. IsFiniteSet(A) /\ IsFiniteSet(B) /\ Cardinality(A) \in Nat /\ Cardinality(B) \in Nat
  <2>1. mid + 1 \in Int
    OBVIOUS
  <2> QED BY <2>1, UndoPointsType, Zenon DEF UndoPoints
<1>2. A \cap B = {}
  OBVIOUS
<1>3. A \cup B = C
  <2>1. \A i : i \in lo .. hi <=> i \in lo .. mid \/ i \in mid + 1 .. hi
    OBVIOUS
  <2> QED BY <2>1, Zenon
<1> HIDE DEF A, B, C
<1>4. Cardinality(A \cup B) = Cardinality(A) + Cardinality(B) - Cardinality(A \cap B)
  BY <1>1, FS_Union
<1>5. Cardinality(A \cap B) = 0
  BY <1>2, FS_EmptySet
<1> DEFINE a == Cardinality(A)
           b == Cardinality(B)
<1>6. Cardinality(C) = a + b - 0 /\ a \in Nat /\ b \in Nat
  BY <1>1, <1>3, <1>4, <1>5, Zenon
<1> HIDE DEF a, b
<1>7. Cardinality(C) = a + b
  BY <1>6
<1> QED BY <1>7, Zenon DEF UndoPoints, A, B, C, a, b

(* One position.                                                           *)
LEMMA UndoPointsOne ==
  ASSUME NEW es, NEW i \in Int
  PROVE  UndoPoints(es, i, i) = IF is_undo_point_entry(es[i]) THEN 1 ELSE 0
<1> DEFINE S == {j \in i .. i : is_undo_point_entry(es[j])}
<1>1. i .. i = {i}
  OBVIOUS
<1>2. CASE is_undo_point_entry(es[i])
  <2>1. S = {i}
    BY <1>1, <1>2, Zenon
  <2> QED BY <1>2, <2>1, FS_Singleton, Zenon DEF UndoPoints
<1>3. CASE ~is_undo_point_entry(es[i])
  <2>1. S = {}
    BY <1>1, <1>3, Zenon
  <2> QED BY <1>3, <2>1, FS_EmptySet, Zenon DEF UndoPoints
<1> QED BY <1>2, <1>3, Zenon

(* None.                                                                   *)
LEMMA UndoPointsNone ==
  ASSUME NEW es, NEW lo \in Int, NEW hi \in Int, hi < lo
  PROVE  UndoPoints(es, lo, hi) = 0
<1>1. lo .. hi = {}
  OBVIOUS
<1>2. {i \in lo .. hi : is_undo_point_entry(es[i])} = {}
  BY <1>1, Zenon
<1> QED BY <1>2, FS_EmptySet, Zenon DEF UndoPoints

(* Those of fs are those of es, k further on.                              *)
SameUndoPoints(es, fs, k, lo, hi) ==
  \A i \in lo .. hi : is_undo_point_entry(es[i]) <=> is_undo_point_entry(fs[i + k])

(* The same undo points, further on in another sequence.                   *)
LEMMA UndoPointsAlike ==
  ASSUME NEW es, NEW fs, NEW lo \in Int, NEW hi \in Int, NEW k \in Int,
         SameUndoPoints(es, fs, k, lo, hi)
  PROVE  UndoPoints(es, lo, hi) = UndoPoints(fs, lo + k, hi + k)
<1> DEFINE A == {i \in lo .. hi : is_undo_point_entry(es[i])}
           B == {i \in lo + k .. hi + k : is_undo_point_entry(fs[i])}
           f == [i \in A |-> i + k]
<1>1. \A i \in A : i \in Int /\ i + k \in B
  <2> SUFFICES ASSUME NEW i \in A PROVE i \in Int /\ i + k \in B
    OBVIOUS
  <2>1. i \in lo .. hi /\ is_undo_point_entry(es[i])
    OBVIOUS
  <2>2. i + k \in lo + k .. hi + k /\ i \in Int
    BY <2>1
  <2>3. is_undo_point_entry(fs[i + k])
    BY <2>1, Zenon DEF SameUndoPoints
  <2> QED BY <2>2, <2>3, Zenon
<1>2. \A j \in B : j \in Int /\ j - k \in A /\ (j - k) + k = j
  <2> SUFFICES ASSUME NEW j \in B PROVE j \in Int /\ j - k \in A /\ (j - k) + k = j
    OBVIOUS
  <2>1. j \in lo + k .. hi + k /\ is_undo_point_entry(fs[j])
    OBVIOUS
  <2>2. j - k \in lo .. hi /\ j \in Int /\ (j - k) + k = j
    BY <2>1
  <2>3. is_undo_point_entry(es[j - k])
    BY <2>1, <2>2, Zenon DEF SameUndoPoints
  <2> QED BY <2>2, <2>3, Zenon
<1>3. IsFiniteSet(A)
  BY UndoPointsType, Zenon
<1> HIDE DEF A, B
<1>4. f \in Bijection(A, B)
  <2>1. f \in [A -> B]
    BY <1>1
  <2>2. \A i, j \in A : f[i] = f[j] => i = j
    <3> SUFFICES ASSUME NEW i \in A, NEW j \in A, f[i] = f[j] PROVE i = j
      BY Zenon
    <3>1. i + k = j + k
      BY Zenon
    <3>2. i \in Int /\ j \in Int
      BY <1>1, Zenon
    <3>3. \A x, y \in Int : x + k = y + k => x = y
      OBVIOUS
    <3> QED BY <3>1, <3>2, <3>3, Zenon
  <2>3. \A j \in B : \E i \in A : f[i] = j
    <3> SUFFICES ASSUME NEW j \in B PROVE \E i \in A : f[i] = j
      OBVIOUS
    <3>1. f[j - k] = j
      BY <1>2
    <3> QED BY <1>2, <3>1, Zenon
  <2> HIDE DEF f
  <2> QED BY <2>1, <2>2, <2>3, Zenon DEF Bijection, Injection, Surjection, IsInjective
<1>5. ExistsBijection(A, B)
  BY <1>4, Zenon DEF ExistsBijection
<1>6. Cardinality(A) = Cardinality(B)
  BY <1>3, <1>5, FS_Bijection
<1> QED BY <1>6, Zenon DEF UndoPoints, A, B

(* The latest of some positions.                                           *)
LEMMA LatestIs ==
  ASSUME NEW n \in Nat, NEW S, S \subseteq 1 .. n
  PROVE  /\ Latest(S) \in 0 .. n
         /\ S # {} => Latest(S) \in S
         /\ Latest(S) # 0 => Latest(S) \in S
         /\ \A i \in S : i <= Latest(S)
<1>1. CASE S = {}
  <2>1. Latest(S) = 0
    BY <1>1, Zenon DEF Latest
  <2> QED BY <1>1, <2>1
<1>2. CASE S # {}
  <2>1. Max(S) \in S /\ \A y \in S : y <= Max(S)
    BY <1>2, GreatestNumber
  <2>2. \E i \in S : \A j \in S : j <= i
    BY <2>1, Zenon
  <2>3. Latest(S) \in S /\ \A j \in S : j <= Latest(S)
    BY <2>2, Zenon DEF Latest
  <2>4. Latest(S) \in 1 .. n
    BY <2>3, Zenon
  <2>5. Latest(S) \in 0 .. n
    BY <2>4
  <2> QED BY <2>3, <2>5, Zenon
<1> QED BY <1>1, <1>2, Zenon

----------------------------------------------------------------------------
(***************************************************************************)
(* Save points that hold what the commands up to them draw.                *)
(***************************************************************************)

(* z is the canvas before the first entry.                                 *)
CoherentAt(es, z, i) == es[i].state # NoState => es[i].state = ReplayedTo(es, 0, z, i)

(* Every save point holds what the entries up to it draw.                  *)
Coherent(es, z) == \A i \in DOMAIN es : CoherentAt(es, z, i)

(* The undo point that a new history starts with: no user undoes it.       *)
Initial(e) == is_undo_point_entry(e) /\ e.msg.user = Nobody

(* A replay can start from the first entry, which no undo reaches.         *)
Rooted(es, limit) ==
  /\ es[1].state # NoState
  /\ Initial(es[1]) \/ (Len(es) >= 2 /\ Depth(es, 2) >= limit - 1)

(* What the code needs of the place where a fork starts: the state there   *)
(* is not the only one, and truncation has not come so far.                *)
ForkKept(c) ==
  /\ fork_start_index(c) = 1 => is_undo_point_entry(c.entries[1])
  /\ \A i \in DOMAIN c.entries : i > fork_start_index(c) => c.entries[i].undo = "Done"
  /\ Depth(c.entries, fork_start_index(c) + 1) < c.limit

(* All that the history keeps right, z being the canvas before its first   *)
(* entry.                                                                  *)
Kept(c, z) ==
  /\ Sound(c) /\ z \in Canvas
  /\ Rooted(c.entries, c.limit)
  /\ Coherent(c.entries, z)
  /\ have_local_fork(c) => ForkKept(c)

(* What the history draws, and with the fork on top.                       *)
Whole(c, z) == ReplayedTo(c.entries, 0, z, Len(c.entries))

View(c, z) == Shown(Whole(c, z), c.fork)

(* The canvas that is shown is that one.                                   *)
Right(c, z) == c.current = View(c, z)

(* These are canvases.                                                     *)
LEMMA WholeType ==
  ASSUME NEW c, Sound(c), NEW z \in Canvas
  PROVE  Whole(c, z) \in Canvas /\ View(c, z) \in Canvas
<1>1. c.entries \in Seq(SoundEntry) /\ c.fork \in Seq(Message)
  BY Entries DEF Sound, SoundHistory
<1>2. 0 \in 0 .. Len(c.entries) /\ Len(c.entries) \in 0 .. Len(c.entries)
  BY <1>1, LenProperties
<1>3. Whole(c, z) \in Canvas
  BY <1>1, <1>2, ReplayIs, Zenon DEF Whole
<1> QED BY <1>1, <1>3, ShownType DEF View

(* The same drawing commands in both, states kept or dropped.              *)
LEMMA CoherentSame ==
  ASSUME NEW es \in Seq(SoundEntry), NEW fs \in Seq(SoundEntry), Len(es) = Len(fs),
         NEW z \in Canvas, \A j \in 1 .. Len(es) : SameDraw(es[j], fs[j])
  PROVE  /\ \A i \in 0 .. Len(es) : ReplayedTo(fs, 0, z, i) = ReplayedTo(es, 0, z, i)
         /\ Coherent(es, z) /\ (\A j \in 1 .. Len(es) : fs[j].state \in {es[j].state, NoState})
              => Coherent(fs, z)
<1> DEFINE n == Len(es)
<1>1. n \in Nat /\ DOMAIN es = 1 .. n /\ DOMAIN fs = 1 .. n /\ 0 \in 0 .. Len(es)
  BY LenProperties
<1>2. ASSUME NEW i \in 0 .. n PROVE ReplayedTo(fs, 0, z, i) = ReplayedTo(es, 0, z, i)
  <2>1. i <= Len(fs) /\ 0 <= i
    BY <1>1
  <2>2. \A j \in 0 + 1 .. i : SameDraw(es[j], fs[j])
    <3> SUFFICES ASSUME NEW j \in 0 + 1 .. i PROVE SameDraw(es[j], fs[j])
      OBVIOUS
    <3>1. j \in 1 .. n
      BY <1>1
    <3> QED BY <3>1, Zenon
  <2>3. i \in 0 .. Len(es)
    OBVIOUS
  <2> HIDE DEF n
  <2> QED BY <1>1, <2>1, <2>2, <2>3, ReplaySame
<1>3. ASSUME Coherent(es, z), \A j \in 1 .. n : fs[j].state \in {es[j].state, NoState}
      PROVE  Coherent(fs, z)
  <2> SUFFICES ASSUME NEW i \in 1 .. n PROVE CoherentAt(fs, z, i)
    BY <1>1, Zenon DEF Coherent
  <2>1. i \in 0 .. n
    BY <1>1
  <2>2. CoherentAt(es, z, i)
    BY <1>1, <1>3, Zenon DEF Coherent
  <2> QED BY <1>2, <1>3, <2>1, <2>2, Zenon DEF CoherentAt
<1> QED BY <1>2, <1>3, Zenon

(* One entry more.                                                         *)
LEMMA CoherentAppend ==
  ASSUME NEW es \in Seq(SoundEntry), NEW e \in SoundEntry, e.state = NoState, NEW z \in Canvas
  PROVE  LET fs == Append(es, e)
             y == ReplayedTo(es, 0, z, Len(es))
         IN /\ Coherent(es, z) => Coherent(fs, z)
            /\ ReplayedTo(fs, 0, z, Len(fs)) = IF DoneDraw(e) THEN DrawOne(y, e.msg) ELSE y
<1> DEFINE n == Len(es)
           fs == Append(es, e)
           y == ReplayedTo(es, 0, z, n)
<1>1. /\ n \in Nat /\ DOMAIN es = 1 .. n /\ fs \in Seq(SoundEntry) /\ Len(fs) = n + 1
      /\ DOMAIN fs = 1 .. n + 1 /\ fs[n + 1] = e /\ \A j \in 1 .. n : fs[j] = es[j]
  OBVIOUS
<1> HIDE DEF fs
<1>2. ASSUME NEW i \in 0 .. n PROVE ReplayedTo(fs, 0, z, i) = ReplayedTo(es, 0, z, i)
  <2>1. i <= Len(fs) /\ 0 <= i /\ i \in 0 .. Len(es) /\ 0 \in 0 .. Len(es)
    BY <1>1
  <2>2. \A j \in 0 + 1 .. i : SameDraw(es[j], fs[j])
    <3> SUFFICES ASSUME NEW j \in 0 + 1 .. i PROVE SameDraw(es[j], fs[j])
      OBVIOUS
    <3>1. j \in 1 .. n
      BY <1>1
    <3> QED BY <1>1, <3>1, Zenon DEF SameDraw
  <2> HIDE DEF n
  <2> QED BY <1>1, <2>1, <2>2, ReplaySame
<1>3. ASSUME Coherent(es, z) PROVE Coherent(fs, z)
  <2> SUFFICES ASSUME NEW i \in 1 .. n + 1 PROVE CoherentAt(fs, z, i)
    BY <1>1, Zenon DEF Coherent
  <2>1. CASE i = n + 1
    BY <1>1, <2>1 DEF CoherentAt
  <2>2. CASE i # n + 1
    <3>1. i \in 1 .. n /\ i \in 0 .. n
      BY <1>1, <2>2
    <3>2. CoherentAt(es, z, i)
      BY <1>1, <1>3, <3>1, Zenon DEF Coherent
    <3> QED BY <1>1, <1>2, <3>1, <3>2, Zenon DEF CoherentAt
  <2> QED BY <2>1, <2>2, Zenon
<1>4. ReplayedTo(fs, 0, z, Len(fs)) = IF DoneDraw(e) THEN DrawOne(y, e.msg) ELSE y
  <2> DEFINE k == n + 1
  <2>1. k \in 1 .. Len(fs) /\ 0 \in 0 .. Len(fs) /\ 0 < k /\ k - 1 = n /\ n \in 0 .. n
    BY <1>1
  <2> HIDE DEF k
  <2>2. ReplayedTo(fs, 0, z, k) =
           IF DoneDraw(fs[k]) THEN DrawOne(ReplayedTo(fs, 0, z, k - 1), fs[k].msg)
                              ELSE ReplayedTo(fs, 0, z, k - 1)
    BY <1>1, <2>1, ReplayStep
  <2>3. ReplayedTo(fs, 0, z, n) = y
    BY <1>2, <2>1, Zenon
  <2> QED BY <1>1, <2>1, <2>2, <2>3, Zenon DEF k
<1> QED BY <1>3, <1>4, Zenon DEF fs

(* The end of a sequence replays as it does in the whole.                  *)
LEMMA ReplayOfEnd ==
  ASSUME NEW es \in Seq(SoundEntry), NEW fs \in Seq(SoundEntry), NEW a \in Nat,
         Len(fs) + a = Len(es), \A i \in 1 .. Len(fs) : fs[i] = es[i + a],
         NEW y \in Canvas, NEW i \in 0 .. Len(fs)
  PROVE  ReplayedTo(fs, 0, y, i) = ReplayedTo(es, a, y, i + a)
<1> DEFINE s == 0
<1>1. Len(fs) \in Nat /\ Len(es) \in Nat
  BY LenProperties
<1>2. /\ s + a \in 0 .. Len(es) /\ i + a \in 0 .. Len(es) /\ s \in 0 .. Len(fs)
      /\ s + a = a /\ a \in Int
  BY <1>1
<1>3. SameDraws(fs, es, a, s, i)
  <2> SUFFICES ASSUME NEW j \in s + 1 .. i PROVE SameDraw(fs[j], es[j + a])
    BY Zenon DEF SameDraws
  <2>1. j \in 1 .. Len(fs)
    BY <1>1
  <2> QED BY <2>1, Zenon DEF SameDraw
<1> HIDE DEF s
<1>4. ReplayedTo(fs, s, y, i) = ReplayedTo(es, s + a, y, i + a)
  BY <1>2, <1>3, ReplayAlike
<1> QED BY <1>2, <1>4, Zenon DEF s

(* A replay of the end of a sequence, on what is before it.                *)
LEMMA ReplayRest ==
  ASSUME NEW es \in Seq(SoundEntry), NEW fs \in Seq(SoundEntry), NEW a \in Nat,
         Len(fs) + a = Len(es), \A i \in 1 .. Len(fs) : fs[i] = es[i + a],
         NEW z \in Canvas, NEW i \in 0 .. Len(fs)
  PROVE  ReplayedTo(fs, 0, ReplayedTo(es, 0, z, a), i) = ReplayedTo(es, 0, z, i + a)
<1> DEFINE y == ReplayedTo(es, 0, z, a)
           k == i + a
<1>1. Len(fs) \in Nat /\ Len(es) \in Nat
  BY LenProperties
<1>2. /\ 0 \in 0 .. Len(es) /\ a \in 0 .. Len(es) /\ k \in 0 .. Len(es)
      /\ 0 <= a /\ a <= k
  BY <1>1
<1>3. y \in Canvas
  BY <1>2, ReplayIs, Zenon
<1> HIDE DEF k
<1>4. ReplayedTo(es, a, y, k) = ReplayedTo(es, 0, z, k)
  BY <1>2, ReplayOn
<1> HIDE DEF y
<1>5. ReplayedTo(fs, 0, y, i) = ReplayedTo(es, a, y, i + a)
  BY <1>3, ReplayOfEnd
<1> QED BY <1>4, <1>5, Zenon DEF y, k

(* What is left when the first entries go.                                 *)
LEMMA CoherentCut ==
  ASSUME NEW es \in Seq(SoundEntry), NEW first \in 1 .. Len(es), NEW z \in Canvas
  PROVE  LET fs == SubSeq(es, first, Len(es))
             y == ReplayedTo(es, 0, z, first - 1)
         IN /\ y \in Canvas /\ fs \in Seq(SoundEntry) /\ Len(fs) = Len(es) - first + 1
            /\ \A i \in 1 .. Len(fs) : fs[i] = es[i + (first - 1)]
            /\ ReplayedTo(fs, 0, y, Len(fs)) = ReplayedTo(es, 0, z, Len(es))
            /\ Coherent(es, z) => Coherent(fs, y)
<1> DEFINE n == Len(es)
           a == first - 1
           fs == SubSeq(es, first, Len(es))
           p == Len(fs)
           y == ReplayedTo(es, 0, z, a)
<1>1. /\ n \in Nat /\ DOMAIN es = 1 .. n /\ fs \in Seq(SoundEntry) /\ p = n - first + 1
      /\ DOMAIN fs = 1 .. p /\ \A i \in 1 .. p : fs[i] = es[i + a]
      /\ a \in 0 .. n /\ p \in Nat /\ p + a = n /\ a \in Nat
  <2>1. n \in Nat /\ DOMAIN es = 1 .. n /\ first \in Nat /\ 1 <= first /\ first <= n + 1 /\ n <= n
    BY LenProperties
  <2>2. /\ fs \in Seq(SoundEntry) /\ p = n - first + 1
        /\ \A i \in 1 .. (n - first + 1) : fs[i] = es[first + i - 1]
    BY <2>1, Slice
  <2>3. p \in Nat /\ p + a = n /\ a \in 0 .. n /\ a \in Nat
    BY <2>1, <2>2
  <2>4. \A i \in 1 .. p : fs[i] = es[i + a]
    <3> SUFFICES ASSUME NEW i \in 1 .. p PROVE fs[i] = es[i + a]
      OBVIOUS
    <3>1. first + i - 1 = i + a
      BY <2>1, <2>3
    <3> QED BY <2>2, <3>1
  <2>5. DOMAIN fs = 1 .. p
    BY <2>2, LenProperties
  <2> QED BY <2>1, <2>2, <2>3, <2>4, <2>5, Zenon
<1>2. y \in Canvas
  <2>1. 0 \in 0 .. Len(es)
    BY <1>1
  <2> QED BY <1>1, <2>1, ReplayIs, Zenon
<1> HIDE DEF a, n, fs
<1>3. \A i \in 0 .. Len(fs) :
        ReplayedTo(fs, 0, ReplayedTo(es, 0, z, a), i) = ReplayedTo(es, 0, z, i + a)
  <2>1. Len(fs) + a = Len(es)
    BY <1>1 DEF n
  <2> QED BY <1>1, <2>1, ReplayRest
<1> HIDE DEF y, p
<1>4. ReplayedTo(fs, 0, y, Len(fs)) = ReplayedTo(es, 0, z, Len(es))
  <2>1. p \in 0 .. p
    BY <1>1
  <2> QED BY <1>1, <1>3, <2>1, Zenon DEF p, n, y
<1>5. ASSUME Coherent(es, z) PROVE Coherent(fs, y)
  <2> SUFFICES ASSUME NEW i \in 1 .. p PROVE CoherentAt(fs, y, i)
    BY <1>1, Zenon DEF Coherent
  <2>1. i \in 0 .. p /\ i + a \in 1 .. n
    BY <1>1
  <2>2. CoherentAt(es, z, i + a)
    BY <1>1, <1>5, <2>1, Zenon DEF Coherent
  <2> QED BY <1>1, <1>3, <2>1, <2>2, Zenon DEF CoherentAt, y, p
<1> QED BY <1>1, <1>2, <1>4, <1>5, Zenon DEF a, p, y, n, fs

----------------------------------------------------------------------------
(***************************************************************************)
(* How deep an undo reaches.                                               *)
(***************************************************************************)

(* A depth is a number.                                                    *)
LEMMA DepthType ==
  ASSUME NEW es \in Seq(SoundEntry), NEW i \in Int
  PROVE  Depth(es, i) \in Nat
<1>1. Len(es) \in Int
  BY LenProperties
<1> QED BY <1>1, UndoPointsType DEF Depth

(* Further back is deeper.                                                 *)
LEMMA DepthGrows ==
  ASSUME NEW es \in Seq(SoundEntry), NEW i \in Int, NEW j \in Int, i <= j, j <= Len(es) + 1
  PROVE  Depth(es, j) <= Depth(es, i)
<1> DEFINE n == Len(es)
           a == UndoPoints(es, i, j - 1)
           b == UndoPoints(es, j, n)
<1>1. n \in Int /\ j - 1 \in Int /\ (j - 1) + 1 = j /\ i <= (j - 1) + 1 /\ j - 1 <= n
  BY LenProperties
<1>2. UndoPoints(es, i, n) = UndoPoints(es, i, j - 1) + UndoPoints(es, (j - 1) + 1, n)
  BY <1>1, UndoPointsSplit
<1>3. a \in Nat /\ b \in Nat
  BY <1>1, UndoPointsType
<1>4. Depth(es, i) = a + b /\ Depth(es, j) = b
  BY <1>1, <1>2 DEF Depth
<1> HIDE DEF a, b
<1> QED BY <1>3, <1>4

(* One position further back.                                              *)
LEMMA DepthNext ==
  ASSUME NEW es \in Seq(SoundEntry), NEW i \in 1 .. Len(es)
  PROVE  Depth(es, i) = Depth(es, i + 1) + (IF is_undo_point_entry(es[i]) THEN 1 ELSE 0)
<1>1. Len(es) \in Int /\ i \in Int /\ i + 1 \in Int /\ i <= i + 1 /\ i <= Len(es)
  BY LenProperties
<1> DEFINE a == UndoPoints(es, i, i)
           b == UndoPoints(es, i + 1, Len(es))
<1>2. UndoPoints(es, i, Len(es)) = a + b
  BY <1>1, UndoPointsSplit
<1>3. a = IF is_undo_point_entry(es[i]) THEN 1 ELSE 0
  BY <1>1, UndoPointsOne
<1>4. b \in Nat
  BY <1>1, UndoPointsType
<1>5. Depth(es, i) = a + b /\ Depth(es, i + 1) = b
  BY <1>2 DEF Depth
<1> HIDE DEF a, b
<1> QED BY <1>3, <1>4, <1>5

(* The same commands, the same depths.                                     *)
LEMMA DepthSame ==
  ASSUME NEW es \in Seq(SoundEntry), NEW fs \in Seq(SoundEntry), Len(es) = Len(fs),
         \A j \in 1 .. Len(es) : fs[j].msg = es[j].msg, NEW i \in Int, i >= 1
  PROVE  Depth(fs, i) = Depth(es, i)
<1>1. Len(es) \in Int /\ 0 \in Int /\ i + 0 = i /\ Len(es) + 0 = Len(es)
  BY LenProperties
<1>2. SameUndoPoints(es, fs, 0, i, Len(es))
  <2> SUFFICES ASSUME NEW j \in i .. Len(es)
               PROVE  is_undo_point_entry(es[j]) <=> is_undo_point_entry(fs[j + 0])
    BY Zenon DEF SameUndoPoints
  <2>1. j \in 1 .. Len(es) /\ j + 0 = j
    BY <1>1
  <2> QED BY <2>1 DEF is_undo_point_entry
<1>3. UndoPoints(es, i, Len(es)) = UndoPoints(fs, i + 0, Len(es) + 0)
  BY <1>1, <1>2, UndoPointsAlike
<1> QED BY <1>1, <1>3 DEF Depth

(* One entry more.                                                         *)
LEMMA DepthAppend ==
  ASSUME NEW es \in Seq(SoundEntry), NEW e \in SoundEntry, NEW i \in 1 .. Len(es) + 1
  PROVE  Depth(Append(es, e), i) = Depth(es, i) + (IF is_undo_point_entry(e) THEN 1 ELSE 0)
<1> DEFINE n == Len(es)
           fs == Append(es, e)
<1>1. /\ n \in Int /\ i \in Int /\ fs \in Seq(SoundEntry) /\ Len(fs) = n + 1 /\ fs[n + 1] = e
      /\ i <= n + 1 /\ n <= n + 1 /\ n + 1 \in Int /\ i >= 1 /\ 0 \in Int
      /\ \A j \in 1 .. n : fs[j] = es[j]
  OBVIOUS
<1> HIDE DEF n, fs
<1> DEFINE a == UndoPoints(fs, i, n)
           b == UndoPoints(fs, n + 1, n + 1)
           d == UndoPoints(es, i, n)
<1>2. UndoPoints(fs, i, n + 1) = a + b
  BY <1>1, UndoPointsSplit
<1>3. b = IF is_undo_point_entry(e) THEN 1 ELSE 0
  BY <1>1, UndoPointsOne
<1>4. d = a
  <2>1. SameUndoPoints(es, fs, 0, i, n)
    <3> SUFFICES ASSUME NEW j \in i .. n
                 PROVE  is_undo_point_entry(es[j]) <=> is_undo_point_entry(fs[j + 0])
      BY Zenon DEF SameUndoPoints
    <3>1. j \in 1 .. n /\ j + 0 = j
      BY <1>1
    <3>2. fs[j + 0] = es[j]
      BY <1>1, <3>1
    <3> QED BY <3>2, Zenon
  <2>2. UndoPoints(es, i, n) = UndoPoints(fs, i + 0, n + 0)
    BY <1>1, <2>1, UndoPointsAlike
  <2>3. i + 0 = i /\ n + 0 = n
    BY <1>1
  <2> QED BY <2>2, <2>3
<1>5. d \in Nat
  BY <1>1, UndoPointsType
<1>6. Depth(fs, i) = a + b /\ Depth(es, i) = d
  BY <1>1, <1>2, Zenon DEF Depth, n
<1> HIDE DEF a, b, d
<1>7. Depth(fs, i) = Depth(es, i) + (IF is_undo_point_entry(e) THEN 1 ELSE 0)
  BY <1>3, <1>4, <1>5, <1>6
<1> QED BY <1>7, Zenon DEF fs

(* The end of a sequence.                                                  *)
LEMMA DepthOfEnd ==
  ASSUME NEW es \in Seq(SoundEntry), NEW fs \in Seq(SoundEntry), NEW a \in Nat,
         Len(fs) + a = Len(es), \A i \in 1 .. Len(fs) : fs[i] = es[i + a],
         NEW i \in Int, i >= 1
  PROVE  Depth(fs, i) = Depth(es, i + a)
<1>1. Len(fs) \in Int
  BY LenProperties
<1>2. SameUndoPoints(fs, es, a, i, Len(fs))
  <2> SUFFICES ASSUME NEW j \in i .. Len(fs)
               PROVE  is_undo_point_entry(fs[j]) <=> is_undo_point_entry(es[j + a])
    BY Zenon DEF SameUndoPoints
  <2>1. j \in 1 .. Len(fs)
    BY <1>1
  <2> QED BY <2>1, Zenon
<1>3. UndoPoints(fs, i, Len(fs)) = UndoPoints(es, i + a, Len(fs) + a)
  BY <1>1, <1>2, UndoPointsAlike
<1> QED BY <1>3 DEF Depth

(* Rootedness is a matter of the commands and the first state.             *)
LEMMA RootedSame ==
  ASSUME NEW es \in Seq(SoundEntry), NEW fs \in Seq(SoundEntry), Len(es) = Len(fs),
         es # << >>, \A j \in 1 .. Len(es) : fs[j].msg = es[j].msg,
         NEW limit, Rooted(es, limit), fs[1].state # NoState
  PROVE  Rooted(fs, limit)
<1>1. Depth(fs, 2) = Depth(es, 2)
  BY DepthSame
<1>2. 1 \in 1 .. Len(es)
  BY LenProperties
<1>3. Initial(fs[1]) <=> Initial(es[1])
  BY <1>2 DEF Initial, is_undo_point_entry
<1> QED BY <1>1, <1>3 DEF Rooted

(* What histories have.                                                    *)
LEMMA HistoryHas ==
  ASSUME NEW c, Sound(c)
  PROVE  /\ c \in SoundHistory
         /\ c.entries \in Seq(SoundEntry) /\ c.entries # << >> /\ c.fork \in Seq(Message)
         /\ Len(c.entries) \in Nat /\ Len(c.entries) >= 1 /\ DOMAIN c.entries = 1 .. Len(c.entries)
         /\ 1 \in 1 .. Len(c.entries)
         /\ c.offset \in Nat /\ c.forkStart \in Nat /\ c.limit \in UndoDepthMin .. UndoDepthMax
         /\ c.limit \in Nat /\ c.limit >= 1 /\ c.current \in Canvas
         /\ fork_start_index(c) \in Int
         /\ ForkPoint(c) <=> fork_start_index(c) \in 1 .. Len(c.entries)
         /\ have_local_fork(c) => ForkPoint(c)
<1>1. /\ c \in SoundHistory /\ c.entries \in Seq(SoundEntry) /\ c.entries # << >>
      /\ Len(c.entries) \in Nat \ {0} /\ DOMAIN c.entries = 1 .. Len(c.entries)
      /\ have_local_fork(c) => ForkPoint(c)
  BY Entries DEF Sound, StartsWithin
<1>2. /\ c.fork \in Seq(Message) /\ c.offset \in Nat /\ c.forkStart \in Nat
      /\ c.limit \in UndoDepthMin .. UndoDepthMax /\ c.current \in Canvas
  BY <1>1 DEF SoundHistory
<1>3. c.limit \in Nat /\ c.limit >= 1
  BY <1>2, HistoryAssumption DEF HistoryAssumption
<1>4. /\ fork_start_index(c) \in Int
      /\ ForkPoint(c) <=> fork_start_index(c) \in 1 .. Len(c.entries)
  BY <1>1, <1>2 DEF ForkPoint, fork_start_index
<1>5. Len(c.entries) >= 1 /\ 1 \in 1 .. Len(c.entries)
  BY <1>1
<1> QED BY <1>1, <1>2, <1>3, <1>4, <1>5, Zenon

(* Histories that differ in states, and in what is undone without drawing. *)
SamePlace(c, d) == d.offset = c.offset /\ d.forkStart = c.forkStart /\ d.limit = c.limit

(* The same commands, and the same ones are drawn.                         *)
SameCommands(es, fs) ==
  /\ Len(fs) = Len(es)
  /\ \A j \in 1 .. Len(es) : fs[j].msg = es[j].msg /\ SameDraw(es[j], fs[j])
                             /\ (es[j].undo = "Done" => fs[j].undo = "Done")

(* A history with the same commands, and save points that are right, is as *)
(* right as the other one.                                                 *)
LEMMA KeptAlike ==
  ASSUME NEW c, NEW z, Kept(c, z), NEW d, Sound(d), SamePlace(c, d),
         SameCommands(c.entries, d.entries), d.entries[1].state # NoState,
         Coherent(d.entries, z), have_local_fork(d) => have_local_fork(c)
  PROVE  Kept(d, z) /\ Whole(d, z) = Whole(c, z)
<1> DEFINE es == c.entries
           fs == d.entries
           n == Len(es)
<1>1. /\ es \in Seq(SoundEntry) /\ es # << >> /\ n \in Nat /\ DOMAIN es = 1 .. n /\ Sound(c)
      /\ z \in Canvas /\ Rooted(es, c.limit) /\ fork_start_index(c) \in Int
      /\ have_local_fork(c) => fork_start_index(c) \in 1 .. n /\ ForkKept(c)
  BY HistoryHas DEF Kept
<1>2. fs \in Seq(SoundEntry) /\ DOMAIN fs = 1 .. Len(fs) /\ Len(fs) = n
  BY HistoryHas DEF SameCommands
<1>3. \A j \in 1 .. n : fs[j].msg = es[j].msg /\ SameDraw(es[j], fs[j])
                        /\ (es[j].undo = "Done" => fs[j].undo = "Done")
  BY Zenon DEF SameCommands
<1>4. d.limit = c.limit /\ fork_start_index(d) = fork_start_index(c)
  BY Zenon DEF SamePlace, fork_start_index
<1> HIDE DEF es, fs, n
<1>5. Rooted(fs, d.limit)
  <2>1. Len(es) = Len(fs) /\ fs[1].state # NoState /\ \A j \in 1 .. Len(es) : fs[j].msg = es[j].msg
    BY <1>2, <1>3 DEF n, fs
  <2> QED BY <1>1, <1>2, <1>4, <2>1, RootedSame
<1>6. ASSUME have_local_fork(d) PROVE ForkKept(d)
  <2> DEFINE p == fork_start_index(c)
  <2>1. ForkKept(c) /\ p \in 1 .. n
    BY <1>1, <1>6, Zenon
  <2>2. p + 1 \in Int /\ p + 1 >= 1 /\ 1 \in 1 .. n
    BY <1>1, <2>1
  <2>3. Depth(fs, p + 1) = Depth(es, p + 1)
    <3>1. Len(es) = Len(fs) /\ \A j \in 1 .. Len(es) : fs[j].msg = es[j].msg
      BY <1>2, <1>3 DEF n
    <3> QED BY <1>1, <1>2, <2>2, <3>1, DepthSame
  <2>4. is_undo_point_entry(es[1]) => is_undo_point_entry(fs[1])
    BY <1>3, <2>2 DEF is_undo_point_entry
  <2> HIDE DEF p
  <2>5. /\ p = 1 => is_undo_point_entry(es[1])
        /\ \A i \in 1 .. n : i > p => es[i].undo = "Done"
        /\ Depth(es, p + 1) < c.limit
    BY <1>1, <2>1, Zenon DEF ForkKept, p, es
  <2>6. /\ p = 1 => is_undo_point_entry(fs[1])
        /\ \A i \in 1 .. n : i > p => fs[i].undo = "Done"
        /\ Depth(fs, p + 1) < d.limit
    BY <1>3, <1>4, <2>3, <2>4, <2>5
  <2> QED BY <1>2, <1>4, <2>6, Zenon DEF ForkKept, p, fs
<1>7. Whole(d, z) = Whole(c, z)
  <2>1. n \in 0 .. Len(es) /\ Len(es) = Len(fs)
    BY <1>1, <1>2 DEF n
  <2>2. \A i \in 0 .. Len(es) : ReplayedTo(fs, 0, z, i) = ReplayedTo(es, 0, z, i)
    <3>1. \A j \in 1 .. Len(es) : SameDraw(es[j], fs[j])
      BY <1>3, Zenon DEF n
    <3> QED BY <1>1, <1>2, <2>1, <3>1, CoherentSame
  <2> QED BY <1>2, <2>1, <2>2, Zenon DEF Whole, es, fs, n
<1> QED BY <1>1, <1>5, <1>6, <1>7, Zenon DEF Kept, es, fs

----------------------------------------------------------------------------
(***************************************************************************)
(* Appending and replaying.                                                *)
(***************************************************************************)

(* What an appended entry adds to what a history holds.                    *)
LEMMA AppendIs ==
  ASSUME NEW c, Sound(c), NEW m \in Message, NEW u \in {"Done", "Undone"}
  PROVE  LET d == append_to_history(c, m, u)
             e == [undo |-> u, msg |-> m, state |-> NoState]
         IN /\ Sound(d) /\ d.entries = Append(c.entries, e) /\ e \in SoundEntry
            /\ SamePlace(c, d) /\ d.fork = c.fork /\ d.current = c.current
            /\ d.forkAtUndoPoint = c.forkAtUndoPoint /\ d.fallbehind = c.fallbehind
            /\ d.markDone = c.markDone
<1>1. Sound(append_to_history(c, m, u))
  BY AppendToHistory
<1>2. [undo |-> u, msg |-> m, state |-> NoState] \in SoundEntry
  BY NewEntry
<1>3. c \in SoundHistory
  BY DEF Sound
<1> QED BY <1>1, <1>2, <1>3 DEF append_to_history, SoundHistory, SamePlace

(* A done command at the end: the history draws it on top, and stays kept. *)
LEMMA AppendKept ==
  ASSUME NEW c, NEW z, Kept(c, z), NEW m \in Message,
         have_local_fork(c) /\ m.type = "UndoPoint"
           => Depth(c.entries, fork_start_index(c) + 1) + 1 < c.limit
  PROVE  LET d == append_to_history(c, m, "Done")
         IN /\ Kept(d, z)
            /\ Whole(d, z) = IF IsDraw(m) THEN DrawOne(Whole(c, z), m) ELSE Whole(c, z)
<1> DEFINE d == append_to_history(c, m, "Done")
           e == [undo |-> "Done", msg |-> m, state |-> NoState]
           es == c.entries
           fs == d.entries
           n == Len(es)
<1>1. /\ Sound(c) /\ es \in Seq(SoundEntry) /\ es # << >> /\ n \in Nat /\ n >= 1 /\ z \in Canvas
      /\ DOMAIN es = 1 .. n /\ 1 \in 1 .. n
      /\ Rooted(es, c.limit) /\ Coherent(es, z) /\ fork_start_index(c) \in Int /\ c.limit \in Nat
      /\ have_local_fork(c) => fork_start_index(c) \in 1 .. n /\ ForkKept(c)
  BY HistoryHas DEF Kept
<1>2. /\ Sound(d) /\ fs = Append(es, e) /\ e \in SoundEntry /\ d.fork = c.fork /\ d.limit = c.limit
      /\ fork_start_index(d) = fork_start_index(c)
  <2>1. "Done" \in {"Done", "Undone"}
    OBVIOUS
  <2> QED BY <1>1, <2>1, AppendIs DEF SamePlace, fork_start_index
<1>3. e.state = NoState /\ e.undo = "Done" /\ e.msg = m
  OBVIOUS
<1> HIDE DEF d, e, es, fs, n
<1>4. /\ Coherent(fs, z)
      /\ ReplayedTo(fs, 0, z, Len(fs)) = IF DoneDraw(e) THEN DrawOne(ReplayedTo(es, 0, z, Len(es)), e.msg)
                                                        ELSE ReplayedTo(es, 0, z, Len(es))
  BY <1>1, <1>2, <1>3, CoherentAppend
<1>5. Whole(d, z) = IF IsDraw(m) THEN DrawOne(Whole(c, z), m) ELSE Whole(c, z)
  BY <1>3, <1>4 DEF Whole, DoneDraw, es, fs
<1>6. /\ Len(fs) = n + 1 /\ fs[n + 1] = e /\ DOMAIN fs = 1 .. n + 1
      /\ \A j \in 1 .. n : fs[j] = es[j]
  BY <1>1, <1>2 DEF n
<1>7. Rooted(fs, d.limit)
  <2>1. CASE Initial(es[1])
    BY <1>1, <1>6, <2>1 DEF Rooted
  <2>2. CASE n >= 2 /\ Depth(es, 2) >= c.limit - 1
    <3>1. 2 \in 1 .. Len(es) + 1
      BY <1>1, <2>2 DEF n
    <3>2. Depth(fs, 2) = Depth(es, 2) + (IF is_undo_point_entry(e) THEN 1 ELSE 0)
      BY <1>1, <1>2, <3>1, DepthAppend
    <3>3. Depth(es, 2) \in Nat
      <4>1. 2 \in Int
        OBVIOUS
      <4> QED BY <1>1, <4>1, DepthType, Zenon
    <3>4. Len(fs) >= 2 /\ Depth(fs, 2) >= c.limit - 1
      BY <1>1, <1>6, <2>2, <3>2, <3>3
    <3> QED BY <1>1, <1>2, <1>6, <3>4 DEF Rooted
  <2> QED BY <1>1, <2>1, <2>2 DEF Rooted, n
<1>8. ASSUME have_local_fork(d) PROVE ForkKept(d)
  <2> DEFINE p == fork_start_index(c)
  <2>1. have_local_fork(c)
    BY <1>2, <1>8 DEF have_local_fork
  <2>2. p \in 1 .. n /\ ForkKept(c)
    BY <1>1, <2>1, Zenon
  <2>3. p + 1 \in 1 .. Len(es) + 1 /\ p + 1 \in Int /\ p \in Int
    BY <1>1, <2>2 DEF n
  <2> HIDE DEF p
  <2>4. Depth(fs, p + 1) = Depth(es, p + 1) + (IF is_undo_point_entry(e) THEN 1 ELSE 0)
    BY <1>1, <1>2, <2>3, DepthAppend
  <2>5. Depth(es, p + 1) \in Nat
    BY <1>1, <2>3, DepthType
  <2>6. /\ p = 1 => is_undo_point_entry(es[1])
        /\ \A i \in 1 .. n : i > p => es[i].undo = "Done"
        /\ Depth(es, p + 1) < c.limit
    BY <1>1, <2>2, Zenon DEF ForkKept, p, es
  <2>7. is_undo_point_entry(e) => Depth(es, p + 1) + 1 < c.limit
    BY <1>3, <2>1 DEF is_undo_point_entry, p, es
  <2>8. Depth(fs, p + 1) < d.limit
    BY <1>1, <1>2, <2>4, <2>5, <2>6, <2>7
  <2>9. p = 1 => is_undo_point_entry(fs[1])
    BY <1>1, <1>6, <2>6
  <2>10. \A i \in 1 .. n + 1 : i > p => fs[i].undo = "Done"
    <3> SUFFICES ASSUME NEW i \in 1 .. n + 1, i > p PROVE fs[i].undo = "Done"
      OBVIOUS
    <3>1. CASE i = n + 1
      BY <1>3, <1>6, <3>1
    <3>2. CASE i # n + 1
      <4>1. i \in 1 .. n
        BY <1>1, <3>2
      <4> QED BY <1>6, <2>6, <4>1
    <3> QED BY <3>1, <3>2
  <2> QED BY <1>2, <1>6, <2>8, <2>9, <2>10, Zenon DEF ForkKept, p, fs
<1> QED BY <1>1, <1>2, <1>4, <1>5, <1>7, <1>8, Zenon DEF Kept, d, fs

(* The save point a replay starts from: the first entry has a state.       *)
LEMMA SearchFinds ==
  ASSUME NEW es \in Seq(SoundEntry), NEW target \in 1 .. Len(es), es[1].state # NoState
  PROVE  LET start == search_save_point_index(es, target)
         IN /\ start \in 1 .. target /\ es[start].state # NoState
            /\ \A i \in start + 1 .. target : es[i].state = NoState
<1> DEFINE S == {i \in 1 .. target : es[i].state # NoState}
           start == Latest(S)
<1>1. target \in Nat /\ S \subseteq 1 .. target /\ 1 \in S
  BY LenProperties
<1>2. \A i \in S : i \in 1 .. target /\ es[i].state # NoState
  OBVIOUS
<1>3. ASSUME NEW i \in 1 .. target, i \notin S PROVE es[i].state = NoState
  BY <1>3
<1>4. start = search_save_point_index(es, target)
  BY Zenon DEF search_save_point_index
<1> HIDE DEF S
<1>5. /\ start \in 0 .. target /\ (S # {} => start \in S) /\ \A i \in S : i <= start
  BY <1>1, LatestIs
<1>6. start \in S
  BY <1>1, <1>5
<1>7. ASSUME NEW i \in start + 1 .. target PROVE es[i].state = NoState
  <2>1. i \in 1 .. target /\ ~(i <= start)
    BY <1>1, <1>5
  <2> QED BY <1>3, <1>5, <2>1
<1>8. start \in 1 .. target /\ es[start].state # NoState
  BY <1>2, <1>6
<1> QED BY <1>4, <1>7, <1>8, Zenon

(* What a replay leaves.                                                   *)
Refreshed(es, start, j) == j > start /\ es[j].undo # "Gone" /\ is_undo_point_entry(es[j])

(* A replay changes the states of undo points after its start, the canvas  *)
(* and, when the fork is drawn again, where the fork starts.               *)
LEMMA ReplayFromIs ==
  ASSUME NEW c, Sound(c), NEW start \in DOMAIN c.entries,
         c.entries[start].state # NoState, NEW withFork \in BOOLEAN
  PROVE  LET es == c.entries
             cs == es[start].state
             d == replay_from(c, start, withFork)
             end == ReplayedTo(es, start, cs, Len(es))
         IN /\ Sound(d) /\ Len(d.entries) = Len(es) /\ cs \in Canvas /\ end \in Canvas
            /\ d.offset = c.offset /\ d.limit = c.limit /\ d.fork = c.fork
            /\ d.fallbehind = c.fallbehind /\ d.markDone = c.markDone
            /\ \A j \in 1 .. Len(es) :
                 /\ d.entries[j].undo = es[j].undo /\ d.entries[j].msg = es[j].msg
                 /\ d.entries[j].state = IF Refreshed(es, start, j)
                                         THEN ReplayedTo(es, start, cs, j) ELSE es[j].state
            /\ IF withFork /\ have_local_fork(c)
               THEN d.current = Shown(end, c.fork) /\ d.forkStart = c.offset + Len(es)
               ELSE d.current = end /\ d.forkStart = c.forkStart
<1> DEFINE es == c.entries
           cs == es[start].state
           at(i) == ReplayedTo(es, start, cs, i)
           new(i) == IF i > start /\ es[i].undo # "Gone" /\ is_undo_point_entry(es[i])
                     THEN [es[i] EXCEPT !.state = at(i)] ELSE es[i]
           es2 == [i \in DOMAIN es |-> new(i)]
           end == at(Len(es))
           c2 == [c EXCEPT !.entries = es2]
           d == replay_from(c, start, withFork)
<1>1. /\ es \in Seq(SoundEntry) /\ Len(es) \in Nat \ {0} /\ DOMAIN es = 1 .. Len(es)
      /\ \A i \in DOMAIN es : es[i] \in SoundEntry
  BY Entries
<1>2. cs \in Canvas
  BY <1>1 DEF SoundEntry, Entry
<1>3. end \in Canvas
  BY <1>1, <1>2, ReplayedToType
<1>4. Sound(d)
  BY ReplayFrom
<1>5. \A j \in 1 .. Len(es) :
        /\ es2[j].undo = es[j].undo /\ es2[j].msg = es[j].msg
        /\ es2[j].state = IF Refreshed(es, start, j) THEN at(j) ELSE es[j].state
  <2> SUFFICES ASSUME NEW j \in 1 .. Len(es)
               PROVE  /\ new(j).undo = es[j].undo /\ new(j).msg = es[j].msg
                      /\ new(j).state = IF Refreshed(es, start, j) THEN at(j) ELSE es[j].state
    BY <1>1
  <2>1. DOMAIN es[j] = {"undo", "msg", "state"}
    BY <1>1 DEF SoundEntry, Entry
  <2> HIDE DEF es, at
  <2> QED BY <2>1 DEF Refreshed
<1>6. DOMAIN es2 = 1 .. Len(es) /\ es2 \in [1 .. Len(es) -> SoundEntry]
  <2>1. DOMAIN es2 = 1 .. Len(es)
    BY <1>1
  <2>2. ASSUME NEW i \in DOMAIN es PROVE new(i) \in SoundEntry
    <3>1. CASE es[i].undo # "Gone" /\ is_undo_point_entry(es[i])
      <4>1. es[i].undo \in {"Done", "Undone"}
        BY <1>1, <3>1 DEF SoundEntry, Entry
      <4>2. is_valid_save_point_entry(es[i])
        BY <3>1, <4>1 DEF is_valid_save_point_entry
      <4>3. at(i) \in Canvas /\ es[i] \in SoundEntry
        BY <1>1, <1>2, ReplayedToType
      <4> HIDE DEF at, es
      <4>4. [es[i] EXCEPT !.state = at(i)] \in SoundEntry
        BY <4>2, <4>3, SaveState
      <4> QED BY <4>3, <4>4
    <3> QED BY <1>1, <3>1
  <2> QED BY <1>1, <2>1, <2>2
<1>7. d = IF withFork /\ have_local_fork(c) THEN replay_fork_dec(c2, end)
          ELSE [c2 EXCEPT !.current = end]
  BY Zenon DEF replay_from
<1>8. c \in SoundHistory /\ c.fork \in Seq(Message)
  BY DEF Sound, SoundHistory
<1> HIDE DEF es2, end, at, d, new
<1>9. Len(es2) = Len(es) /\ es2 \in Seq(SoundEntry)
  BY <1>1, <1>6, PointwiseSeq
<1>10. /\ c2 \in SoundHistory /\ c2.entries = es2 /\ c2.offset = c.offset /\ c2.limit = c.limit
       /\ c2.fork = c.fork /\ c2.forkStart = c.forkStart
       /\ c2.fallbehind = c.fallbehind /\ c2.markDone = c.markDone
  <2>1. c2 \in SoundHistory
    BY <1>8, <1>9, EntriesChanged
  <2> QED BY <1>8, <2>1 DEF SoundHistory
<1> HIDE DEF c2
<1> DEFINE c3 == set_fork_start(c2, Head(c2.fork).type = "UndoPoint")
<1>11. /\ c3.entries = es2 /\ c3.offset = c.offset /\ c3.limit = c.limit
       /\ c3.fork = c.fork /\ c3.forkStart = c.offset + Len(es)
       /\ c3.fallbehind = c.fallbehind /\ c3.markDone = c.markDone
       /\ DOMAIN c3 = DOMAIN c2 /\ "current" \in DOMAIN c2
  BY <1>9, <1>10 DEF set_fork_start, SoundHistory
<1> HIDE DEF c3
<1>12. CASE withFork /\ have_local_fork(c)
  <2>1. d = [c3 EXCEPT !.current = Shown(end, c.fork)]
    BY <1>7, <1>10, <1>12 DEF replay_fork_dec, c3, Shown, DrawsOf, ForkDraws
  <2>2. /\ d.entries = es2 /\ d.offset = c.offset /\ d.limit = c.limit
        /\ d.fork = c.fork /\ d.forkStart = c.offset + Len(es) /\ d.current = Shown(end, c.fork)
        /\ d.fallbehind = c.fallbehind /\ d.markDone = c.markDone
    BY <1>11, <2>1
  <2> QED BY <1>2, <1>3, <1>4, <1>5, <1>9, <1>12, <2>2, Zenon DEF d, end, at
<1>13. CASE ~(withFork /\ have_local_fork(c))
  <2>1. d = [c2 EXCEPT !.current = end]
    BY <1>7, <1>13
  <2>2. /\ d.entries = es2 /\ d.offset = c.offset /\ d.limit = c.limit
        /\ d.fork = c.fork /\ d.forkStart = c.forkStart /\ d.current = end
        /\ d.fallbehind = c.fallbehind /\ d.markDone = c.markDone
    BY <1>10, <1>11, <2>1
  <2> QED BY <1>2, <1>3, <1>4, <1>5, <1>9, <1>13, <2>2, Zenon DEF d, end, at
<1> QED BY <1>12, <1>13, Zenon

(* The states up to the target are right, and those after it are right or  *)
(* of undo points, which a replay refreshes.                               *)
Partly(es, z, target) ==
  \A i \in DOMAIN es :
    CoherentAt(es, z, i) \/ (i > target /\ is_undo_point_entry(es[i]))

(* The undo points since the fork started.                                 *)
Since(c) == IF have_local_fork(c) THEN Depth(c.entries, fork_start_index(c) + 1) ELSE 0

(* A replay to the target makes the history right.                         *)
LEMMA SearchReplay ==
  ASSUME NEW c, Sound(c), NEW z \in Canvas, c.entries[1].state # NoState,
         NEW target \in 1 .. Len(c.entries), Partly(c.entries, z, target),
         NEW withFork \in BOOLEAN
  PROVE  LET d == search_and_replay_from(c, target, withFork)
         IN /\ Sound(d) /\ Len(d.entries) = Len(c.entries)
            /\ d.offset = c.offset /\ d.limit = c.limit /\ d.fork = c.fork
            /\ d.fallbehind = c.fallbehind /\ d.markDone = c.markDone
            /\ Whole(d, z) = Whole(c, z)
            /\ withFork /\ Rooted(c.entries, c.limit) => Kept(d, z) /\ Right(d, z) /\ Since(d) = 0
            /\ ~withFork => d.current = Whole(c, z)
<1> DEFINE es == c.entries
           n == Len(es)
           start == search_save_point_index(es, target)
           cs == es[start].state
           d == search_and_replay_from(c, target, withFork)
           fs == d.entries
           end == ReplayedTo(es, start, cs, Len(es))
<1>1. /\ es \in Seq(SoundEntry) /\ es # << >> /\ n \in Nat /\ n >= 1 /\ DOMAIN es = 1 .. n
      /\ 1 \in 1 .. n /\ c.fork \in Seq(Message) /\ c.limit \in Nat /\ c.limit >= 1
      /\ c.offset \in Nat
  BY HistoryHas
<1>2. es[1].state # NoState
  OBVIOUS
<1>3. /\ start \in 1 .. target /\ es[start].state # NoState
      /\ \A i \in start + 1 .. target : es[i].state = NoState
  BY <1>1, <1>2, SearchFinds
<1>4. target \in 1 .. n /\ start \in 1 .. n /\ start # 0 /\ start <= target /\ start \in 0 .. n
      /\ 0 \in 0 .. n /\ start \in Int /\ target \in Int /\ start \in DOMAIN es
  BY <1>1, <1>3
<1>5. d = replay_from(c, start, withFork)
  BY <1>4, Zenon DEF search_and_replay_from
<1>6. /\ Sound(d) /\ Len(fs) = n /\ cs \in Canvas /\ end \in Canvas
      /\ d.offset = c.offset /\ d.limit = c.limit /\ d.fork = c.fork
      /\ d.fallbehind = c.fallbehind /\ d.markDone = c.markDone
      /\ \A j \in 1 .. n :
           /\ fs[j].undo = es[j].undo /\ fs[j].msg = es[j].msg
           /\ fs[j].state = IF Refreshed(es, start, j)
                            THEN ReplayedTo(es, start, cs, j) ELSE es[j].state
      /\ IF withFork /\ have_local_fork(c)
         THEN d.current = Shown(end, c.fork) /\ d.forkStart = c.offset + n
         ELSE d.current = end /\ d.forkStart = c.forkStart
  <2> HIDE DEF start
  <2>1. c.entries[start].state # NoState /\ start \in DOMAIN c.entries
    BY <1>3, <1>4, Zenon
  <2> QED BY <1>5, <2>1, ReplayFromIs
<1> HIDE DEF d, fs, n, es, start, end
<1>7. cs = ReplayedTo(es, 0, z, start)
  <2>1. CoherentAt(es, z, start)
    <3>1. ~(start > target)
      BY <1>4
    <3> QED BY <1>4, <3>1, Zenon DEF Partly, es
  <2> QED BY <1>3, <2>1, Zenon DEF CoherentAt
<1>8. ASSUME NEW i \in 1 .. n, start <= i
      PROVE  ReplayedTo(es, start, cs, i) = ReplayedTo(es, 0, z, i)
  <2>1. i \in 0 .. Len(es) /\ 0 \in 0 .. Len(es) /\ start \in 0 .. Len(es) /\ 0 <= start
    BY <1>1, <1>4, <1>8 DEF n
  <2>2. ReplayedTo(es, start, ReplayedTo(es, 0, z, start), i) = ReplayedTo(es, 0, z, i)
    BY <1>1, <1>8, <2>1, ReplayOn
  <2> QED BY <1>7, <2>2, Zenon
<1>9. end = Whole(c, z)
  <2>1. n \in 1 .. n /\ start <= n
    BY <1>1, <1>4
  <2> QED BY <1>8, <2>1, Zenon DEF end, Whole, es, n
<1>10. fs \in Seq(SoundEntry) /\ DOMAIN fs = 1 .. n
  BY <1>6, HistoryHas DEF fs
<1>11. \A j \in 1 .. n : SameDraw(es[j], fs[j])
  BY <1>6, Zenon DEF SameDraw, DoneDraw
<1>12. \A i \in 0 .. n : ReplayedTo(fs, 0, z, i) = ReplayedTo(es, 0, z, i)
  BY <1>1, <1>6, <1>10, <1>11, CoherentSame DEF n
<1>13. Whole(d, z) = Whole(c, z)
  <2>1. n \in 0 .. n
    BY <1>1
  <2> QED BY <1>6, <1>12, <2>1, Zenon DEF Whole, fs, es, n
<1>14. fs[1].state # NoState
  <2>1. ~Refreshed(es, start, 1)
    BY <1>4 DEF Refreshed
  <2> QED BY <1>1, <1>2, <1>6, <2>1
<1>15. ASSUME Rooted(es, c.limit) PROVE Rooted(fs, d.limit)
  <2>1. Len(es) = Len(fs) /\ \A j \in 1 .. Len(es) : fs[j].msg = es[j].msg
    BY <1>6 DEF n
  <2> QED BY <1>1, <1>6, <1>10, <1>14, <1>15, <2>1, RootedSame
<1>16. Coherent(fs, z)
  <2> SUFFICES ASSUME NEW j \in 1 .. n PROVE CoherentAt(fs, z, j)
    BY <1>10, Zenon DEF Coherent
  <2>1. j \in 0 .. n /\ j \in Int
    BY <1>1
  <2>2. ReplayedTo(fs, 0, z, j) = ReplayedTo(es, 0, z, j)
    BY <1>12, <2>1, Zenon
  <2>3. CASE Refreshed(es, start, j)
    <3>1. start <= j
      BY <1>4, <2>1, <2>3 DEF Refreshed
    <3> QED BY <1>6, <1>8, <2>2, <2>3, <3>1, Zenon DEF CoherentAt
  <2>4. CASE ~Refreshed(es, start, j)
    <3>1. fs[j].state = es[j].state
      BY <1>6, <2>4, Zenon
    <3>2. CASE CoherentAt(es, z, j)
      BY <2>2, <3>1, <3>2, Zenon DEF CoherentAt
    <3>3. CASE j > target /\ is_undo_point_entry(es[j])
      <4>1. j > start
        BY <1>4, <2>1, <3>3
      <4>2. es[j].undo = "Gone"
        BY <2>4, <3>3, <4>1, Zenon DEF Refreshed
      <4>3. es[j] \in SoundEntry
        BY <1>1, ElementOfSeq DEF n
      <4>4. es[j].state = NoState
        BY <4>2, <4>3 DEF SoundEntry, is_valid_save_point_entry
      <4> QED BY <3>1, <4>4, Zenon DEF CoherentAt
    <3> QED BY <1>1, <3>2, <3>3, Zenon DEF Partly, es
  <2> QED BY <2>3, <2>4, Zenon
<1>17. ASSUME withFork, Rooted(es, c.limit)
       PROVE  Kept(d, z) /\ Right(d, z) /\ Since(d) = 0
  <2>1. ASSUME have_local_fork(d)
        PROVE  ForkKept(d) /\ Depth(fs, fork_start_index(d) + 1) = 0
    <3>1. d.forkStart = c.offset + n
      BY <1>6, <1>17, <2>1 DEF have_local_fork
    <3>2. fork_start_index(d) = n
      BY <1>1, <1>6, <3>1 DEF fork_start_index
    <3>3. n = 1 => is_undo_point_entry(fs[1])
      <4>1. n = 1 => Initial(es[1])
        BY <1>17 DEF Rooted, n
      <4> QED BY <1>1, <1>6, <4>1 DEF Initial, is_undo_point_entry
    <3>4. Depth(fs, n + 1) = 0
      <4>1. n + 1 \in Int /\ n \in Int /\ n < n + 1
        BY <1>1
      <4>2. UndoPoints(fs, n + 1, n) = 0
        BY <4>1, UndoPointsNone
      <4> QED BY <1>6, <4>2, Zenon DEF Depth
    <3>5. Depth(fs, n + 1) < d.limit
      BY <1>1, <1>6, <3>4
    <3>6. \A i \in 1 .. n : i > n => fs[i].undo = "Done"
      BY <1>1
    <3> QED BY <1>10, <3>2, <3>3, <3>4, <3>5, <3>6, Zenon DEF ForkKept, fs
  <2>2. Kept(d, z)
    BY <1>6, <1>15, <1>16, <1>17, <2>1, Zenon DEF Kept, fs
  <2>3. d.current = Shown(Whole(c, z), c.fork)
    <3>1. CASE have_local_fork(c)
      BY <1>6, <1>9, <1>17, <3>1, Zenon
    <3>2. CASE ~have_local_fork(c)
      <4>1. c.fork = << >> /\ d.current = end
        BY <1>6, <3>2, Zenon DEF have_local_fork
      <4> QED BY <1>6, <1>9, <4>1, ShownNothing, Zenon
    <3> QED BY <3>1, <3>2
  <2>4. Right(d, z)
    BY <1>6, <1>13, <2>3, Zenon DEF Right, View
  <2>5. Since(d) = 0
    BY <2>1, Zenon DEF Since, fs
  <2> QED BY <2>2, <2>4, <2>5
<1>18. ~withFork => d.current = Whole(c, z)
  BY <1>6, <1>9, Zenon
<1> QED BY <1>6, <1>13, <1>17, <1>18, Zenon DEF d, n, es, fs

(* A rollback makes a kept history right, also one whose fork is given up. *)
LEMMA RollbackKept ==
  ASSUME NEW c, NEW z, Kept(c, z), ForkPoint(c)
  PROVE  /\ Kept(rollback(c), z) /\ Right(rollback(c), z)
         /\ rollback(c).offset = c.offset /\ rollback(c).fork = c.fork
         /\ rollback(c).limit = c.limit /\ Whole(rollback(c), z) = Whole(c, z)
         /\ Len(rollback(c).entries) = Len(c.entries) /\ Since(rollback(c)) = 0
<1> DEFINE p == fork_start_index(c)
<1>1. Sound(c) /\ z \in Canvas /\ Rooted(c.entries, c.limit) /\ Coherent(c.entries, z)
      /\ c.entries[1].state # NoState
  BY DEF Kept, Rooted
<1>2. p \in 1 .. Len(c.entries)
  BY <1>1, HistoryHas
<1>3. Partly(c.entries, z, p)
  BY <1>1, Zenon DEF Partly, Coherent
<1>4. TRUE \in BOOLEAN
  OBVIOUS
<1> HIDE DEF p
<1> DEFINE d == search_and_replay_from(c, p, TRUE)
<1>5. /\ d.offset = c.offset /\ d.fork = c.fork /\ d.limit = c.limit /\ Whole(d, z) = Whole(c, z)
      /\ Kept(d, z) /\ Right(d, z) /\ Len(d.entries) = Len(c.entries) /\ Since(d) = 0
  <2> DEFINE b == TRUE
  <2>1. b \in BOOLEAN /\ b
    OBVIOUS
  <2> HIDE DEF b, d
  <2>2. d = search_and_replay_from(c, p, b)
    BY Zenon DEF d, b
  <2> QED BY <1>1, <1>2, <1>3, <2>1, <2>2, SearchReplay
<1>6. rollback(c) = d
  BY Zenon DEF rollback, p, d
<1> QED BY <1>5, <1>6, Zenon

(* The fork is given up.                                                   *)
LEMMA ForkDropped ==
  ASSUME NEW c, NEW z, Kept(c, z)
  PROVE  LET d == [c EXCEPT !.fork = << >>]
         IN /\ Kept(d, z) /\ Whole(d, z) = Whole(c, z) /\ d.fork = << >>
            /\ d.entries = c.entries /\ SamePlace(c, d) /\ d.current = c.current
            /\ d.fallbehind = c.fallbehind /\ (ForkPoint(c) => ForkPoint(d))
<1> DEFINE d == [c EXCEPT !.fork = << >>]
<1>1. Sound(c)
  BY DEF Kept
<1>2. c \in SoundHistory
  BY <1>1 DEF Sound
<1>3. Sound(d)
  BY <1>1, ClearFork
<1>4. /\ d.fork = << >> /\ d.entries = c.entries /\ SamePlace(c, d) /\ d.current = c.current
      /\ d.fallbehind = c.fallbehind
  BY <1>2 DEF SoundHistory, SamePlace
<1> HIDE DEF d
<1>5. Kept(d, z)
  BY <1>3, <1>4, Zenon DEF Kept, SamePlace, have_local_fork
<1>6. Whole(d, z) = Whole(c, z) /\ (ForkPoint(c) => ForkPoint(d))
  BY <1>4, Zenon DEF Whole, ForkPoint, SamePlace
<1> QED BY <1>4, <1>5, <1>6, Zenon DEF d

----------------------------------------------------------------------------
(***************************************************************************)
(* Save points, and the fork as it shrinks.                                *)
(***************************************************************************)

(* The same commands with the same marks.                                  *)
LEMMA SameCommandsIs ==
  ASSUME NEW es, NEW fs, Len(fs) = Len(es),
         \A j \in 1 .. Len(es) : fs[j].msg = es[j].msg /\ fs[j].undo = es[j].undo
  PROVE  SameCommands(es, fs)
  BY Zenon DEF SameCommands, SameDraw, DoneDraw

(* The first command of the fork has come back.                            *)
LEMMA ForkShifted ==
  ASSUME NEW c, NEW z, Kept(c, z), have_local_fork(c)
  PROVE  LET d == [c EXCEPT !.fork = Tail(@)]
         IN /\ Kept(d, z) /\ Whole(d, z) = Whole(c, z) /\ d.fork = Tail(c.fork)
            /\ d.entries = c.entries /\ SamePlace(c, d) /\ d.current = c.current
            /\ d.forkAtUndoPoint = c.forkAtUndoPoint
<1> DEFINE d == [c EXCEPT !.fork = Tail(@)]
<1>1. Sound(c)
  BY DEF Kept
<1>2. c \in SoundHistory
  BY <1>1 DEF Sound
<1>3. Sound(d)
  BY <1>1, ForkTail
<1>4. /\ d.fork = Tail(c.fork) /\ d.entries = c.entries /\ SamePlace(c, d) /\ d.current = c.current
      /\ d.forkAtUndoPoint = c.forkAtUndoPoint
  BY <1>2 DEF SoundHistory, SamePlace
<1> HIDE DEF d
<1>5. fork_start_index(d) = fork_start_index(c)
  BY <1>4, Zenon DEF fork_start_index, SamePlace
<1>6. Kept(d, z)
  BY <1>3, <1>4, <1>5, Zenon DEF Kept, SamePlace, ForkKept
<1>7. Whole(d, z) = Whole(c, z)
  BY <1>4, Zenon DEF Whole
<1> QED BY <1>4, <1>6, <1>7, Zenon DEF d

(* How far the fork has fallen behind does not matter here.                *)
LEMMA FallBehindKept ==
  ASSUME NEW c, NEW z, Kept(c, z), NEW n \in Nat
  PROVE  LET d == [c EXCEPT !.fallbehind = n]
         IN /\ Kept(d, z) /\ Whole(d, z) = Whole(c, z) /\ d.fork = c.fork
            /\ d.entries = c.entries /\ SamePlace(c, d) /\ d.current = c.current
            /\ d.forkAtUndoPoint = c.forkAtUndoPoint /\ (ForkPoint(c) => ForkPoint(d))
<1> DEFINE d == [c EXCEPT !.fallbehind = n]
<1>1. Sound(c)
  BY DEF Kept
<1>2. c \in SoundHistory
  BY <1>1 DEF Sound
<1>3. Sound(d)
  BY <1>1, FallBehind
<1>4. /\ d.fork = c.fork /\ d.entries = c.entries /\ SamePlace(c, d) /\ d.current = c.current
      /\ d.forkAtUndoPoint = c.forkAtUndoPoint
  BY <1>2 DEF SoundHistory, SamePlace
<1> HIDE DEF d
<1>5. fork_start_index(d) = fork_start_index(c)
  BY <1>4, Zenon DEF fork_start_index, SamePlace
<1>6. Kept(d, z)
  BY <1>3, <1>4, <1>5, Zenon DEF Kept, SamePlace, ForkKept, have_local_fork
<1>7. Whole(d, z) = Whole(c, z) /\ (ForkPoint(c) => ForkPoint(d))
  BY <1>4, Zenon DEF Whole, ForkPoint, SamePlace
<1> QED BY <1>4, <1>6, <1>7, Zenon DEF d

(* A state set or dropped.                                                 *)
LEMMA StateKept ==
  ASSUME NEW c, NEW z, Kept(c, z), NEW i \in 1 .. Len(c.entries), NEW cs \in Canvas \cup {NoState},
         cs # NoState => /\ is_valid_save_point_entry(c.entries[i])
                         /\ cs = ReplayedTo(c.entries, 0, z, i),
         i = 1 => cs # NoState
  PROVE  LET d == [c EXCEPT !.entries = WithState(c.entries, i, cs)]
         IN /\ Kept(d, z) /\ Whole(d, z) = Whole(c, z) /\ d.fork = c.fork
            /\ SamePlace(c, d) /\ d.current = c.current
            /\ d.forkAtUndoPoint = c.forkAtUndoPoint
            /\ Len(d.entries) = Len(c.entries)
            /\ \A j \in 1 .. Len(c.entries) :
                 d.entries[j].undo = c.entries[j].undo /\ d.entries[j].msg = c.entries[j].msg
            /\ d.entries[i].state = cs
<1> DEFINE es == c.entries
           n == Len(es)
           fs == WithState(es, i, cs)
           d == [c EXCEPT !.entries = fs]
<1>1. /\ Sound(c) /\ c \in SoundHistory /\ es \in Seq(SoundEntry) /\ es # << >> /\ n \in Nat
      /\ DOMAIN es = 1 .. n /\ 1 \in 1 .. n /\ Coherent(es, z) /\ z \in Canvas
      /\ es[1].state # NoState
  BY HistoryHas DEF Kept, Rooted
<1>2. Sound(d)
  BY <1>1, StateChanged
<1>3. /\ d.entries = fs /\ d.fork = c.fork /\ SamePlace(c, d) /\ d.current = c.current
      /\ d.forkAtUndoPoint = c.forkAtUndoPoint
  BY <1>1 DEF SoundHistory, SamePlace
<1>4. \A j \in 1 .. n : DOMAIN es[j] = {"undo", "msg", "state"}
  <2> SUFFICES ASSUME NEW j \in 1 .. n PROVE DOMAIN es[j] = {"undo", "msg", "state"}
    OBVIOUS
  <2>1. es[j] \in SoundEntry
    BY <1>1, ElementOfSeq
  <2> QED BY <2>1 DEF SoundEntry, Entry
<1> HIDE DEF es, n, d
<1>5. /\ Len(fs) = n /\ DOMAIN fs = 1 .. n
      /\ \A j \in 1 .. n : /\ fs[j].undo = es[j].undo /\ fs[j].msg = es[j].msg
                           /\ fs[j].state = IF j = i THEN cs ELSE es[j].state
  BY <1>1, <1>4 DEF WithState, n, es
<1> HIDE DEF fs
<1>6. fs \in Seq(SoundEntry)
  BY <1>2, <1>3, HistoryHas
<1>7. SameCommands(es, fs)
  BY <1>5, SameCommandsIs, Zenon DEF n
<1>8. \A k \in 0 .. n : ReplayedTo(fs, 0, z, k) = ReplayedTo(es, 0, z, k)
  <2>1. Len(es) = Len(fs) /\ \A j \in 1 .. Len(es) : SameDraw(es[j], fs[j])
    BY <1>5, <1>7, Zenon DEF SameCommands, n
  <2> QED BY <1>1, <1>6, <2>1, CoherentSame DEF n
<1>9. Coherent(fs, z)
  <2> SUFFICES ASSUME NEW j \in 1 .. n PROVE CoherentAt(fs, z, j)
    BY <1>5, Zenon DEF Coherent
  <2>1. j \in 0 .. n
    BY <1>1
  <2>2. CASE j = i
    BY <1>5, <1>8, <2>1, <2>2, Zenon DEF CoherentAt, es
  <2>3. CASE j # i
    BY <1>1, <1>5, <1>8, <2>1, <2>3, Zenon DEF CoherentAt, Coherent
  <2> QED BY <2>2, <2>3
<1>10. fs[1].state # NoState
  BY <1>1, <1>5, Zenon
<1>11. i \in 1 .. n
  BY DEF n, es
<1>12. /\ SameCommands(c.entries, d.entries) /\ d.entries[1].state # NoState
       /\ Coherent(d.entries, z) /\ (have_local_fork(d) => have_local_fork(c))
  BY <1>3, <1>7, <1>9, <1>10, Zenon DEF es, have_local_fork
<1>13. Kept(d, z) /\ Whole(d, z) = Whole(c, z)
  BY <1>2, <1>3, <1>12, KeptAlike
<1>14. /\ Len(d.entries) = Len(c.entries) /\ d.entries[i].state = cs
       /\ \A j \in 1 .. Len(c.entries) :
            d.entries[j].undo = c.entries[j].undo /\ d.entries[j].msg = c.entries[j].msg
  BY <1>3, <1>5, <1>11 DEF n, es
<1> QED BY <1>3, <1>13, <1>14, Zenon DEF d, fs, es

(* Entries after the fork start cannot be the first: dropping the state    *)
(* there leaves another one.                                               *)
LEMMA ClearForkFallbehindKept ==
  ASSUME NEW c, NEW z, Kept(c, z), ForkPoint(c),
         fork_start_index(c) = 1 => is_undo_point_entry(c.entries[1])
  PROVE  LET d == clear_fork_fallbehind(c)
         IN /\ Kept(d, z) /\ Whole(d, z) = Whole(c, z) /\ d.fork = c.fork
            /\ SamePlace(c, d) /\ d.current = c.current
            /\ Len(d.entries) = Len(c.entries)
            /\ \A j \in 1 .. Len(c.entries) :
                 d.entries[j].undo = c.entries[j].undo /\ d.entries[j].msg = c.entries[j].msg
<1> DEFINE p == fork_start_index(c)
           zero == 0
           c2 == [c EXCEPT !.fallbehind = zero]
           none == NoState
           c3 == [c2 EXCEPT !.entries = WithState(c2.entries, p, none)]
           d == clear_fork_fallbehind(c)
<1>1. /\ Sound(c) /\ p \in 1 .. Len(c.entries)
  BY HistoryHas DEF Kept
<1>2. zero \in Nat /\ none \in Canvas \cup {NoState}
  OBVIOUS
<1>3. d = IF c.forkAtUndoPoint \/ is_undo_point_entry(c.entries[p]) THEN c2 ELSE c3
  BY Zenon DEF clear_fork_fallbehind
<1> HIDE DEF zero, d, p
<1>4. /\ Kept(c2, z) /\ Whole(c2, z) = Whole(c, z) /\ c2.fork = c.fork
      /\ c2.entries = c.entries /\ SamePlace(c, c2) /\ c2.current = c.current
  BY <1>2, FallBehindKept
<1>5. CASE d = c2
  BY <1>4, <1>5, Zenon DEF d
<1>6. CASE d # c2
  <2>1. d = c3 /\ ~is_undo_point_entry(c.entries[p])
    BY <1>3, <1>6, Zenon
  <2>2. p # 1
    BY <2>1, Zenon DEF p
  <2> HIDE DEF c2
  <2>3. p \in 1 .. Len(c2.entries)
    BY <1>1, <1>4, Zenon
  <2>4. ~(none # NoState)
    OBVIOUS
  <2> HIDE DEF none
  <2>5. /\ Kept(c3, z) /\ Whole(c3, z) = Whole(c2, z) /\ c3.fork = c2.fork
        /\ SamePlace(c2, c3) /\ c3.current = c2.current
        /\ Len(c3.entries) = Len(c2.entries)
        /\ \A j \in 1 .. Len(c2.entries) :
             c3.entries[j].undo = c2.entries[j].undo /\ c3.entries[j].msg = c2.entries[j].msg
    <3>1. Kept(c2, z) /\ none \in Canvas \cup {NoState}
      BY <1>2, <1>4, Zenon
    <3> QED BY <2>2, <2>3, <2>4, <3>1, StateKept
  <2>6. SamePlace(c, c3)
    BY <1>4, <2>5, Zenon DEF SamePlace
  <2> HIDE DEF c3
  <2> QED BY <1>4, <2>1, <2>5, <2>6, Zenon DEF d
<1> QED BY <1>5, <1>6

(* A save point of the canvas, where the last command drawn is not after   *)
(* it and no fork is on the canvas.                                        *)
LEMMA MakeSavePointKept ==
  ASSUME NEW c, NEW z, Kept(c, z), Right(c, z), c.fork = << >>,
         NEW i \in 1 .. Len(c.entries), is_valid_save_point_entry(c.entries[i]),
         \A j \in i + 1 .. Len(c.entries) : ~DoneDraw(c.entries[j])
  PROVE  LET d == make_save_point(c, i)
         IN /\ Kept(d, z) /\ Whole(d, z) = Whole(c, z) /\ d.fork = c.fork
            /\ SamePlace(c, d) /\ d.current = c.current
            /\ Len(d.entries) = Len(c.entries)
            /\ \A j \in 1 .. Len(c.entries) :
                 d.entries[j].undo = c.entries[j].undo /\ d.entries[j].msg = c.entries[j].msg
            /\ d.entries[i].state # NoState
<1> DEFINE es == c.entries
           cs == c.current
           d == make_save_point(c, i)
           e == [c EXCEPT !.entries = WithState(c.entries, i, cs)]
<1>1. /\ Sound(c) /\ es \in Seq(SoundEntry) /\ Len(es) \in Nat /\ cs \in Canvas /\ z \in Canvas
  BY HistoryHas DEF Kept
<1>2. cs = ReplayedTo(es, 0, z, i)
  <2>1. cs = Whole(c, z)
    <3>1. Whole(c, z) \in Canvas
      BY <1>1, WholeType
    <3> QED BY <3>1, ShownNothing DEF Right, View
  <2>2. /\ 0 \in 0 .. Len(es) /\ Len(es) \in 0 .. Len(es) /\ i \in 0 .. Len(es) /\ 0 <= i
        /\ i <= Len(es)
    BY <1>1
  <2>3. ReplayedTo(es, 0, z, Len(es)) = ReplayedTo(es, 0, z, i)
    <3> DEFINE n == Len(es)
    <3>1. n \in 0 .. Len(es) /\ i <= n /\ \A j \in i + 1 .. n : ~DoneDraw(es[j])
      BY <2>2
    <3> HIDE DEF n, es
    <3>2. ReplayedTo(es, 0, z, n) = ReplayedTo(es, 0, z, i)
      BY <1>1, <2>2, <3>1, ReplaySkips
    <3> QED BY <3>2, Zenon DEF n
  <2> QED BY <2>1, <2>3, Zenon DEF Whole
<1>3. cs # NoState /\ cs \in Canvas \cup {NoState}
  BY <1>1, NoStateIsNoCanvas
<1>4. d = IF es[i].state # NoState THEN c ELSE e
  BY Zenon DEF make_save_point
<1>5. CASE es[i].state # NoState
  BY <1>4, <1>5, Zenon DEF SamePlace
<1>6. CASE es[i].state = NoState
  <2>1. d = e
    BY <1>4, <1>6
  <2>2. is_valid_save_point_entry(c.entries[i]) /\ cs = ReplayedTo(c.entries, 0, z, i)
    BY <1>2
  <2> HIDE DEF cs, d
  <2>3. /\ Kept(e, z) /\ Whole(e, z) = Whole(c, z) /\ e.fork = c.fork
        /\ SamePlace(c, e) /\ e.current = c.current
        /\ Len(e.entries) = Len(c.entries)
        /\ \A j \in 1 .. Len(c.entries) :
             e.entries[j].undo = c.entries[j].undo /\ e.entries[j].msg = c.entries[j].msg
        /\ e.entries[i].state = cs
    BY <1>3, <2>2, StateKept
  <2> HIDE DEF e
  <2> QED BY <1>3, <2>1, <2>3, Zenon DEF d
<1> QED BY <1>5, <1>6

(* The last entry that may be saved has no drawing command after it.       *)
LEMMA SavePointIndex ==
  ASSUME NEW c, NEW z, Kept(c, z)
  PROVE  LET i == find_save_point_index(c.entries)
         IN /\ i \in 1 .. Len(c.entries) => is_valid_save_point_entry(c.entries[i])
            /\ \A j \in i + 1 .. Len(c.entries) : ~DoneDraw(c.entries[j])
            /\ i \in 1 .. Len(c.entries)
<1> DEFINE es == c.entries
           n == Len(es)
           S == {i \in DOMAIN es : is_valid_save_point_entry(es[i])}
           i == Latest(S)
<1>1. /\ Sound(c) /\ es \in Seq(SoundEntry) /\ n \in Nat /\ DOMAIN es = 1 .. n /\ 1 \in 1 .. n
      /\ es[1].state # NoState
  BY HistoryHas DEF Kept, Rooted
<1>2. is_valid_save_point_entry(es[1])
  <2>1. es[1] \in SoundEntry
    BY <1>1, ElementOfSeq
  <2> QED BY <1>1, <2>1 DEF SoundEntry
<1>3. S \subseteq 1 .. n /\ 1 \in S
  BY <1>1, <1>2
<1>4. \A j \in S : is_valid_save_point_entry(es[j])
  OBVIOUS
<1>5. \A j \in 1 .. n : j \notin S => ~DoneDraw(es[j])
  BY <1>1 DEF DoneDraw, is_valid_save_point_entry
<1>6. i = find_save_point_index(es)
  BY Zenon DEF find_save_point_index
<1> HIDE DEF S, n, es
<1>7. i \in S /\ i \in 0 .. n /\ \A j \in S : j <= i
  BY <1>1, <1>3, LatestIs
<1> HIDE DEF i
<1>8. i \in 1 .. n
  BY <1>3, <1>7
<1>9. ASSUME NEW j \in i + 1 .. n PROVE ~DoneDraw(es[j])
  <2>1. j \in 1 .. n /\ ~(j <= i)
    BY <1>1, <1>8
  <2> QED BY <1>5, <1>7, <2>1, Zenon
<1> QED BY <1>4, <1>6, <1>7, <1>8, <1>9, Zenon DEF n, es

----------------------------------------------------------------------------
(***************************************************************************)
(* Undos.                                                                  *)
(***************************************************************************)

(* Where an undo starts there is an undo point.                            *)
LEMMA UndoStartIs ==
  ASSUME NEW es \in Seq(SoundEntry), NEW limit, NEW user
  PROVE  LET start == undo_start_of(es, limit, user)
         IN start # 0 => start \in 1 .. Len(es) /\ is_undo_point_entry(es[start])
<1> DEFINE S == UndoPointsBy(es, user, "Done")
           start == Latest(S)
<1>1. DOMAIN es = 1 .. Len(es) /\ 0 \notin 1 .. Len(es)
  BY LenProperties
<1>2. S \subseteq 1 .. Len(es) /\ \A i \in S : is_undo_point_entry(es[i])
  BY <1>1 DEF UndoPointsBy
<1>3. start \in S \cup {0}
  BY LatestIn
<1>4. undo_start_of(es, limit, user) \in {start, 0}
  BY Zenon DEF undo_start_of
<1> HIDE DEF S, start
<1> QED BY <1>1, <1>2, <1>3, <1>4

(* Entries from start on may be undone, and then lose their save points.   *)
UndoneFrom(es, fs, start) ==
  /\ fs \in Seq(SoundEntry) /\ Len(fs) = Len(es)
  /\ \A i \in 1 .. Len(es) : i < start => fs[i] = es[i]
  /\ \A i \in 1 .. Len(es) :
       /\ fs[i].msg = es[i].msg
       /\ is_undo_point_entry(es[i]) => fs[i].state = es[i].state
       /\ i >= start /\ ~is_undo_point_entry(es[i]) => fs[i].state = NoState

(* What an undo does to the entries before it replays them.                *)
LEMMA MarkedUndone ==
  ASSUME NEW c, Sound(c), NEW user, NEW start \in 1 .. Len(c.entries)
  PROVE  UndoneFrom(c.entries, mark_entries_undone(c.entries, user, start), start)
<1> DEFINE es == c.entries
           new(i) == IF i < start THEN es[i]
             ELSE [es[i] EXCEPT
                     !.undo = IF is_done_entry_by(es[i], user) THEN "Undone" ELSE es[i].undo,
                     !.state = IF is_undo_point_entry(es[i]) THEN es[i].state ELSE NoState]
           fs == [i \in DOMAIN es |-> new(i)]
<1>1. /\ Len(es) \in Nat \ {0} /\ DOMAIN es = 1 .. Len(es)
      /\ \A i \in DOMAIN es : es[i] \in SoundEntry
  BY Entries
<1>2. \A i \in DOMAIN es : new(i) \in SoundEntry
  <2> SUFFICES ASSUME NEW i \in DOMAIN es PROVE new(i) \in SoundEntry
    OBVIOUS
  <2>1. es[i] \in SoundEntry
    BY <1>1, Zenon
  <2> QED BY <2>1 DEF SoundEntry, Entry, is_valid_save_point_entry, is_undo_point_entry,
                      is_done_entry_by
<1>3. fs \in [1 .. Len(es) -> SoundEntry]
  BY <1>1, <1>2
<1>4. fs = mark_entries_undone(es, user, start)
  BY DEF mark_entries_undone
<1>5. \A i \in 1 .. Len(es) : fs[i] = new(i)
  BY <1>1
<1>6. ASSUME NEW i \in 1 .. Len(es)
      PROVE  /\ i < start => new(i) = es[i]
             /\ new(i).msg = es[i].msg
             /\ is_undo_point_entry(es[i]) => new(i).state = es[i].state
             /\ i >= start /\ ~is_undo_point_entry(es[i]) => new(i).state = NoState
  <2>1. DOMAIN es[i] = {"undo", "msg", "state"}
    BY <1>1 DEF SoundEntry, Entry
  <2>2. i >= start => ~(i < start)
    BY <1>1
  <2> HIDE DEF es
  <2> QED BY <2>1, <2>2
<1> HIDE DEF fs, new
<1>7. fs \in Seq(SoundEntry) /\ Len(fs) = Len(es)
  BY <1>1, <1>3, PointwiseSeq
<1>8. /\ \A i \in 1 .. Len(es) : i < start => fs[i] = es[i]
      /\ \A i \in 1 .. Len(es) :
           /\ fs[i].msg = es[i].msg
           /\ is_undo_point_entry(es[i]) => fs[i].state = es[i].state
           /\ i >= start /\ ~is_undo_point_entry(es[i]) => fs[i].state = NoState
  BY <1>5, <1>6
<1>9. UndoneFrom(es, fs, start)
  BY <1>7, <1>8, Zenon DEF UndoneFrom
<1> QED BY <1>4, <1>9, Zenon

(* An undo leaves the history right.                                       *)
LEMMA UndoKept ==
  ASSUME NEW c, NEW z, Kept(c, z), Right(c, z), NEW user
  PROVE  LET d == undo(c, user)
         IN /\ Kept(d, z) /\ Right(d, z) /\ d.offset = c.offset /\ d.fork = c.fork
            /\ d.limit = c.limit /\ Len(d.entries) = Len(c.entries)
            /\ Since(d) \in {0, Since(c)}
<1> DEFINE es == c.entries
           n == Len(es)
           start == undo_start_of(es, c.limit, user)
           fs == mark_entries_undone(es, user, start)
           e == [c EXCEPT !.entries = fs]
           all == TRUE
           d == undo(c, user)
<1>1. /\ Sound(c) /\ c \in SoundHistory /\ es \in Seq(SoundEntry) /\ es # << >> /\ n \in Nat
      /\ DOMAIN es = 1 .. n /\ 1 \in 1 .. n /\ Rooted(es, c.limit) /\ Coherent(es, z) /\ z \in Canvas
      /\ all \in BOOLEAN /\ all
  BY HistoryHas DEF Kept
<1>2. d = IF start = 0 THEN c ELSE search_and_replay_from(e, start, all)
  BY Zenon DEF undo
<1>3. start # 0 => start \in 1 .. n /\ is_undo_point_entry(es[start])
  BY <1>1, UndoStartIs
<1> HIDE DEF all, start, n, d
<1>4. CASE start = 0
  BY <1>2, <1>4, Zenon DEF d
<1>5. CASE start # 0
  <2>0. start \in 1 .. n /\ is_undo_point_entry(es[start])
    BY <1>3, <1>5
  <2>1. /\ fs \in Seq(SoundEntry) /\ Len(fs) = n
        /\ \A i \in 1 .. n : i < start => fs[i] = es[i]
        /\ \A i \in 1 .. n :
             /\ fs[i].msg = es[i].msg
             /\ is_undo_point_entry(es[i]) => fs[i].state = es[i].state
             /\ i >= start /\ ~is_undo_point_entry(es[i]) => fs[i].state = NoState
    <3>1. start \in 1 .. Len(c.entries)
      BY <2>0 DEF n
    <3>2. Sound(c)
      BY <1>1
    <3> HIDE DEF fs
    <3>3. UndoneFrom(es, fs, start)
      BY <3>1, <3>2, MarkedUndone, Zenon DEF fs
    <3> HIDE DEF es
    <3> QED BY <3>3, Zenon DEF UndoneFrom, n
  <2> HIDE DEF fs
  <2>2. Sound(e)
    <3>1. Len(fs) = Len(c.entries)
      BY <2>1 DEF n
    <3> QED BY <1>1, <2>1, <3>1, ChangedEntries
  <2>3. /\ e.entries = fs /\ e.offset = c.offset /\ e.fork = c.fork /\ e.limit = c.limit
    BY <1>1 DEF SoundHistory
  <2> HIDE DEF e, es
  <2>4. n = Len(es) /\ DOMAIN fs = 1 .. n /\ start \in Int /\ start \in 1 .. n /\ 0 \in 0 .. n
    BY <1>1, <2>0, <2>1, LenProperties DEF n
  <2>5. \A i \in 1 .. n : is_undo_point_entry(fs[i]) <=> is_undo_point_entry(es[i])
    BY <2>1, Zenon DEF is_undo_point_entry
  <2>6. ASSUME NEW j \in 1 .. n, j <= start PROVE SameDraw(es[j], fs[j])
    <3>1. CASE j = start
      <4>1. is_undo_point_entry(es[j]) /\ is_undo_point_entry(fs[j])
        BY <2>0, <2>5, <3>1
      <4>2. ~DoneDraw(es[j]) /\ ~DoneDraw(fs[j])
        BY <4>1 DEF is_undo_point_entry, DoneDraw, IsDraw
      <4> QED BY <4>2, Zenon DEF SameDraw
    <3>2. CASE j # start
      <4>1. j < start
        BY <2>4, <2>6, <3>2
      <4>2. fs[j] = es[j]
        BY <2>1, <4>1
      <4> QED BY <4>2, Zenon DEF SameDraw
    <3> QED BY <3>1, <3>2
  <2>7. ASSUME NEW i \in 1 .. n, i <= start
        PROVE  ReplayedTo(es, 0, z, i) = ReplayedTo(fs, 0, z, i)
    <3>1. i \in 0 .. Len(es) /\ i <= Len(fs) /\ 0 <= i /\ 0 \in 0 .. Len(es)
      BY <1>1, <2>1, <2>4
    <3>2. \A j \in 0 + 1 .. i : SameDraw(es[j], fs[j])
      <4> SUFFICES ASSUME NEW j \in 0 + 1 .. i PROVE SameDraw(es[j], fs[j])
        OBVIOUS
      <4>1. j \in 1 .. n /\ j <= start
        BY <1>1, <2>4, <2>7
      <4> QED BY <2>6, <4>1
    <3> QED BY <1>1, <2>1, <3>1, <3>2, ReplaySame
  <2>8. ASSUME NEW i \in 1 .. n, i <= start PROVE fs[i].state = es[i].state
    <3>1. CASE i = start
      BY <2>0, <2>1, <3>1
    <3>2. CASE i # start
      <4>1. i < start
        BY <2>4, <2>8, <3>2
      <4> QED BY <2>1, <4>1
    <3> QED BY <3>1, <3>2
  <2>9. Partly(fs, z, start)
    <3> SUFFICES ASSUME NEW i \in 1 .. n
                 PROVE  CoherentAt(fs, z, i) \/ (i > start /\ is_undo_point_entry(fs[i]))
      BY <2>4, Zenon DEF Partly
    <3>1. CASE i <= start
      <4>1. CoherentAt(es, z, i)
        BY <1>1, Zenon DEF Coherent
      <4> QED BY <2>7, <2>8, <3>1, <4>1, Zenon DEF CoherentAt
    <3>2. CASE ~(i <= start)
      <4>1. i > start /\ i >= start
        BY <2>4, <3>2
      <4>2. CASE is_undo_point_entry(es[i])
        BY <2>5, <4>1, <4>2, Zenon
      <4>3. CASE ~is_undo_point_entry(es[i])
        BY <2>1, <4>1, <4>3, Zenon DEF CoherentAt
      <4> QED BY <4>2, <4>3
    <3> QED BY <3>1, <3>2
  <2>10. Rooted(fs, c.limit)
    <3>1. fs[1].state # NoState
      <4>1. 1 <= start
        BY <2>4
      <4> QED BY <1>1, <2>8, <4>1 DEF Rooted
    <3>2. Len(es) = Len(fs) /\ \A j \in 1 .. Len(es) : fs[j].msg = es[j].msg
      BY <2>1, <2>4
    <3> QED BY <1>1, <2>1, <3>1, <3>2, RootedSame
  <2> DEFINE f == search_and_replay_from(e, start, all)
  <2>11. /\ start \in 1 .. Len(e.entries) /\ Partly(e.entries, z, start)
         /\ Rooted(e.entries, e.limit) /\ e.entries[1].state # NoState
    BY <2>1, <2>3, <2>4, <2>9, <2>10 DEF Rooted
  <2>12. /\ Kept(f, z) /\ Right(f, z) /\ f.offset = e.offset /\ f.fork = e.fork
         /\ f.limit = e.limit /\ Len(f.entries) = Len(e.entries) /\ Since(f) = 0
    BY <1>1, <2>2, <2>11, SearchReplay
  <2>14. d = f
    BY <1>2, <1>5, Zenon
  <2> HIDE DEF f
  <2>15. n = Len(c.entries) /\ Len(f.entries) = n
    BY <2>1, <2>3, <2>4, <2>12 DEF es
  <2> QED BY <2>3, <2>12, <2>14, <2>15, Zenon DEF d, es
<1> QED BY <1>4, <1>5

----------------------------------------------------------------------------
(***************************************************************************)
(* Undo points.                                                            *)
(***************************************************************************)

(* Where the marking stops, and what it has counted there: the undo points *)
(* from there on, an entry that was gone already perhaps twice.            *)
Counted(es, stop, k) == stop.depth + UndoPoints(es, k + 1, stop.at)

(* The marking stops at an entry that can be reached, late enough, and has *)
(* counted as many undo points as there are or one more.                   *)
StopsRight(c, stop) ==
  /\ stop.at \in 0 .. Len(c.entries) - 1
  /\ Len(c.entries) >= 2 /\ Depth(c.entries, 2) >= c.limit => stop.at >= 1
  /\ \A k \in 1 .. stop.at :
       /\ Counted(c.entries, stop, k) \in Nat
       /\ \/ Counted(c.entries, stop, k) = Depth(c.entries, k + 1)
          \/ /\ Counted(c.entries, stop, k) <= Depth(c.entries, k + 1) + 1
             /\ c.entries[stop.at].undo = "Gone"

(* It does.                                                                *)
LEMMA GoneStopIs ==
  ASSUME NEW c, Sound(c)
  PROVE  StopsRight(c, GoneStop(c))
<1> DEFINE es == c.entries
           n == Len(es)
           D == {i \in 1 .. n - 1 : Depth(es, i + 1) >= c.limit}
           G == {i \in 1 .. n - 1 : es[i].undo = "Gone" /\ es[i].msg.user = es[n].msg.user}
           deep == Latest(D)
           gone == Latest(G)
           stop == GoneStop(c)
<1>1. es \in Seq(SoundEntry) /\ n \in Nat /\ n >= 1 /\ c.limit \in Nat
  BY HistoryHas
<1>2. D \subseteq 1 .. n - 1 /\ G \subseteq 1 .. n - 1 /\ n - 1 \in Nat
  BY <1>1
<1>3. stop = IF gone > deep THEN [at |-> gone, depth |-> Depth(es, gone)]
             ELSE [at |-> deep, depth |-> Depth(es, deep + 1)]
  BY Zenon DEF GoneStop
<1>4. \A i \in G : es[i].undo = "Gone"
  OBVIOUS
<1>5. n >= 2 /\ Depth(es, 2) >= c.limit => 1 \in D
  <2>1. n >= 2 => 1 \in 1 .. n - 1
    BY <1>1
  <2> QED BY <2>1
<1> HIDE DEF D, G, stop, es, n
<1>6. /\ deep \in 0 .. n - 1 /\ \A i \in D : i <= deep
  BY <1>2, LatestIs
<1>7. gone \in 0 .. n - 1 /\ (gone # 0 => gone \in G)
  BY <1>2, LatestIs
<1> HIDE DEF deep, gone
<1>8. stop.at \in 0 .. n - 1
  BY <1>3, <1>6, <1>7
<1>9. ASSUME n >= 2, Depth(es, 2) >= c.limit PROVE stop.at >= 1
  <2>1. 1 <= deep
    BY <1>5, <1>6, <1>9
  <2> QED BY <1>1, <1>3, <1>6, <1>7, <2>1
<1>10. ASSUME NEW k \in 1 .. stop.at
       PROVE  /\ Counted(es, stop, k) \in Nat
              /\ \/ Counted(es, stop, k) = Depth(es, k + 1)
                 \/ Counted(es, stop, k) <= Depth(es, k + 1) + 1 /\ es[stop.at].undo = "Gone"
  <2> DEFINE a == stop.at
             x == UndoPoints(es, k + 1, a)
  <2>1. /\ a \in Int /\ k \in Int /\ k + 1 \in Int /\ a + 1 \in Int /\ k + 1 <= a + 1 /\ a <= n
        /\ n \in Int /\ a \in 1 .. n /\ a >= 1
    BY <1>1, <1>8
  <2> HIDE DEF a
  <2>2. x \in Nat
    BY <2>1, UndoPointsType
  <2>3. UndoPoints(es, k + 1, n) = x + UndoPoints(es, a + 1, n)
    BY <2>1, UndoPointsSplit
  <2>4. Depth(es, k + 1) = x + Depth(es, a + 1)
    BY <2>3, Zenon DEF Depth, n
  <2>5. Depth(es, a) \in Nat /\ Depth(es, a + 1) \in Nat
    BY <1>1, <2>1, DepthType
  <2>6. Counted(es, stop, k) = stop.depth + x
    BY Zenon DEF Counted, a
  <2>7. Depth(es, a) = Depth(es, a + 1) + (IF is_undo_point_entry(es[a]) THEN 1 ELSE 0)
    <3>1. a \in 1 .. Len(es)
      BY <2>1 DEF n
    <3> QED BY <1>1, <3>1, DepthNext
  <2> HIDE DEF x
  <2>8. CASE gone > deep
    <3>1. stop.depth = Depth(es, a) /\ a = gone
      BY <1>3, <2>8 DEF a
    <3>2. es[a].undo = "Gone"
      BY <1>4, <1>7, <2>1, <3>1
    <3>3. Depth(es, a) <= Depth(es, a + 1) + 1
      BY <2>5, <2>7
    <3>4. /\ Counted(es, stop, k) \in Nat /\ Counted(es, stop, k) <= Depth(es, k + 1) + 1
      BY <2>2, <2>4, <2>5, <2>6, <3>1, <3>3
    <3> QED BY <3>2, <3>4 DEF a
  <2>9. CASE ~(gone > deep)
    <3>1. stop.depth = Depth(es, a + 1)
      BY <1>3, <2>9 DEF a
    <3> QED BY <2>2, <2>4, <2>5, <2>6, <3>1
  <2> QED BY <2>8, <2>9
<1> QED BY <1>8, <1>9, <1>10, Zenon DEF StopsRight, stop, n, es

(* Marking entries gone takes their states; the first one is too far back. *)
LEMMA GoneKept ==
  ASSUME NEW c, NEW z, Kept(c, z), NEW stop \in Int,
         stop >= 1 \/ c.entries[1].msg.user # c.entries[Len(c.entries)].msg.user
  PROVE  LET d == mark_undone_actions_gone(c, stop)
         IN /\ Kept(d, z) /\ Whole(d, z) = Whole(c, z) /\ SamePlace(c, d)
            /\ d.fork = c.fork /\ d.current = c.current
            /\ Len(d.entries) = Len(c.entries) /\ SameCommands(c.entries, d.entries)
            /\ \A j \in 1 .. Len(c.entries) :
                 /\ d.entries[j].msg = c.entries[j].msg
                 /\ c.entries[j].undo = "Done" => d.entries[j].undo = "Done"
                 /\ c.entries[j].undo = "Gone" => d.entries[j].undo = "Gone"
<1> DEFINE es == c.entries
           n == Len(es)
           user == es[n].msg.user
           gone(i) == i \in stop + 1 .. n - 1 /\ es[i].undo = "Undone" /\ es[i].msg.user = user
           new(i) == IF gone(i) THEN [es[i] EXCEPT !.undo = "Gone", !.state = NoState] ELSE es[i]
           fs == [i \in DOMAIN es |-> new(i)]
           d == mark_undone_actions_gone(c, stop)
<1>1. /\ Sound(c) /\ c \in SoundHistory /\ es \in Seq(SoundEntry) /\ es # << >> /\ n \in Nat
      /\ DOMAIN es = 1 .. n /\ 1 \in 1 .. n /\ Coherent(es, z) /\ z \in Canvas
      /\ es[1].state # NoState
  BY HistoryHas DEF Kept, Rooted
<1>2. Sound(d) /\ Len(d.entries) = n
  BY <1>1, MarkUndoneActionsGone
<1>3. d = [c EXCEPT !.entries = fs]
  BY Zenon DEF mark_undone_actions_gone
<1>4. /\ d.entries = fs /\ d.fork = c.fork /\ SamePlace(c, d) /\ d.current = c.current
  BY <1>1, <1>3 DEF SoundHistory, SamePlace
<1>5. ASSUME NEW j \in 1 .. n
      PROVE  /\ new(j).msg = es[j].msg
             /\ es[j].undo = "Done" => new(j).undo = "Done"
             /\ es[j].undo = "Gone" => new(j).undo = "Gone"
             /\ new(j).undo = "Done" => es[j].undo = "Done"
             /\ new(j).state \in {es[j].state, NoState}
             /\ ~gone(j) => new(j).state = es[j].state
  <2>1. DOMAIN es[j] = {"undo", "msg", "state"}
    <3>1. es[j] \in SoundEntry
      BY <1>1, ElementOfSeq
    <3> QED BY <3>1 DEF SoundEntry, Entry
  <2>2. CASE gone(j)
    <3>1. es[j].undo = "Undone"
      BY <2>2
    <3>2. new(j) = [es[j] EXCEPT !.undo = "Gone", !.state = NoState]
      BY <2>2
    <3> HIDE DEF new, gone, es
    <3> QED BY <2>1, <2>2, <3>1, <3>2
  <2>3. CASE ~gone(j)
    <3>1. new(j) = es[j]
      BY <2>3
    <3> HIDE DEF new, gone, es
    <3> QED BY <3>1
  <2> QED BY <2>2, <2>3
<1>6. \A j \in 1 .. n : fs[j] = new(j)
  BY <1>1
<1>7. ~gone(1)
  <2>1. stop >= 1 => 1 \notin stop + 1 .. n - 1
    OBVIOUS
  <2> QED BY <2>1
<1> HIDE DEF es, n, fs, new, d
<1>8. fs \in Seq(SoundEntry) /\ Len(fs) = n /\ DOMAIN fs = 1 .. n
  BY <1>2, <1>4, HistoryHas
<1>9. \A j \in 1 .. n : SameDraw(es[j], fs[j]) /\ fs[j].state \in {es[j].state, NoState}
  BY <1>5, <1>6, Zenon DEF SameDraw, DoneDraw
<1>10. Coherent(fs, z)
  <2>1. Len(es) = Len(fs) /\ \A j \in 1 .. Len(es) : SameDraw(es[j], fs[j])
    BY <1>8, <1>9 DEF n
  <2>2. \A j \in 1 .. Len(es) : fs[j].state \in {es[j].state, NoState}
    BY <1>9 DEF n
  <2> QED BY <1>1, <1>8, <2>1, <2>2, CoherentSame
<1>11. fs[1].state # NoState
  BY <1>1, <1>5, <1>6, <1>7, Zenon
<1>12. SameCommands(es, fs)
  BY <1>5, <1>6, <1>8, <1>9, Zenon DEF SameCommands, n
<1>13. /\ SameCommands(c.entries, d.entries) /\ d.entries[1].state # NoState
       /\ Coherent(d.entries, z) /\ (have_local_fork(d) => have_local_fork(c))
  BY <1>4, <1>10, <1>11, <1>12, Zenon DEF es, have_local_fork
<1>14. Kept(d, z) /\ Whole(d, z) = Whole(c, z)
  BY <1>2, <1>4, <1>13, KeptAlike
<1>15. \A j \in 1 .. n : /\ fs[j].msg = es[j].msg
                         /\ es[j].undo = "Done" => fs[j].undo = "Done"
                         /\ es[j].undo = "Gone" => fs[j].undo = "Gone"
  BY <1>5, <1>6, Zenon
<1> QED BY <1>2, <1>4, <1>13, <1>14, <1>15, Zenon DEF d, n, es

(* Truncation to an entry with a state, where the undo limit has passed.   *)
LEMMA TruncateKept ==
  ASSUME NEW c, NEW z, Kept(c, z), NEW first \in 1 .. Len(c.entries),
         have_local_fork(c) => first <= fork_start_index(c),
         first # 1 => /\ first < Len(c.entries) /\ c.entries[first].state # NoState
                      /\ Depth(c.entries, first + 1) >= c.limit - 1
                      /\ have_local_fork(c) /\ fork_start_index(c) = first
                           => is_undo_point_entry(c.entries[first])
  PROVE  LET d == truncate_history(c, first)
             y == ReplayedTo(c.entries, 0, z, first - 1)
         IN /\ Kept(d, y) /\ Whole(d, y) = Whole(c, z)
            /\ d.offset = c.offset + (first - 1) /\ d.fork = c.fork /\ d.limit = c.limit
            /\ d.current = c.current /\ Since(d) = Since(c)
            /\ Len(d.entries) = Len(c.entries) - (first - 1)
<1> DEFINE es == c.entries
           n == Len(es)
           a == first - 1
           fs == SubSeq(es, first, Len(es))
           y == ReplayedTo(es, 0, z, a)
           d == truncate_history(c, first)
           p == fork_start_index(c)
<1>1. /\ Sound(c) /\ c \in SoundHistory /\ es \in Seq(SoundEntry) /\ es # << >> /\ n \in Nat
      /\ DOMAIN es = 1 .. n /\ 1 \in 1 .. n /\ Coherent(es, z) /\ z \in Canvas
      /\ Rooted(es, c.limit) /\ c.offset \in Nat /\ c.limit \in Nat /\ p \in Int
      /\ have_local_fork(c) => p \in 1 .. n /\ ForkKept(c)
      /\ c.forkStart \in Nat
  BY HistoryHas DEF Kept
<1>2. Sound(d)
  BY <1>1, TruncateHistory
<1>3. /\ y \in Canvas /\ fs \in Seq(SoundEntry) /\ Len(fs) = Len(es) - first + 1
      /\ \A i \in 1 .. Len(fs) : fs[i] = es[i + a]
      /\ ReplayedTo(fs, 0, y, Len(fs)) = ReplayedTo(es, 0, z, Len(es))
      /\ Coherent(fs, y)
  BY <1>1, CoherentCut
<1>4. /\ d.entries = fs /\ d.offset = c.offset + a /\ d.fork = c.fork /\ d.limit = c.limit
      /\ d.current = c.current /\ d.forkStart = c.forkStart
  <2> HIDE DEF fs, a
  <2>1. d = [c EXCEPT !.entries = fs, !.offset = c.offset + a]
    BY Zenon DEF truncate_history, fs, es, a
  <2> QED BY <1>1, <2>1 DEF SoundHistory
<1>5. a \in Nat /\ n = Len(fs) + a /\ first \in Int /\ first \in 1 .. n /\ first = 1 + a /\ Len(fs) \in Nat
  <2>1. Len(fs) = n - first + 1 /\ n \in Nat /\ first \in 1 .. n /\ a = first - 1
    BY <1>1, <1>3
  <2> DEFINE m == Len(fs)
  <2> HIDE DEF n, fs, a, m
  <2>2. first \in Nat /\ first >= 1 /\ first <= n
    BY <2>1
  <2>3. m = n - first + 1
    BY <2>1, Zenon DEF m
  <2>4. m \in Nat /\ n = m + a
    BY <2>1, <2>2, <2>3
  <2> QED BY <2>1, <2>2, <2>4 DEF m
<1>6. fork_start_index(d) = p - a
  BY <1>1, <1>4, <1>5 DEF fork_start_index
<1> HIDE DEF fs, d, y, p, a
<1>7. ASSUME NEW i \in Int, i >= 1 PROVE Depth(fs, i) = Depth(es, i + a)
  <2>1. Len(fs) + a = Len(es) /\ a \in Nat /\ i \in Int /\ i >= 1
    BY <1>5, <1>7
  <2>2. es \in Seq(SoundEntry) /\ fs \in Seq(SoundEntry)
    BY <1>1, <1>3
  <2>3. \A j \in 1 .. Len(fs) : fs[j] = es[j + a]
    BY <1>3, Zenon
  <2> HIDE DEF es, n
  <2> QED BY <2>1, <2>2, <2>3, DepthOfEnd
<1>8. fs[1] = es[first]
  BY <1>1, <1>3, <1>5
<1> HIDE DEF es, n
<1>9. Rooted(fs, d.limit)
  <2>1. CASE first = 1
    <3>1. a = 0 /\ Len(fs) = n
      BY <1>1, <1>5, <2>1
    <3>2. Depth(fs, 2) = Depth(es, 2)
      <4>1. 2 \in Int /\ 2 >= 1 /\ 2 + a = 2
        BY <3>1
      <4> QED BY <1>7, <4>1
    <3> QED BY <1>1, <1>4, <1>8, <2>1, <3>1, <3>2, Zenon DEF Rooted, n
  <2>2. CASE first # 1
    <3>1. first < n /\ es[first].state # NoState /\ Depth(es, first + 1) >= c.limit - 1
      BY <2>2 DEF es, n
    <3>2. Depth(fs, 2) = Depth(es, first + 1)
      <4>1. 2 \in Int /\ 2 >= 1 /\ 2 + a = first + 1
        BY <1>5
      <4> QED BY <1>7, <4>1
    <3>3. Len(fs) >= 2
      BY <1>1, <1>5, <3>1
    <3> QED BY <1>4, <1>8, <3>1, <3>2, <3>3 DEF Rooted
  <2> QED BY <2>1, <2>2
<1>10. ASSUME have_local_fork(c)
       PROVE  /\ p \in 1 .. n /\ first <= p /\ p - a \in 1 .. Len(fs)
              /\ Depth(fs, (p - a) + 1) = Depth(es, p + 1)
  <2>1. p \in 1 .. n /\ first <= p
    BY <1>1, <1>10 DEF p, n, es
  <2>2. p - a \in 1 .. Len(fs) /\ (p - a) + 1 \in Int /\ (p - a) + 1 >= 1 /\ ((p - a) + 1) + a = p + 1
    BY <1>1, <1>5, <2>1
  <2> QED BY <1>7, <2>1, <2>2
<1>11. ASSUME have_local_fork(d) PROVE ForkKept(d)
  <2>1. have_local_fork(c)
    BY <1>4, <1>11 DEF have_local_fork
  <2>2. /\ p \in 1 .. n /\ first <= p /\ p - a \in 1 .. Len(fs)
        /\ Depth(fs, (p - a) + 1) = Depth(es, p + 1)
    BY <1>10, <2>1
  <2>3. /\ p = 1 => is_undo_point_entry(es[1])
        /\ \A i \in DOMAIN es : i > p => es[i].undo = "Done"
        /\ Depth(es, p + 1) < c.limit
    BY <1>1, <2>1, Zenon DEF ForkKept, p, es
  <2>4. p - a = 1 => is_undo_point_entry(fs[1])
    <3> SUFFICES ASSUME p - a = 1 PROVE is_undo_point_entry(fs[1])
      OBVIOUS
    <3>1. p = first
      BY <1>1, <1>5
    <3>2. CASE first = 1
      BY <1>8, <2>3, <3>1, <3>2
    <3>3. CASE first # 1
      BY <1>8, <2>1, <3>1, <3>3 DEF es, p
    <3> QED BY <3>2, <3>3
  <2>5. \A i \in 1 .. Len(fs) : i > p - a => fs[i].undo = "Done"
    <3> SUFFICES ASSUME NEW i \in 1 .. Len(fs), i > p - a PROVE fs[i].undo = "Done"
      OBVIOUS
    <3>1. i + a \in DOMAIN es /\ i + a > p
      BY <1>1, <1>5
    <3> QED BY <1>3, <2>3, <3>1
  <2>6. DOMAIN fs = 1 .. Len(fs)
    BY <1>3, LenProperties
  <2>7. Depth(fs, (p - a) + 1) < d.limit
    BY <1>4, <2>2, <2>3
  <2> QED BY <1>4, <1>6, <2>4, <2>5, <2>6, <2>7, Zenon DEF ForkKept
<1>12. Kept(d, y)
  BY <1>2, <1>3, <1>4, <1>9, <1>11, Zenon DEF Kept
<1>13. Whole(d, y) = Whole(c, z)
  BY <1>3, <1>4, Zenon DEF Whole, es
<1>14. Since(d) = Since(c)
  <2>1. have_local_fork(d) <=> have_local_fork(c)
    BY <1>4, Zenon DEF have_local_fork
  <2> QED BY <1>4, <1>6, <1>10, <2>1, Zenon DEF Since, p, es
<1>15. Len(d.entries) = n - a
  BY <1>1, <1>4, <1>5
<1> QED BY <1>4, <1>12, <1>13, <1>14, <1>15, Zenon DEF d, y, a, n, es

(* Where truncation begins: at a save point that is deep enough.           *)
LEMMA FirstReachableIs ==
  ASSUME NEW c, Sound(c), NEW stop, stop.at \in 0 .. Len(c.entries) - 1,
         FirstReachable(c, stop) # 1
  PROVE  LET first == FirstReachable(c, stop)
         IN /\ c.entries[first].state # NoState
            /\ \E deep \in 1 .. stop.at : first <= deep /\ Counted(c.entries, stop, deep) >= c.limit
<1> DEFINE es == c.entries
           n == Len(es)
           first == FirstReachable(c, stop)
           D == {i \in 1 .. stop.at : stop.depth + UndoPoints(es, i + 1, stop.at) >= c.limit}
           deep == Latest(D)
           kept == IF have_local_fork(c) /\ deep > fork_start_index(c)
                   THEN fork_start_index(c) ELSE deep
           S == {i \in 1 .. kept : es[i].state # NoState}
           saved == Latest(S)
<1>1. n \in Nat /\ stop.at \in Nat /\ fork_start_index(c) \in Int
  BY HistoryHas
<1>2. first = IF saved > 1 THEN saved ELSE 1
  BY Zenon DEF FirstReachable, search_save_point_index
<1>3. D \subseteq 1 .. stop.at /\ \A i \in D : Counted(es, stop, i) >= c.limit
  BY Zenon DEF Counted
<1>4. \A i \in S : i \in 1 .. kept /\ es[i].state # NoState
  OBVIOUS
<1>5. saved \in S \cup {0} /\ deep \in D \cup {0}
  BY LatestIn
<1> HIDE DEF D, S, deep, saved, first
<1>6. first = saved /\ saved > 1
  BY <1>2 DEF first
<1>7. saved \in S /\ saved \in 1 .. kept /\ es[saved].state # NoState
  BY <1>4, <1>5, <1>6
<1>8. deep \in 0 .. stop.at
  BY <1>1, <1>3, <1>5
<1>9. saved <= deep /\ deep \in D
  <2>1. saved <= deep
    BY <1>1, <1>7, <1>8
  <2> QED BY <1>5, <1>6, <1>7, <1>8, <2>1
<1> QED BY <1>3, <1>6, <1>7, <1>9, Zenon DEF first

(* What an undo point must find: an initial entry that is not of its user, *)
(* or as many undo points as an undo may pass.                             *)
FirstDeep(c) == Initial(c.entries[1]) \/ Depth(c.entries, 2) >= c.limit

(* The last entry is an undo point of a user, and is done.                 *)
EndsInUndoPoint(c) ==
  /\ Len(c.entries) >= 2 /\ LastIsDone(c) /\ is_undo_point_entry(c.entries[Len(c.entries)])
  /\ c.entries[Len(c.entries)].msg.user # Nobody
  /\ FirstDeep(c)

(* The end of the handler: the history is marked and truncated.            *)
LEMMA MarkAndTruncate ==
  ASSUME NEW c, NEW z, Kept(c, z), Right(c, z), EndsInUndoPoint(c)
  PROVE  LET stop == GoneStop(c)
             d == truncate_unreachable(mark_undone_actions_gone(c, stop.at), stop)
             k == d.offset - c.offset
             y == ReplayedTo(c.entries, 0, z, k)
         IN /\ k \in 0 .. Len(c.entries) - 1 /\ Kept(d, y) /\ Right(d, y) /\ d.fork = c.fork
            /\ d.limit = c.limit /\ Since(d) = Since(c) /\ Whole(d, y) = Whole(c, z)
            /\ Len(d.entries) = Len(c.entries) - k
<1> DEFINE es == c.entries
           n == Len(es)
           stop == GoneStop(c)
           e == mark_undone_actions_gone(c, stop.at)
           gs == e.entries
           first == FirstReachable(e, stop)
           d == truncate_history(e, first)
           p == fork_start_index(c)
<1>1. /\ Sound(c) /\ es \in Seq(SoundEntry) /\ es # << >> /\ n \in Nat /\ n >= 2
      /\ DOMAIN es = 1 .. n /\ z \in Canvas /\ c.limit \in Nat /\ p \in Int /\ c.offset \in Nat
      /\ have_local_fork(c) => p \in 1 .. n /\ ForkKept(c)
  BY HistoryHas DEF Kept, EndsInUndoPoint
<1>2. StopsRight(c, stop)
  BY <1>1, GoneStopIs
<1> HIDE DEF stop
<1>3. stop.at \in 0 .. n - 1 /\ stop.at \in Int
  BY <1>1, <1>2 DEF StopsRight
<1>4. stop.at >= 1 \/ es[1].msg.user # es[n].msg.user
  <2>1. CASE Initial(es[1])
    BY <2>1 DEF Initial, EndsInUndoPoint
  <2>2. CASE Depth(es, 2) >= c.limit
    BY <1>1, <1>2, <2>2 DEF StopsRight
  <2> QED BY <2>1, <2>2 DEF EndsInUndoPoint, FirstDeep
<1>5. /\ Kept(e, z) /\ Whole(e, z) = Whole(c, z) /\ SamePlace(c, e)
      /\ e.fork = c.fork /\ e.current = c.current
      /\ Len(gs) = n /\ SameCommands(es, gs)
      /\ \A j \in 1 .. n : /\ gs[j].msg = es[j].msg
                           /\ es[j].undo = "Done" => gs[j].undo = "Done"
                           /\ es[j].undo = "Gone" => gs[j].undo = "Gone"
  BY <1>3, <1>4, GoneKept
<1> HIDE DEF e
<1>6. Sound(e) /\ gs \in Seq(SoundEntry) /\ gs # << >> /\ DOMAIN gs = 1 .. n
  BY <1>5, HistoryHas DEF Kept
<1> HIDE DEF n, es
<1>7. /\ e.limit = c.limit /\ e.offset = c.offset /\ fork_start_index(e) = p
      /\ have_local_fork(e) <=> have_local_fork(c)
  BY <1>5, Zenon DEF SamePlace, fork_start_index, have_local_fork, p
<1> HIDE DEF gs, p
<1>8. ASSUME NEW i \in Int, i >= 1 PROVE Depth(gs, i) = Depth(es, i)
  <2>1. Len(es) = Len(gs) /\ \A j \in 1 .. Len(es) : gs[j].msg = es[j].msg
    BY <1>5 DEF n
  <2> QED BY <1>1, <1>6, <1>8, <2>1, DepthSame
<1>9. first \in 1 .. n /\ (have_local_fork(e) => first <= fork_start_index(e))
  BY <1>3, <1>5, <1>6, FirstReachableType DEF gs
<1>10. ASSUME first # 1
       PROVE  /\ first < n /\ gs[first].state # NoState /\ Depth(gs, first + 1) >= e.limit - 1
              /\ have_local_fork(e) /\ fork_start_index(e) = first
                   => is_undo_point_entry(gs[first])
  <2>1. /\ gs[first].state # NoState
        /\ \E deep \in 1 .. stop.at : first <= deep /\ Counted(gs, stop, deep) >= e.limit
    <3>1. stop.at \in 0 .. Len(e.entries) - 1
      BY <1>3, <1>5 DEF gs
    <3> QED BY <1>6, <1>10, <3>1, FirstReachableIs DEF gs
  <2>2. PICK deep \in 1 .. stop.at : first <= deep /\ Counted(gs, stop, deep) >= c.limit
    BY <1>7, <2>1
  <2> HIDE DEF first
  <2>3. /\ deep \in Int /\ deep + 1 \in Int /\ first + 1 \in Int /\ first + 1 >= 1 /\ deep + 1 >= 1
        /\ first + 1 <= deep + 1 /\ deep + 1 <= n + 1 /\ first < n /\ first \in Int /\ deep <= stop.at
    BY <1>1, <1>3, <1>9, <2>2
  <2>4. Counted(gs, stop, deep) = Counted(es, stop, deep)
    <3> DEFINE at == stop.at
    <3>1. SameUndoPoints(es, gs, 0, deep + 1, at)
      <4> SUFFICES ASSUME NEW j \in deep + 1 .. at
                   PROVE  is_undo_point_entry(es[j]) <=> is_undo_point_entry(gs[j + 0])
        BY Zenon DEF SameUndoPoints
      <4>1. j \in 1 .. n /\ j + 0 = j
        BY <1>1, <1>3, <2>3
      <4>2. gs[j].msg = es[j].msg
        BY <1>5, <4>1
      <4> QED BY <4>1, <4>2 DEF is_undo_point_entry
    <3>2. at \in Int /\ 0 \in Int /\ (deep + 1) + 0 = deep + 1 /\ at + 0 = at
      BY <1>3, <2>3
    <3> HIDE DEF at
    <3>3. UndoPoints(es, deep + 1, at) = UndoPoints(gs, (deep + 1) + 0, at + 0)
      BY <2>3, <3>1, <3>2, UndoPointsAlike
    <3>4. UndoPoints(es, deep + 1, at) = UndoPoints(gs, deep + 1, at)
      BY <3>2, <3>3
    <3> QED BY <3>4, Zenon DEF Counted, at
  <2> DEFINE q == Counted(es, stop, deep)
             x == Depth(es, deep + 1)
             w == Depth(es, first + 1)
  <2>5. q >= c.limit
    BY <2>2, <2>4
  <2>6. q \in Nat /\ (q = x \/ (q <= x + 1 /\ es[stop.at].undo = "Gone"))
    BY <1>2, <2>2, Zenon DEF StopsRight, es
  <2>7. x \in Nat /\ w \in Nat /\ x <= w
    <3>1. x \in Nat /\ w \in Nat
      BY <1>1, <2>3, DepthType
    <3>2. deep + 1 <= Len(es) + 1
      BY <2>3 DEF n
    <3>3. x <= w
      BY <1>1, <2>3, <3>2, DepthGrows
    <3> QED BY <3>1, <3>3
  <2>8. Depth(gs, first + 1) = w
    BY <1>8, <2>3
  <2> HIDE DEF q, x, w
  <2>9. Depth(gs, first + 1) >= e.limit - 1
    BY <1>1, <1>7, <2>5, <2>6, <2>7, <2>8
  <2>10. ASSUME have_local_fork(e), fork_start_index(e) = first
         PROVE  is_undo_point_entry(gs[first])
    <3>1. have_local_fork(c) /\ p = first /\ ForkKept(c)
      BY <1>1, <1>7, <2>10, Zenon
    <3>2. /\ \A i \in 1 .. n : i > first => es[i].undo = "Done"
          /\ w < c.limit
      BY <1>1, <3>1, Zenon DEF ForkKept, p, es, w
    <3>3. q # x
      BY <1>1, <2>5, <2>6, <2>7, <3>2
    <3>4. es[stop.at].undo = "Gone"
      BY <2>6, <3>3
    <3>5. stop.at = first
      <4>1. stop.at \in 1 .. n
        BY <1>1, <1>3, <2>2
      <4>2. ~(stop.at > first)
        BY <3>2, <3>4, <4>1
      <4> QED BY <2>2, <2>3, <4>1, <4>2
    <3>6. gs[first].undo = "Gone"
      BY <1>5, <1>9, <3>4, <3>5
    <3>7. gs[first] \in SoundEntry
      BY <1>5, <1>6, <1>9, ElementOfSeq
    <3>8. gs[first].state = NoState
      BY <3>6, <3>7 DEF SoundEntry, is_valid_save_point_entry
    <3> QED BY <2>1, <3>8
  <2> QED BY <2>1, <2>3, <2>9, <2>10
<1> DEFINE y == ReplayedTo(gs, 0, z, first - 1)
<1>11. /\ Kept(d, y) /\ Whole(d, y) = Whole(e, z)
       /\ d.offset = e.offset + (first - 1) /\ d.fork = e.fork /\ d.limit = e.limit
       /\ d.current = e.current /\ Since(d) = Since(e)
       /\ Len(d.entries) = n - (first - 1)
  <2> HIDE DEF first
  <2>1. first \in 1 .. Len(e.entries)
    BY <1>5, <1>9 DEF gs
  <2>2. first # 1 => /\ first < Len(e.entries) /\ e.entries[first].state # NoState
                     /\ Depth(e.entries, first + 1) >= e.limit - 1
                     /\ have_local_fork(e) /\ fork_start_index(e) = first
                          => is_undo_point_entry(e.entries[first])
    BY <1>5, <1>10 DEF gs
  <2> HIDE DEF d, y
  <2>3. /\ Kept(d, y) /\ Whole(d, y) = Whole(e, z)
        /\ d.offset = e.offset + (first - 1) /\ d.fork = e.fork /\ d.limit = e.limit
        /\ d.current = e.current /\ Since(d) = Since(e)
        /\ Len(d.entries) = Len(e.entries) - (first - 1)
    BY <1>5, <1>9, <2>1, <2>2, TruncateKept DEF d, y, gs
  <2> QED BY <1>5, <2>3 DEF gs
<1> HIDE DEF d, y, first
<1> DEFINE k == d.offset - c.offset
           v == ReplayedTo(es, 0, z, k)
<1>12. k = first - 1 /\ k \in 0 .. n - 1 /\ k \in 0 .. n
  BY <1>1, <1>7, <1>9, <1>11
<1>13. y = v
  <2>1. \A j \in 1 .. n : SameDraw(es[j], gs[j])
    BY <1>5, Zenon DEF SameCommands, n
  <2>2. Len(es) = Len(gs) /\ \A j \in 1 .. Len(es) : SameDraw(es[j], gs[j])
    BY <1>5, <2>1 DEF n
  <2>3. \A i \in 0 .. Len(es) : ReplayedTo(gs, 0, z, i) = ReplayedTo(es, 0, z, i)
    BY <1>1, <1>6, <2>2, CoherentSame
  <2> HIDE DEF k
  <2> QED BY <1>12, <2>3, Zenon DEF y, v, n
<1>14. Right(d, v)
  BY <1>5, <1>11, <1>13, Zenon DEF Right, View
<1>15. Since(e) = Since(c)
  BY <1>1, <1>7, <1>8 DEF Since, p, gs, es
<1>16. truncate_unreachable(e, stop) = d
  BY Zenon DEF truncate_unreachable, d, first
<1>17. Len(d.entries) = n - k
  BY <1>11, <1>12
<1>18. /\ k \in 0 .. n - 1 /\ Kept(d, v) /\ Right(d, v) /\ d.fork = c.fork
       /\ d.limit = c.limit /\ Since(d) = Since(c) /\ Len(d.entries) = n - k
       /\ Whole(d, v) = Whole(c, z)
  BY <1>5, <1>7, <1>11, <1>12, <1>13, <1>14, <1>15, <1>17, Zenon
<1> QED BY <1>16, <1>18, Zenon DEF k, v, e, stop, n, es

(* An undo point keeps the history right.                                  *)
LEMMA HandleUndoPointKept ==
  ASSUME NEW c, NEW z, Kept(c, z), Right(c, z), EndsInUndoPoint(c)
  PROVE  LET d == handle_undo_point(c)
             k == d.offset - c.offset
             y == ReplayedTo(c.entries, 0, z, k)
         IN /\ k \in 0 .. Len(c.entries) - 1 /\ Kept(d, y) /\ Right(d, y) /\ d.fork = c.fork
            /\ d.limit = c.limit /\ Since(d) = Since(c) /\ Whole(d, y) = Whole(c, z)
            /\ Len(d.entries) = Len(c.entries) - k
<1> DEFINE s == make_save_point(c, Len(c.entries))
<1>1. CASE have_local_fork(c)
  <2>1. handle_undo_point(c) = truncate_unreachable(mark_undone_actions_gone(c, GoneStop(c).at), GoneStop(c))
    BY <1>1, Zenon DEF handle_undo_point
  <2> QED BY <2>1, MarkAndTruncate
<1>2. CASE ~have_local_fork(c)
  <2>1. handle_undo_point(c) = truncate_unreachable(mark_undone_actions_gone(s, GoneStop(s).at), GoneStop(s))
    BY <1>2, Zenon DEF handle_undo_point
  <2> DEFINE n == Len(c.entries)
  <2>2. /\ Sound(c) /\ c.entries \in Seq(SoundEntry) /\ n \in Nat /\ n \in 1 .. n /\ c.fork = << >>
        /\ z \in Canvas /\ 1 \in 1 .. n /\ n >= 2
    BY <1>2, HistoryHas DEF Kept, have_local_fork, EndsInUndoPoint
  <2>3. is_valid_save_point_entry(c.entries[n]) /\ \A j \in n + 1 .. n : ~DoneDraw(c.entries[j])
    BY <2>2 DEF EndsInUndoPoint, LastIsDone, is_valid_save_point_entry
  <2> HIDE DEF n, s
  <2>4. /\ Kept(s, z) /\ Whole(s, z) = Whole(c, z) /\ s.fork = c.fork
        /\ SamePlace(c, s) /\ s.current = c.current
        /\ Len(s.entries) = Len(c.entries)
        /\ \A j \in 1 .. Len(c.entries) :
             s.entries[j].undo = c.entries[j].undo /\ s.entries[j].msg = c.entries[j].msg
    BY <2>2, <2>3, MakeSavePointKept DEF n, s
  <2>5. s.entries \in Seq(SoundEntry) /\ Sound(s)
    BY <2>4, HistoryHas DEF Kept
  <2>6. Depth(s.entries, 2) = Depth(c.entries, 2)
    <3>1. 2 \in Int /\ 2 >= 1
      OBVIOUS
    <3> QED BY <2>2, <2>4, <2>5, <3>1, DepthSame
  <2>7. EndsInUndoPoint(s)
    <3>1. n \in 1 .. Len(c.entries) /\ 1 \in 1 .. Len(c.entries) /\ Len(s.entries) = n
      BY <2>2, <2>4 DEF n
    <3>2. /\ s.entries[n].undo = c.entries[n].undo /\ s.entries[n].msg = c.entries[n].msg
          /\ s.entries[1].msg = c.entries[1].msg /\ s.limit = c.limit
      BY <2>4, <3>1, Zenon DEF SamePlace
    <3> QED BY <2>6, <3>1, <3>2, Zenon DEF EndsInUndoPoint, LastIsDone, FirstDeep, Initial,
                                         is_undo_point_entry, n
  <2>8. Right(s, z)
    BY <2>4, Zenon DEF Right, View
  <2> DEFINE d == truncate_unreachable(mark_undone_actions_gone(s, GoneStop(s).at), GoneStop(s))
             k == d.offset - s.offset
             y == ReplayedTo(s.entries, 0, z, k)
  <2>9. /\ k \in 0 .. Len(s.entries) - 1 /\ Kept(d, y) /\ Right(d, y) /\ d.fork = s.fork
        /\ d.limit = s.limit /\ Since(d) = Since(s) /\ Whole(d, y) = Whole(s, z)
        /\ Len(d.entries) = Len(s.entries) - k
    BY <2>4, <2>7, <2>8, MarkAndTruncate
  <2> HIDE DEF d
  <2>10. y = ReplayedTo(c.entries, 0, z, k)
    <3>1. Len(c.entries) = Len(s.entries)
          /\ \A j \in 1 .. Len(c.entries) : SameDraw(c.entries[j], s.entries[j])
      BY <2>4, Zenon DEF SameDraw, DoneDraw
    <3>2. \A i \in 0 .. Len(c.entries) : ReplayedTo(s.entries, 0, z, i) = ReplayedTo(c.entries, 0, z, i)
      BY <2>2, <2>5, <3>1, CoherentSame
    <3>3. k \in 0 .. Len(c.entries)
      BY <2>2, <2>4, <2>9 DEF n
    <3> HIDE DEF k
    <3> QED BY <3>2, <3>3, Zenon
  <2>11. s.offset = c.offset /\ s.limit = c.limit /\ Since(s) = Since(c)
    BY <1>2, <2>4, Zenon DEF SamePlace, Since, have_local_fork
  <2>12. handle_undo_point(c) = d
    BY <2>1, Zenon DEF d
  <2> DEFINE l == d.offset - c.offset
             v == ReplayedTo(c.entries, 0, z, l)
  <2>13. l = k /\ v = y
    BY <2>10, <2>11, Zenon
  <2> HIDE DEF k, y, l, v
  <2>14. /\ l \in 0 .. Len(c.entries) - 1 /\ Kept(d, v) /\ Right(d, v) /\ d.fork = c.fork
         /\ d.limit = c.limit /\ Since(d) = Since(c) /\ Len(d.entries) = Len(c.entries) - l
         /\ Whole(d, v) = Whole(c, z)
    BY <2>4, <2>9, <2>11, <2>13, Zenon
  <2> QED BY <2>12, <2>14, Zenon DEF l, v
<1> QED BY <1>1, <1>2

----------------------------------------------------------------------------
(***************************************************************************)
(* Commands from the server.                                               *)
(***************************************************************************)

(* The same commands, undone alike.                                        *)
SameMarks(es, fs) ==
  /\ Len(fs) = Len(es)
  /\ \A j \in 1 .. Len(es) : fs[j].undo = es[j].undo /\ fs[j].msg = es[j].msg

(* What depends on the commands and their marks only.                      *)
LEMMA PlaceAlike ==
  ASSUME NEW c, Sound(c), NEW d, Sound(d), SamePlace(c, d), SameMarks(c.entries, d.entries),
         have_local_fork(d) => have_local_fork(c)
  PROVE  /\ Since(d) \in {0, Since(c)}
         /\ EndsInUndoPoint(c) => EndsInUndoPoint(d)
         /\ ForkPoint(c) => ForkPoint(d)
<1> DEFINE es == c.entries
           fs == d.entries
           n == Len(es)
           p == fork_start_index(c)
<1>1. /\ es \in Seq(SoundEntry) /\ fs \in Seq(SoundEntry) /\ n \in Nat /\ n >= 1 /\ Len(fs) = n
      /\ 1 \in 1 .. n /\ n \in 1 .. n /\ p \in Int
      /\ have_local_fork(c) => p \in 1 .. n
  BY HistoryHas DEF SameMarks
<1>2. \A j \in 1 .. n : fs[j].undo = es[j].undo /\ fs[j].msg = es[j].msg
  BY Zenon DEF SameMarks
<1>3. fork_start_index(d) = p /\ d.limit = c.limit /\ d.offset = c.offset /\ d.forkStart = c.forkStart
  BY Zenon DEF SamePlace, fork_start_index
<1> HIDE DEF es, fs, n, p
<1>4. ASSUME NEW i \in Int, i >= 1 PROVE Depth(fs, i) = Depth(es, i)
  <2>1. Len(es) = Len(fs) /\ \A j \in 1 .. Len(es) : fs[j].msg = es[j].msg
    BY <1>1, <1>2 DEF n
  <2> QED BY <1>1, <1>4, <2>1, DepthSame
<1>5. Since(d) \in {0, Since(c)}
  <2>1. CASE ~have_local_fork(d)
    BY <2>1, Zenon DEF Since
  <2>2. CASE have_local_fork(d)
    <3>1. have_local_fork(c) /\ p + 1 \in Int /\ p + 1 >= 1
      BY <1>1, <2>2
    <3>2. Depth(fs, p + 1) = Depth(es, p + 1)
      BY <1>4, <3>1
    <3> QED BY <1>3, <2>2, <3>1, <3>2, Zenon DEF Since, p, es, fs
  <2> QED BY <2>1, <2>2
<1>6. ASSUME EndsInUndoPoint(c) PROVE EndsInUndoPoint(d)
  <2>1. Depth(fs, 2) = Depth(es, 2)
    <3>1. 2 \in Int /\ 2 >= 1
      OBVIOUS
    <3> QED BY <1>4, <3>1
  <2>2. /\ fs[n].undo = es[n].undo /\ fs[n].msg = es[n].msg /\ fs[1].msg = es[1].msg
    BY <1>1, <1>2, Zenon
  <2> QED BY <1>1, <1>3, <1>6, <2>1, <2>2, Zenon DEF EndsInUndoPoint, LastIsDone, FirstDeep, Initial,
                                                    is_undo_point_entry, n, es, fs
<1>7. ForkPoint(c) => ForkPoint(d)
  BY <1>1, <1>3, Zenon DEF ForkPoint, n, es, fs
<1> QED BY <1>5, <1>6, <1>7, Zenon

(* Entries are marked as they are.                                         *)
LEMMA MarksSame == ASSUME NEW es PROVE SameMarks(es, es)
  BY Zenon DEF SameMarks

(* How many undo points the fork has seen after the command.               *)
SinceAfter(c, m) == Since(c) + (IF have_local_fork(c) /\ m.type = "UndoPoint" THEN 1 ELSE 0)

(* What the commands draw after the command.                               *)
DrawnAfter(cs, m) == IF IsDraw(m) THEN DrawOne(cs, m) ELSE cs

(* The command is part of the history.                                     *)
LEMMA AppendRemote ==
  ASSUME NEW c, NEW z, Kept(c, z), NEW m \in Message, m.type = "UndoPoint" => m.user # Nobody,
         have_local_fork(c) => SinceAfter(c, m) < c.limit
  PROVE  LET d == maybe_append_to_history(c, m)
         IN /\ Kept(d, z) /\ Whole(d, z) = DrawnAfter(Whole(c, z), m)
            /\ d.fork = c.fork /\ d.current = c.current /\ SamePlace(c, d)
            /\ d.forkAtUndoPoint = c.forkAtUndoPoint /\ d.fallbehind = c.fallbehind
            /\ Since(d) = SinceAfter(c, m)
            /\ m.type = "UndoPoint" => EndsInUndoPoint(d)
<1> DEFINE es == c.entries
           n == Len(es)
           done == "Done"
           e == [undo |-> done, msg |-> m, state |-> NoState]
           a == append_to_history(c, m, done)
           d == maybe_append_to_history(c, m)
           fs == a.entries
           p == fork_start_index(c)
<1>1. /\ Sound(c) /\ es \in Seq(SoundEntry) /\ n \in Nat /\ n >= 1 /\ 1 \in 1 .. n
      /\ c.limit \in Nat /\ p \in Int /\ Rooted(es, c.limit)
      /\ have_local_fork(c) => p \in 1 .. n
  BY HistoryHas DEF Kept
<1>2. m.type \in {"UndoPoint", "Undo", "Redo", "Draw"}
  BY DEF Message
<1>3. CASE IsUndo(m)
  <2>1. d = c
    BY <1>3, Zenon DEF maybe_append_to_history
  <2>2. ~IsDraw(m) /\ m.type # "UndoPoint"
    BY <1>3 DEF IsUndo, IsDraw
  <2>3. SinceAfter(c, m) = Since(c)
    <3>1. Since(c) \in Nat
      <4>1. have_local_fork(c) => Depth(es, p + 1) \in Nat
        <5>1. p + 1 \in Int
          BY <1>1
        <5> QED BY <1>1, <5>1, DepthType
      <4> QED BY <4>1 DEF Since
    <3> QED BY <2>2, <3>1 DEF SinceAfter
  <2> QED BY <2>1, <2>2, <2>3, Zenon DEF SamePlace, DrawnAfter
<1>4. CASE ~IsUndo(m)
  <2>1. d = a /\ done \in {"Done", "Undone"} /\ done = "Done"
    BY <1>4, Zenon DEF maybe_append_to_history
  <2> HIDE DEF d, done
  <2>2. /\ fs = Append(es, e) /\ e \in SoundEntry
        /\ SamePlace(c, a) /\ a.fork = c.fork /\ a.current = c.current
        /\ a.forkAtUndoPoint = c.forkAtUndoPoint /\ a.fallbehind = c.fallbehind
    BY <1>1, <2>1, AppendIs
  <2>3. /\ Len(fs) = n + 1 /\ fs[n + 1] = e /\ fs[1] = es[1]
    BY <1>1, <2>2
  <2>4. fork_start_index(a) = p /\ (have_local_fork(a) <=> have_local_fork(c)) /\ a.limit = c.limit
    BY <2>2, Zenon DEF SamePlace, fork_start_index, have_local_fork
  <2>5. is_undo_point_entry(e) <=> m.type = "UndoPoint"
    BY DEF is_undo_point_entry
  <2>6. e.undo = "Done" /\ e.msg = m
    BY <2>1
  <2> HIDE DEF a, e
  <2>7. ASSUME have_local_fork(c)
        PROVE  /\ Since(a) = SinceAfter(c, m)
               /\ SinceAfter(c, m) = Depth(es, p + 1) + (IF m.type = "UndoPoint" THEN 1 ELSE 0)
    <3>1. p + 1 \in 1 .. Len(es) + 1 /\ p + 1 \in Int
      BY <1>1, <2>7
    <3>2. Depth(fs, p + 1) = Depth(es, p + 1) + (IF is_undo_point_entry(e) THEN 1 ELSE 0)
      BY <1>1, <2>2, <3>1, DepthAppend
    <3> QED BY <2>4, <2>5, <2>7, <3>2, Zenon DEF Since, SinceAfter, p, fs, es
  <2>8. Since(a) = SinceAfter(c, m)
    <3>1. CASE have_local_fork(c)
      BY <2>7, <3>1
    <3>2. CASE ~have_local_fork(c)
      BY <2>4, <3>2 DEF Since, SinceAfter
    <3> QED BY <3>1, <3>2
  <2>9. have_local_fork(c) /\ m.type = "UndoPoint" => Depth(es, p + 1) + 1 < c.limit
    BY <2>7
  <2>10. Kept(a, z) /\ Whole(a, z) = DrawnAfter(Whole(c, z), m)
    BY <2>1, <2>9, AppendKept, Zenon DEF a, DrawnAfter, p, es
  <2>11. ASSUME m.type = "UndoPoint" PROVE EndsInUndoPoint(a)
    <3>1. FirstDeep(a)
      <4>1. CASE Initial(es[1])
        BY <2>3, <4>1 DEF FirstDeep
      <4>2. CASE n >= 2 /\ Depth(es, 2) >= c.limit - 1
        <5>1. 2 \in 1 .. Len(es) + 1 /\ 2 \in Int
          BY <1>1, <4>2
        <5>2. Depth(fs, 2) = Depth(es, 2) + (IF is_undo_point_entry(e) THEN 1 ELSE 0)
          BY <1>1, <2>2, <5>1, DepthAppend
        <5>3. Depth(es, 2) \in Nat
          BY <1>1, <5>1, DepthType
        <5> QED BY <1>1, <2>4, <2>5, <2>11, <4>2, <5>2, <5>3 DEF FirstDeep
      <4> QED BY <1>1, <4>1, <4>2 DEF Rooted
    <3>2. Len(fs) >= 2 /\ Len(fs) = n + 1
      BY <1>1, <2>3
    <3> QED BY <2>3, <2>5, <2>6, <2>11, <3>1, <3>2, Zenon DEF EndsInUndoPoint, LastIsDone
  <2> QED BY <2>1, <2>2, <2>8, <2>10, <2>11, Zenon DEF d
<1> QED BY <1>3, <1>4

(* What a client may count on when a command arrives: undo points have a   *)
(* user, the fork is short enough to be in reach, an own command that      *)
(* matches is the one that was drawn, and a fork that seems concurrent     *)
(* with the command is.                                                    *)
Expected(c, m, stray) ==
  /\ m.type = "UndoPoint" => m.user # Nobody
  /\ have_local_fork(c) => SinceAfter(c, m) < c.limit
  /\ have_local_fork(c) /\ IsDraw(m) =>
       IF m.user = Head(c.fork).user THEN match_message(m, Head(c.fork)) => m = Head(c.fork)
       ELSE fork_entries_concurrent_with(c, stray) => AllApart(c.fork, m)

(* The same commands and canvas, states and fork aside.                    *)
Trimmed(c, d, z) ==
  /\ Kept(d, z) /\ Whole(d, z) = Whole(c, z) /\ SamePlace(c, d)
  /\ SameMarks(c.entries, d.entries) /\ d.current = c.current
  /\ have_local_fork(d) => have_local_fork(c)

(* What then also stays.                                                   *)
LEMMA TrimmedIs ==
  ASSUME NEW c, NEW z, Kept(c, z), NEW d, Trimmed(c, d, z)
  PROVE  /\ Since(d) \in {0, Since(c)}
         /\ EndsInUndoPoint(c) => EndsInUndoPoint(d)
         /\ ForkPoint(c) => ForkPoint(d)
<1>1. Sound(c) /\ Sound(d) /\ SamePlace(c, d) /\ SameMarks(c.entries, d.entries)
      /\ (have_local_fork(d) => have_local_fork(c))
  BY Zenon DEF Kept, Trimmed
<1> QED BY <1>1, PlaceAlike

(* The fork, kept or dropped, after it fell behind.                        *)
LEMMA TrimBehind ==
  ASSUME NEW c, NEW z, Kept(c, z), NEW n \in Nat
  PROVE  LET d == [c EXCEPT !.fallbehind = n]
         IN Trimmed(c, d, z) /\ d.fork = c.fork
<1> DEFINE d == [c EXCEPT !.fallbehind = n]
<1>1. /\ Kept(d, z) /\ Whole(d, z) = Whole(c, z) /\ d.fork = c.fork
      /\ d.entries = c.entries /\ SamePlace(c, d) /\ d.current = c.current
  BY FallBehindKept
<1> HIDE DEF d
<1>2. SameMarks(c.entries, c.entries)
  BY MarksSame
<1> QED BY <1>1, <1>2, Zenon DEF Trimmed, have_local_fork, d

(* The fork that fell too far behind, dropped.                             *)
LEMMA TrimDropped ==
  ASSUME NEW c, NEW z, Kept(c, z), NEW n \in Nat
  PROVE  LET d == [[c EXCEPT !.fork = << >>] EXCEPT !.fallbehind = n]
         IN Trimmed(c, d, z)
<1> DEFINE f == [c EXCEPT !.fork = << >>]
           d == [f EXCEPT !.fallbehind = n]
<1>1. /\ Kept(f, z) /\ Whole(f, z) = Whole(c, z) /\ f.fork = << >>
      /\ f.entries = c.entries /\ SamePlace(c, f) /\ f.current = c.current
  BY ForkDropped
<1> HIDE DEF f
<1>2. /\ Kept(d, z) /\ Whole(d, z) = Whole(f, z) /\ d.fork = f.fork
      /\ d.entries = f.entries /\ SamePlace(f, d) /\ d.current = f.current
  BY <1>1, FallBehindKept
<1> HIDE DEF d
<1>3. SameMarks(c.entries, c.entries)
  BY MarksSame
<1>4. SamePlace(c, d) /\ d.fork = << >> /\ d.entries = c.entries /\ d.current = c.current
      /\ Whole(d, z) = Whole(c, z)
  BY <1>1, <1>2, Zenon DEF SamePlace
<1> QED BY <1>2, <1>3, <1>4, Zenon DEF Trimmed, have_local_fork, d, f

(* The fork without the command that came back.                            *)
LEMMA TrimShifted ==
  ASSUME NEW c, NEW z, Kept(c, z), have_local_fork(c)
  PROVE  LET f == [c EXCEPT !.fork = Tail(@)]
             d == IF Len(c.fork) = 1 THEN clear_fork_fallbehind(f) ELSE f
         IN Trimmed(c, d, z) /\ d.fork = Tail(c.fork)
<1> DEFINE f == [c EXCEPT !.fork = Tail(@)]
           d == IF Len(c.fork) = 1 THEN clear_fork_fallbehind(f) ELSE f
<1>1. /\ Kept(f, z) /\ Whole(f, z) = Whole(c, z) /\ f.fork = Tail(c.fork)
      /\ f.entries = c.entries /\ SamePlace(c, f) /\ f.current = c.current
  BY ForkShifted
<1> HIDE DEF f
<1>2. SameMarks(c.entries, c.entries)
  BY MarksSame
<1>3. Trimmed(c, f, z)
  BY <1>1, <1>2, Zenon DEF Trimmed
<1>4. CASE Len(c.fork) = 1
  <2>1. ForkKept(c) /\ ForkPoint(c)
    BY HistoryHas DEF Kept
  <2>2. ForkPoint(f) /\ fork_start_index(f) = fork_start_index(c)
    BY <1>1, <2>1, Zenon DEF ForkPoint, SamePlace, fork_start_index
  <2>3. fork_start_index(f) = 1 => is_undo_point_entry(f.entries[1])
    BY <1>1, <2>1, <2>2, Zenon DEF ForkKept
  <2> DEFINE g == clear_fork_fallbehind(f)
  <2>4. /\ Kept(g, z) /\ Whole(g, z) = Whole(f, z) /\ g.fork = f.fork
        /\ SamePlace(f, g) /\ g.current = f.current
        /\ Len(g.entries) = Len(f.entries)
        /\ \A j \in 1 .. Len(f.entries) :
             g.entries[j].undo = f.entries[j].undo /\ g.entries[j].msg = f.entries[j].msg
    BY <1>1, <2>2, <2>3, ClearForkFallbehindKept
  <2> HIDE DEF g
  <2>5. SameMarks(c.entries, g.entries) /\ SamePlace(c, g)
    BY <1>1, <2>4, Zenon DEF SameMarks, SamePlace
  <2>6. Trimmed(c, g, z) /\ g.fork = Tail(c.fork)
    BY <1>1, <2>4, <2>5, Zenon DEF Trimmed
  <2> QED BY <1>4, <2>6, Zenon DEF g, f
<1>5. CASE Len(c.fork) # 1
  BY <1>1, <1>3, <1>5, Zenon DEF f
<1> QED BY <1>4, <1>5

(* The history reconciled: it has the command, and the canvas is what it   *)
(* shows but for what is left to do.                                       *)
Matched(c, z, m, r) ==
  /\ Kept(r.ch, z) /\ r.ch.offset = c.offset /\ r.ch.limit = c.limit
  /\ r.ch.current = c.current /\ SameMarks(maybe_append_to_history(c, m).entries, r.ch.entries)
  /\ Whole(r.ch, z) = DrawnAfter(Whole(c, z), m)
  /\ Since(r.ch) \in {0, SinceAfter(c, m)}
  /\ r.action \in {"Concurrent", "Rollback", "AlreadyDone"}
  /\ r.action = "Rollback" => ForkPoint(r.ch)
  /\ r.action = "AlreadyDone" => View(r.ch, z) = View(c, z) /\ IsDraw(m)
  /\ r.action = "Concurrent" => View(r.ch, z) = DrawnAfter(View(c, z), m)
  /\ r.action = "Concurrent" /\ m.type = "UndoPoint" => EndsInUndoPoint(r.ch)

(* The same for a trimmed history, by what is left to do.                  *)
LEMMA MatchedIs ==
  ASSUME NEW c, NEW z, Kept(c, z), NEW m \in Message,
         m.type = "UndoPoint" => m.user # Nobody,
         have_local_fork(c) => SinceAfter(c, m) < c.limit,
         NEW r, Trimmed(maybe_append_to_history(c, m), r.ch, z),
         r.action \in {"Concurrent", "Rollback", "AlreadyDone"},
         r.action = "Rollback" => have_local_fork(c),
         r.action = "AlreadyDone" => View(r.ch, z) = View(c, z) /\ IsDraw(m),
         r.action = "Concurrent" => View(r.ch, z) = DrawnAfter(View(c, z), m)
  PROVE  Matched(c, z, m, r)
<1> DEFINE d == maybe_append_to_history(c, m)
<1>1. /\ Kept(d, z) /\ Whole(d, z) = DrawnAfter(Whole(c, z), m)
      /\ d.fork = c.fork /\ d.current = c.current /\ SamePlace(c, d)
      /\ Since(d) = SinceAfter(c, m)
      /\ m.type = "UndoPoint" => EndsInUndoPoint(d)
  BY AppendRemote
<1>2. Trimmed(d, r.ch, z)
  OBVIOUS
<1> HIDE DEF d
<1>3. /\ Since(r.ch) \in {0, Since(d)}
      /\ EndsInUndoPoint(d) => EndsInUndoPoint(r.ch)
      /\ ForkPoint(d) => ForkPoint(r.ch)
  BY <1>1, <1>2, TrimmedIs
<1>4. have_local_fork(c) => ForkPoint(d)
  <2>1. Sound(d) /\ (have_local_fork(c) => have_local_fork(d))
    BY <1>1, Zenon DEF Kept, have_local_fork
  <2> QED BY <2>1, HistoryHas
<1>5. /\ Kept(r.ch, z) /\ Whole(r.ch, z) = Whole(d, z) /\ r.ch.offset = c.offset
      /\ r.ch.limit = c.limit /\ r.ch.current = c.current
      /\ SameMarks(d.entries, r.ch.entries)
  BY <1>1, <1>2, Zenon DEF Trimmed, SamePlace
<1> QED BY <1>1, <1>3, <1>4, <1>5, Zenon DEF Matched, d

(* Reconciling keeps the history, and says truly what is left to do.       *)
LEMMA ReconcileMatched ==
  ASSUME NEW c, NEW z, Kept(c, z), NEW m \in Message, NEW isDrawing, NEW stray,
         Expected(c, m, stray)
  PROVE  Matched(c, z, m, reconcile_remote_command(c, m, isDrawing, stray))
<1> DEFINE d == maybe_append_to_history(c, m)
           zero == 0
           behind == d.fallbehind + 1
           dropped == [[d EXCEPT !.fork = << >>] EXCEPT !.fallbehind = zero]
           left == [[d EXCEPT !.fork = << >>] EXCEPT !.fallbehind = behind]
           stays == [d EXCEPT !.fallbehind = behind]
           f == [d EXCEPT !.fork = Tail(@)]
           shifted == IF Len(d.fork) = 1 THEN clear_fork_fallbehind(f) ELSE f
           r == reconcile_remote_command(c, m, isDrawing, stray)
           own == m.user = Head(c.fork).user
           ok == /\ Trimmed(d, r.ch, z)
                 /\ r.action \in {"Concurrent", "Rollback", "AlreadyDone"}
                 /\ r.action = "Rollback" => have_local_fork(c)
                 /\ r.action = "AlreadyDone" => View(r.ch, z) = View(c, z) /\ IsDraw(m)
                 /\ r.action = "Concurrent" => View(r.ch, z) = DrawnAfter(View(c, z), m)
<1>1. /\ m.type = "UndoPoint" => m.user # Nobody
      /\ have_local_fork(c) => SinceAfter(c, m) < c.limit
  BY Zenon DEF Expected
<1>2. /\ Kept(d, z) /\ Whole(d, z) = DrawnAfter(Whole(c, z), m) /\ d.fork = c.fork
  BY <1>1, AppendRemote
<1>3. Sound(c) /\ c.fork \in Seq(Message) /\ z \in Canvas /\ Sound(d)
  BY <1>2, HistoryHas DEF Kept
<1>4. Whole(c, z) \in Canvas
  BY <1>3, WholeType
<1>5. zero \in Nat /\ behind \in Nat
  BY <1>3 DEF Sound, SoundHistory
<1>6. have_local_fork(d) <=> have_local_fork(c)
  BY <1>2, Zenon DEF have_local_fork
<1>7. r = IF ~have_local_fork(c) THEN [ch |-> d, action |-> "Concurrent"]
          ELSE IF own THEN
            IF match_message(m, Head(c.fork))
            THEN [ch     |-> IF Len(c.fork) = 1
                             THEN clear_fork_fallbehind(f) ELSE f,
                  action |-> IF IsDraw(m) THEN "AlreadyDone" ELSE "Concurrent"]
            ELSE [ch |-> dropped, action |-> "Rollback"]
          ELSE IF behind >= MAX_FALLBEHIND THEN [ch |-> dropped, action |-> "Rollback"]
          ELSE IF fork_entries_concurrent_with(c, stray)
          THEN [ch |-> stays, action |-> "Concurrent"]
          ELSE [ch |-> [(IF isDrawing THEN d ELSE [d EXCEPT !.fork = << >>]) EXCEPT !.fallbehind = behind],
                action |-> "Rollback"]
  BY Zenon DEF reconcile_remote_command
<1> HIDE DEF d, zero, behind, r, f
<1>8. Trimmed(d, dropped, z) /\ Trimmed(d, left, z)
  BY <1>2, <1>5, TrimDropped
<1>9. Trimmed(d, stays, z) /\ stays.fork = c.fork
  BY <1>2, <1>5, TrimBehind
<1> HIDE DEF dropped, left, stays
<1>10. ASSUME ~have_local_fork(c) PROVE ok
  <2>1. r = [ch |-> d, action |-> "Concurrent"]
    BY <1>7, <1>10, Zenon
  <2>2. r.ch = d /\ r.action = "Concurrent"
    BY <2>1
  <2>3. SameMarks(d.entries, d.entries)
    BY MarksSame
  <2>4. Trimmed(d, d, z)
    BY <1>2, <2>3, Zenon DEF Trimmed, SamePlace
  <2>5. View(d, z) = DrawnAfter(View(c, z), m)
    <3>1. d.fork = << >> /\ c.fork = << >>
      BY <1>2, <1>10, Zenon DEF have_local_fork
    <3>2. Whole(d, z) \in Canvas
      BY <1>3, WholeType
    <3>3. View(d, z) = Whole(d, z) /\ View(c, z) = Whole(c, z)
      BY <1>4, <3>1, <3>2, ShownNothing, Zenon DEF View
    <3> QED BY <1>2, <3>3, Zenon
  <2> QED BY <2>2, <2>4, <2>5
<1>11. ASSUME have_local_fork(c), own, match_message(m, Head(c.fork)) PROVE ok
  <2> DEFINE g == IF Len(c.fork) = 1 THEN clear_fork_fallbehind(f) ELSE f
  <2>1. r = [ch |-> g, action |-> IF IsDraw(m) THEN "AlreadyDone" ELSE "Concurrent"]
    BY <1>7, <1>11, Zenon
  <2>2. Trimmed(d, g, z) /\ g.fork = Tail(c.fork)
    <3>1. Trimmed(d, shifted, z) /\ shifted.fork = Tail(d.fork)
      BY <1>2, <1>6, <1>11, TrimShifted DEF f
    <3>2. shifted = g
      BY <1>2, Zenon
    <3> HIDE DEF g, shifted
    <3> QED BY <1>2, <3>1, <3>2, Zenon
  <2> HIDE DEF g
  <2>3. r.ch = g /\ r.action = IF IsDraw(m) THEN "AlreadyDone" ELSE "Concurrent"
    BY <2>1
  <2>4. c.fork # << >>
    BY <1>11 DEF have_local_fork
  <2>5. /\ Tail(c.fork) \in Seq(Message) /\ Head(c.fork) \in Message
        /\ View(c, z) = Shown(DrawnAfter(Whole(c, z), Head(c.fork)), Tail(c.fork))
    BY <1>3, <1>4, <2>4, ShownTail, Zenon DEF View, DrawnAfter
  <2>6. View(g, z) = Shown(DrawnAfter(Whole(c, z), m), Tail(c.fork))
    BY <1>2, <2>2, Zenon DEF View, Trimmed
  <2>7. CASE IsDraw(m)
    <3>1. m = Head(c.fork)
      BY <1>11, <2>7, Zenon DEF Expected
    <3> QED BY <2>2, <2>3, <2>5, <2>6, <2>7, <3>1
  <2>8. CASE ~IsDraw(m)
    <3>1. ~IsDraw(Head(c.fork))
      BY <1>11, <2>8 DEF match_message, IsDraw
    <3>2. View(g, z) = View(c, z) /\ DrawnAfter(View(c, z), m) = View(c, z)
      BY <2>5, <2>6, <2>8, <3>1, Zenon DEF DrawnAfter
    <3> QED BY <2>2, <2>3, <2>8, <3>2
  <2> QED BY <2>7, <2>8
<1>12. ASSUME have_local_fork(c), own, ~match_message(m, Head(c.fork)) PROVE ok
  <2>1. r = [ch |-> dropped, action |-> "Rollback"]
    BY <1>7, <1>12, Zenon
  <2>2. r.ch = dropped /\ r.action = "Rollback"
    BY <2>1
  <2> QED BY <1>8, <1>12, <2>2
<1>13. ASSUME have_local_fork(c), ~own, behind >= MAX_FALLBEHIND PROVE ok
  <2>1. r = [ch |-> dropped, action |-> "Rollback"]
    BY <1>7, <1>13, Zenon
  <2>2. r.ch = dropped /\ r.action = "Rollback"
    BY <2>1
  <2> QED BY <1>8, <1>13, <2>2
<1>14. ASSUME have_local_fork(c), ~own, ~(behind >= MAX_FALLBEHIND),
              fork_entries_concurrent_with(c, stray)
       PROVE  ok
  <2>1. r = [ch |-> stays, action |-> "Concurrent"]
    BY <1>7, <1>14, Zenon
  <2>2. r.ch = stays /\ r.action = "Concurrent"
    BY <2>1
  <2>3. View(stays, z) = Shown(DrawnAfter(Whole(c, z), m), c.fork)
    BY <1>2, <1>9, Zenon DEF View, Trimmed
  <2>4. View(stays, z) = DrawnAfter(View(c, z), m)
    <3>1. CASE IsDraw(m)
      <4>1. AllApart(c.fork, m)
        BY <1>14, <3>1, Zenon DEF Expected
      <4>2. DrawOne(Shown(Whole(c, z), c.fork), m) = Shown(DrawOne(Whole(c, z), m), c.fork)
        BY <1>3, <1>4, <4>1, ShownEither
      <4> QED BY <2>3, <3>1, <4>2, Zenon DEF View, DrawnAfter
    <3>2. CASE ~IsDraw(m)
      BY <2>3, <3>2, Zenon DEF View, DrawnAfter
    <3> QED BY <3>1, <3>2
  <2> QED BY <1>9, <2>2, <2>4
<1>15. ASSUME have_local_fork(c), ~own, ~(behind >= MAX_FALLBEHIND),
              ~fork_entries_concurrent_with(c, stray)
       PROVE  ok
  <2> DEFINE g == [(IF isDrawing THEN d ELSE [d EXCEPT !.fork = << >>]) EXCEPT !.fallbehind = behind]
  <2>1. r = [ch |-> g, action |-> "Rollback"]
    BY <1>7, <1>15, Zenon
  <2>2. g = stays \/ g = left
    BY Zenon DEF stays, left
  <2> HIDE DEF g
  <2>3. r.ch = g /\ r.action = "Rollback"
    BY <2>1
  <2>4. Trimmed(d, g, z)
    BY <1>8, <1>9, <2>2, Zenon
  <2> QED BY <1>15, <2>3, <2>4
<1>16. ok
  BY <1>10, <1>11, <1>12, <1>13, <1>14, <1>15, Zenon
<1>17. Matched(c, z, m, r)
  BY <1>1, <1>16, MatchedIs DEF d
<1> QED BY <1>17, Zenon DEF r

(* Another canvas.                                                         *)
LEMMA CanvasKept ==
  ASSUME NEW c, NEW z, Kept(c, z), NEW cs \in Canvas
  PROVE  LET d == [c EXCEPT !.current = cs]
         IN /\ Kept(d, z) /\ Whole(d, z) = Whole(c, z) /\ d.fork = c.fork
            /\ d.entries = c.entries /\ SamePlace(c, d) /\ d.current = cs
            /\ View(d, z) = View(c, z) /\ Since(d) = Since(c)
            /\ (ForkPoint(c) => ForkPoint(d))
<1> DEFINE d == [c EXCEPT !.current = cs]
<1>1. Sound(c)
  BY DEF Kept
<1>2. c \in SoundHistory
  BY <1>1 DEF Sound
<1>3. Sound(d)
  BY <1>1, ChangedCanvas
<1>4. /\ d.fork = c.fork /\ d.entries = c.entries /\ SamePlace(c, d) /\ d.current = cs
  BY <1>2 DEF SoundHistory, SamePlace
<1> HIDE DEF d
<1>5. fork_start_index(d) = fork_start_index(c)
  BY <1>4, Zenon DEF fork_start_index, SamePlace
<1>6. Kept(d, z)
  BY <1>3, <1>4, <1>5, Zenon DEF Kept, SamePlace, ForkKept, have_local_fork
<1>7. Whole(d, z) = Whole(c, z) /\ View(d, z) = View(c, z) /\ Since(d) = Since(c)
      /\ (ForkPoint(c) => ForkPoint(d))
  BY <1>4, <1>5, Zenon DEF Whole, View, Since, have_local_fork, SamePlace, ForkPoint
<1> QED BY <1>4, <1>6, <1>7, Zenon DEF d

(* The history d, which c became with the command m: what c has truncated  *)
(* is part of the canvas before the first entry.                           *)
Truncated(c, z, d) == ReplayedTo(c.entries, 0, z, d.offset - c.offset)

(* It is right again, and draws m on top of what it drew.                  *)
Advanced(c, z, d, m) ==
  /\ d.offset - c.offset \in 0 .. Len(c.entries)
  /\ Kept(d, Truncated(c, z, d)) /\ Right(d, Truncated(c, z, d))
  /\ d.limit = c.limit
  /\ Since(d) \in {0, Since(c), SinceAfter(c, m)}
  /\ ~IsUndo(m) => Whole(d, Truncated(c, z, d)) = DrawnAfter(Whole(c, z), m)

(* Where nothing is truncated.                                             *)
LEMMA AdvancedHere ==
  ASSUME NEW c, NEW z, Kept(c, z), NEW m, NEW d, d.offset = c.offset, d.limit = c.limit,
         Kept(d, z), Right(d, z), Since(d) \in {0, Since(c), SinceAfter(c, m)},
         ~IsUndo(m) => Whole(d, z) = DrawnAfter(Whole(c, z), m)
  PROVE  Advanced(c, z, d, m)
<1> DEFINE zero == 0
<1>1. Sound(c) /\ z \in Canvas
  BY DEF Kept
<1>2. /\ c.entries \in Seq(SoundEntry) /\ Len(c.entries) \in Nat /\ c.offset \in Nat
  BY <1>1, HistoryHas
<1>3. d.offset - c.offset = zero /\ zero \in 0 .. Len(c.entries) /\ zero = 0
  BY <1>2
<1> HIDE DEF zero
<1>4. ReplayedTo(c.entries, zero, z, zero) = z
  BY <1>1, <1>2, <1>3, ReplayNowhere
<1>5. Truncated(c, z, d) = z
  BY <1>3, <1>4, Zenon DEF Truncated
<1> QED BY <1>3, <1>5, Zenon DEF Advanced

(* The entries before the command are as they were.                        *)
LEMMA ReplayBefore ==
  ASSUME NEW c, NEW z, Kept(c, z), NEW m \in Message, NEW d, Sound(d),
         SameMarks(maybe_append_to_history(c, m).entries, d.entries), ~IsUndo(m)
  PROVE  /\ Len(d.entries) = Len(c.entries) + 1
         /\ \A k \in 0 .. Len(c.entries) :
              ReplayedTo(d.entries, 0, z, k) = ReplayedTo(c.entries, 0, z, k)
<1> DEFINE es == c.entries
           n == Len(es)
           done == "Done"
           e == [undo |-> done, msg |-> m, state |-> NoState]
           fs == d.entries
<1>1. /\ Sound(c) /\ es \in Seq(SoundEntry) /\ n \in Nat /\ z \in Canvas /\ fs \in Seq(SoundEntry)
  BY HistoryHas DEF Kept
<1>2. done \in {"Done", "Undone"} /\ done = "Done"
  OBVIOUS
<1>3. maybe_append_to_history(c, m) = append_to_history(c, m, done)
  BY <1>2, Zenon DEF maybe_append_to_history
<1> HIDE DEF done
<1>4. append_to_history(c, m, done).entries = Append(es, e) /\ e \in SoundEntry
  BY <1>1, <1>2, AppendIs
<1>5. SameMarks(Append(es, e), fs)
  BY <1>3, <1>4, Zenon
<1> HIDE DEF e, es, fs
<1>6. Len(Append(es, e)) = n + 1 /\ \A j \in 1 .. n : Append(es, e)[j] = es[j]
  BY <1>1, <1>4
<1>7. Len(fs) = n + 1 /\ \A j \in 1 .. n : SameDraw(es[j], fs[j])
  <2>1. /\ Len(fs) = Len(Append(es, e))
        /\ \A j \in 1 .. Len(Append(es, e)) : /\ fs[j].undo = Append(es, e)[j].undo
                                              /\ fs[j].msg = Append(es, e)[j].msg
    BY <1>5, Zenon DEF SameMarks
  <2>2. ASSUME NEW j \in 1 .. n PROVE SameDraw(es[j], fs[j])
    <3>1. j \in 1 .. Len(Append(es, e))
      BY <1>1, <1>6
    <3> QED BY <1>6, <2>1, <3>1, Zenon DEF SameDraw, DoneDraw
  <2> QED BY <1>6, <2>1, <2>2
<1>8. ASSUME NEW k \in 0 .. n PROVE ReplayedTo(fs, 0, z, k) = ReplayedTo(es, 0, z, k)
  <2>1. k <= Len(fs) /\ 0 <= k /\ k \in 0 .. Len(es) /\ 0 \in 0 .. Len(es)
    BY <1>1, <1>7
  <2>2. \A j \in 0 + 1 .. k : SameDraw(es[j], fs[j])
    <3> SUFFICES ASSUME NEW j \in 0 + 1 .. k PROVE SameDraw(es[j], fs[j])
      OBVIOUS
    <3>1. j \in 1 .. n
      BY <1>1
    <3> QED BY <1>7, <3>1, Zenon
  <2> QED BY <1>1, <2>1, <2>2, ReplaySame
<1> QED BY <1>7, <1>8, Zenon DEF fs, es, n

(* A command from the server keeps the history right.                      *)
LEMMA HandleRemoteKept ==
  ASSUME NEW c, NEW z, Kept(c, z), Right(c, z), NEW m \in Message, m.type # "Redo",
         NEW isDrawing, NEW stray, Expected(c, m, stray)
  PROVE  Advanced(c, z, handle_remote_command(c, m, isDrawing, stray), m)
<1> DEFINE r == reconcile_remote_command(c, m, isDrawing, stray)
           d == handle_remote_command(c, m, isDrawing, stray)
           e == r.ch
<1>1. Matched(c, z, m, r)
  BY ReconcileMatched
<1>2. r.action \in {"Concurrent", "Rollback", "AlreadyDone"}
  BY <1>1, Zenon DEF Matched
<1>3. d = CASE r.action = "Concurrent"  -> handle_command(e, m)
            [] r.action = "Rollback"    -> rollback(e)
            [] r.action = "AlreadyDone" -> e
  BY Zenon DEF handle_remote_command
<1>4. m.type \in {"UndoPoint", "Undo", "Draw"}
  BY DEF Message
<1> HIDE DEF r, d
<1>5. /\ Kept(e, z) /\ e.offset = c.offset /\ e.limit = c.limit /\ e.current = c.current
      /\ SameMarks(maybe_append_to_history(c, m).entries, e.entries)
      /\ Whole(e, z) = DrawnAfter(Whole(c, z), m)
      /\ Since(e) \in {0, SinceAfter(c, m)}
  BY <1>1, Zenon DEF Matched
<1>6. Sound(c) /\ Sound(e) /\ z \in Canvas /\ c.current \in Canvas
  BY <1>5, HistoryHas DEF Kept
<1> DEFINE ok == Advanced(c, z, d, m)
<1>7. ASSUME r.action = "Rollback" PROVE ok
  <2>1. d = rollback(e)
    BY <1>3, <1>7
  <2>2. ForkPoint(e)
    BY <1>1, <1>7, Zenon DEF Matched
  <2>3. /\ Kept(d, z) /\ Right(d, z) /\ d.offset = e.offset /\ d.limit = e.limit
        /\ Whole(d, z) = Whole(e, z) /\ Since(d) = 0
    BY <1>5, <2>1, <2>2, RollbackKept, Zenon
  <2> HIDE DEF e
  <2> QED BY <1>5, <2>3, AdvancedHere
<1>8. ASSUME r.action = "AlreadyDone" PROVE ok
  <2>1. d = e
    BY <1>3, <1>8
  <2>2. Right(e, z)
    BY <1>1, <1>5, <1>8, Zenon DEF Matched, Right
  <2> HIDE DEF e
  <2> QED BY <1>5, <2>1, <2>2, AdvancedHere
<1>9. ASSUME r.action = "Concurrent" PROVE ok
  <2>1. d = handle_command(e, m)
    BY <1>3, <1>9
  <2>2. View(e, z) = DrawnAfter(View(c, z), m)
    BY <1>1, <1>9, Zenon DEF Matched
  <2> HIDE DEF ok
  <2>3. CASE m.type = "Draw"
    <3> DEFINE cs == DrawOne(e.current, m)
    <3>1. IsDraw(m) /\ ~IsUndo(m)
      BY <2>3 DEF IsDraw, IsUndo
    <3>2. d = [e EXCEPT !.current = cs]
      BY <2>1, <2>3, <3>1 DEF handle_command, handle_drawing_command
    <3>3. cs \in Canvas
      BY <1>5, <1>6, DrawOneType
    <3>4. cs = View(e, z)
      BY <1>5, <2>2, <3>1, Zenon DEF DrawnAfter, Right
    <3> HIDE DEF cs, e
    <3>5. /\ Kept(d, z) /\ Whole(d, z) = Whole(e, z) /\ SamePlace(e, d) /\ d.current = cs
          /\ View(d, z) = View(e, z) /\ Since(d) = Since(e)
      BY <1>5, <3>2, <3>3, CanvasKept
    <3>6. Right(d, z) /\ d.offset = c.offset /\ d.limit = c.limit
      BY <1>5, <3>4, <3>5, Zenon DEF Right, SamePlace
    <3> QED BY <1>5, <3>5, <3>6, AdvancedHere DEF ok
  <2>4. CASE m.type = "Undo"
    <3> DEFINE user == get_undo_context_id(m)
    <3>1. ~IsDraw(m) /\ IsUndo(m)
      BY <2>4 DEF IsDraw, IsUndo
    <3>2. d = undo(e, user)
      BY <2>1, <2>4, <3>1 DEF handle_command, handle_undo
    <3>3. Right(e, z)
      BY <1>5, <2>2, <3>1, Zenon DEF DrawnAfter, Right
    <3> HIDE DEF user, e
    <3>4. /\ Kept(d, z) /\ Right(d, z) /\ d.offset = e.offset /\ d.limit = e.limit
          /\ Since(d) \in {0, Since(e)}
      BY <1>5, <3>2, <3>3, UndoKept
    <3>5. Since(d) \in {0, Since(c), SinceAfter(c, m)}
      BY <1>5, <3>4
    <3> QED BY <1>5, <3>1, <3>4, <3>5, AdvancedHere DEF ok
  <2>5. CASE m.type = "UndoPoint"
    <3>1. ~IsDraw(m) /\ ~IsUndo(m)
      BY <2>5 DEF IsDraw, IsUndo
    <3>2. d = handle_undo_point(e)
      BY <2>1, <2>5, <3>1, Zenon DEF handle_command
    <3>3. Right(e, z)
      BY <1>5, <2>2, <3>1, Zenon DEF DrawnAfter, Right
    <3>4. EndsInUndoPoint(e)
      BY <1>1, <1>9, <2>5, Zenon DEF Matched
    <3> HIDE DEF e
    <3> DEFINE k == d.offset - e.offset
               y == ReplayedTo(e.entries, 0, z, k)
    <3>5. /\ k \in 0 .. Len(e.entries) - 1 /\ Kept(d, y) /\ Right(d, y)
          /\ d.limit = e.limit /\ Since(d) = Since(e) /\ Whole(d, y) = Whole(e, z)
      BY <1>5, <3>2, <3>3, <3>4, HandleUndoPointKept
    <3>6. /\ Len(e.entries) = Len(c.entries) + 1
          /\ \A i \in 0 .. Len(c.entries) :
               ReplayedTo(e.entries, 0, z, i) = ReplayedTo(c.entries, 0, z, i)
      BY <1>5, <1>6, <3>1, ReplayBefore
    <3>7. Len(c.entries) \in Nat
      BY <1>6, HistoryHas
    <3>8. k \in 0 .. Len(c.entries) /\ k = d.offset - c.offset
      BY <1>5, <3>5, <3>6, <3>7
    <3> HIDE DEF k
    <3>9. y = Truncated(c, z, d)
      BY <3>6, <3>8, Zenon DEF Truncated
    <3>10. Since(d) \in {0, Since(c), SinceAfter(c, m)} /\ d.limit = c.limit
      BY <1>5, <3>5
    <3> HIDE DEF y
    <3> QED BY <1>5, <3>5, <3>8, <3>9, <3>10, Zenon DEF ok, Advanced
  <2> QED BY <1>4, <2>3, <2>4, <2>5
<1> QED BY <1>2, <1>7, <1>8, <1>9, Zenon DEF d

(* The whole handler of a command that is not marked as undone.            *)
LEMMA HandleKept ==
  ASSUME NEW c, NEW z, Kept(c, z), Right(c, z), c.markDone = TRUE, NEW m \in Message,
         m.type # "Redo", ~(IsUndo(m) /\ get_undo_context_id(m) = Nobody),
         NEW isDrawing, NEW stray, Expected(c, m, stray)
  PROVE  Advanced(c, z, DP_canvas_history_handle(c, m, isDrawing, stray), m)
<1>1. DP_canvas_history_handle(c, m, isDrawing, stray)
        = handle_remote_command(c, m, isDrawing, stray)
  BY Zenon DEF DP_canvas_history_handle
<1> QED BY <1>1, HandleRemoteKept

----------------------------------------------------------------------------
(* Several dabs.                                                           *)

(* What is left to draw brings the canvas to what the history shows.       *)
Pending(b, z) ==
  /\ Kept(b.ch, z) /\ b.pending \in Seq(Message) /\ DrawsOf(b.pending) = DOMAIN b.pending
  /\ Shown(b.ch.current, b.pending) = View(b.ch, z)

(* One of the dabs: e is the history before it, and d after it.            *)
DabTaken(e, z, d, m) ==
  /\ d.offset = e.offset /\ d.limit = e.limit
  /\ Whole(d, z) = DrawnAfter(Whole(e, z), m)
  /\ Since(d) \in {0, Since(e)}

(* A dab more that is left to draw.                                        *)
LEMMA AnotherPending ==
  ASSUME NEW f \in Seq(Message), DrawsOf(f) = DOMAIN f, NEW m \in Message, IsDraw(m)
  PROVE  Append(f, m) \in Seq(Message) /\ DrawsOf(Append(f, m)) = DOMAIN Append(f, m)
<1> DEFINE g == Append(f, m)
           n == Len(f)
<1>1. /\ g \in Seq(Message) /\ n \in Nat /\ DOMAIN f = 1 .. n /\ DOMAIN g = 1 .. n + 1
      /\ g[n + 1] = m /\ \A i \in 1 .. n : g[i] = f[i]
  BY LenProperties
<1> HIDE DEF g
<1>2. \A i \in 1 .. n : IsDraw(f[i])
  BY <1>1, Zenon DEF DrawsOf
<1>3. \A i \in 1 .. n + 1 : IsDraw(g[i])
  <2> TAKE i \in 1 .. n + 1
  <2>1. i = n + 1 \/ i \in 1 .. n
    BY <1>1
  <2> QED BY <1>1, <1>2, <2>1, Zenon
<1>4. DrawsOf(g) = DOMAIN g
  BY <1>1, <1>3, Zenon DEF DrawsOf
<1> QED BY <1>1, <1>4, Zenon DEF g

(* One dab.                                                                *)
LEMMA DabKept ==
  ASSUME NEW b, NEW z, Pending(b, z), NEW m \in Message, IsDraw(m), NEW isDrawing, NEW stray,
         Expected(b.ch, m, stray)
  PROVE  LET s == MultidabStep(b, m, isDrawing, stray)
         IN Pending(s, z) /\ DabTaken(b.ch, z, s.ch, m)
<1> DEFINE c == b.ch
           r == reconcile_remote_command(b.ch, m, isDrawing, stray)
           s == MultidabStep(b, m, isDrawing, stray)
           e == r.ch
           ok == Pending(s, z) /\ DabTaken(c, z, s.ch, m)
<1>1. Matched(c, z, m, r)
  BY ReconcileMatched DEF Pending
<1>2. r.action \in {"Concurrent", "Rollback", "AlreadyDone"}
  BY <1>1, Zenon DEF Matched
<1>3. s = CASE r.action = "Concurrent"  -> [ch |-> e, pending |-> Append(b.pending, m)]
            [] r.action = "Rollback"    -> [ch |-> rollback(e), pending |-> << >>]
            [] r.action = "AlreadyDone" -> [ch |-> e, pending |-> b.pending]
  BY Zenon DEF MultidabStep
<1>4. /\ Kept(c, z) /\ b.pending \in Seq(Message) /\ DrawsOf(b.pending) = DOMAIN b.pending
      /\ Shown(c.current, b.pending) = View(c, z)
  BY Zenon DEF Pending
<1> HIDE DEF r, s, c
<1>5. /\ Kept(e, z) /\ e.offset = c.offset /\ e.limit = c.limit /\ e.current = c.current
      /\ Whole(e, z) = DrawnAfter(Whole(c, z), m) /\ Since(e) \in {0, SinceAfter(c, m)}
  BY <1>1, Zenon DEF Matched
<1>6. Sound(c) /\ Sound(e) /\ z \in Canvas /\ c.current \in Canvas
  BY <1>4, <1>5, HistoryHas DEF Kept
<1>7. Since(e) \in {0, Since(c)}
  <2>1. m.type # "UndoPoint"
    BY DEF IsDraw
  <2>2. Since(c) \in Nat
    <3>1. 0 \in Nat /\ c.entries \in Seq(SoundEntry) /\ fork_start_index(c) \in Int
      BY <1>6, HistoryHas
    <3>2. fork_start_index(c) + 1 \in Int
      BY <3>1
    <3> QED BY <3>1, <3>2, DepthType DEF Since
  <2>3. SinceAfter(c, m) = Since(c)
    BY <2>1, <2>2 DEF SinceAfter
  <2> QED BY <1>5, <2>3
<1> HIDE DEF e
<1>8. DabTaken(c, z, e, m)
  BY <1>5, <1>7, Zenon DEF DabTaken
<1>9. ASSUME r.action = "Concurrent" PROVE ok
  <2>1. s.ch = e /\ s.pending = Append(b.pending, m)
    BY <1>3, <1>9
  <2>2. View(e, z) = DrawOne(View(c, z), m)
    BY <1>1, <1>9, Zenon DEF Matched, DrawnAfter, e
  <2>3. Shown(c.current, Append(b.pending, m)) = DrawOne(Shown(c.current, b.pending), m)
    BY <1>4, <1>6, ShownAnother
  <2>4. Shown(s.ch.current, s.pending) = View(s.ch, z)
    BY <1>4, <1>5, <2>1, <2>2, <2>3, Zenon
  <2>5. s.pending \in Seq(Message) /\ DrawsOf(s.pending) = DOMAIN s.pending
    BY <1>4, <2>1, AnotherPending
  <2> QED BY <1>5, <1>8, <2>1, <2>4, <2>5, Zenon DEF Pending
<1>10. ASSUME r.action = "AlreadyDone" PROVE ok
  <2>1. s.ch = e /\ s.pending = b.pending
    BY <1>3, <1>10
  <2>2. View(e, z) = View(c, z)
    BY <1>1, <1>10, Zenon DEF Matched, e
  <2> QED BY <1>4, <1>5, <1>8, <2>1, <2>2, Zenon DEF Pending
<1>11. ASSUME r.action = "Rollback" PROVE ok
  <2> DEFINE none == << >>
             d == rollback(e)
  <2>1. s.ch = d /\ s.pending = none
    BY <1>3, <1>11
  <2>2. ForkPoint(e)
    BY <1>1, <1>11, Zenon DEF Matched, e
  <2>3. /\ Kept(d, z) /\ Right(d, z) /\ d.offset = e.offset /\ d.limit = e.limit
        /\ Whole(d, z) = Whole(e, z) /\ Since(d) = 0
    BY <1>5, <2>2, RollbackKept
  <2>4. d.current \in Canvas
    BY <2>3, HistoryHas DEF Kept
  <2> HIDE DEF d
  <2>5. Shown(d.current, none) = d.current
    BY <2>4, ShownNothing
  <2>6. none \in Seq(Message) /\ DrawsOf(none) = DOMAIN none
    BY DEF DrawsOf
  <2> HIDE DEF none
  <2>7. Pending(s, z)
    BY <2>1, <2>3, <2>5, <2>6, Zenon DEF Pending, Right
  <2>8. DabTaken(c, z, d, m)
    BY <1>8, <2>3 DEF DabTaken
  <2> QED BY <2>1, <2>7, <2>8, Zenon
<1> QED BY <1>2, <1>9, <1>10, <1>11, Zenon DEF s, c

(* Two dabs are handled one after the other and drawn then.                *)
LEMMA TwoDabs ==
  ASSUME NEW c, NEW x, NEW y, NEW isDrawing, NEW stray
  PROVE  LET b == [ch |-> c, pending |-> << >>]
             s == MultidabStep(b, x, isDrawing, stray)
             t == MultidabStep(s, y, isDrawing, stray)
         IN DP_canvas_history_handle_multidab_dec(c, <<x, y>>, isDrawing, stray)
              = [t.ch EXCEPT !.current = Draw(@, t.pending, DOMAIN t.pending)]
<1> DEFINE ms == <<x, y>>
           run == CHOOSE f : BatchRun(f, c, ms, isDrawing, stray, 2)
           b == run[2]
           d == DP_canvas_history_handle_multidab_dec(c, ms, isDrawing, stray)
<1>1. Len(ms) = 2 /\ ms[1] = x /\ ms[2] = y
  OBVIOUS
<1>2. BatchRun(run, c, ms, isDrawing, stray, 2)
  BY BatchRuns
<1>3. d = [b.ch EXCEPT !.current = Draw(b.ch.current, b.pending, DOMAIN b.pending)]
  BY <1>1 DEF DP_canvas_history_handle_multidab_dec, BatchRun
<1> HIDE DEF run, ms, d
<1>4. \A i \in 0 .. 2 : run[i] = IF i = 0 THEN [ch |-> c, pending |-> << >>]
                                 ELSE MultidabStep(run[i - 1], ms[i], isDrawing, stray)
  BY <1>2 DEF BatchRun
<1>5. /\ run[0] = [ch |-> c, pending |-> << >>]
      /\ run[1] = MultidabStep(run[0], x, isDrawing, stray)
      /\ run[2] = MultidabStep(run[1], y, isDrawing, stray)
  BY <1>1, <1>4
<1> QED BY <1>3, <1>5, Zenon DEF d, ms

(* The history between two dabs.                                           *)
Between(c, x, isDrawing, stray) ==
  MultidabStep([ch |-> c, pending |-> << >>], x, isDrawing, stray).ch

(* Two dabs at once keep the history right, and truncate nothing.          *)
LEMMA MultidabKept ==
  ASSUME NEW c, NEW z, Kept(c, z), Right(c, z), NEW x \in Message, IsDraw(x),
         NEW y \in Message, IsDraw(y), NEW isDrawing, NEW stray, Expected(c, x, stray),
         LET e == Between(c, x, isDrawing, stray)
         IN DabTaken(c, z, e, x) => Expected(e, y, stray)
  PROVE  LET d == DP_canvas_history_handle_multidab_dec(c, <<x, y>>, isDrawing, stray)
         IN /\ Kept(d, z) /\ Right(d, z) /\ d.offset = c.offset /\ d.limit = c.limit
            /\ Since(d) \in {0, Since(c)}
            /\ Whole(d, z) = DrawnAfter(DrawnAfter(Whole(c, z), x), y)
<1> DEFINE none == << >>
           b == [ch |-> c, pending |-> none]
           s == MultidabStep(b, x, isDrawing, stray)
           t == MultidabStep(s, y, isDrawing, stray)
           d == DP_canvas_history_handle_multidab_dec(c, <<x, y>>, isDrawing, stray)
           cs == Shown(t.ch.current, t.pending)
<1>1. d = [t.ch EXCEPT !.current = Draw(@, t.pending, DOMAIN t.pending)]
  BY TwoDabs
<1>2. Sound(c) /\ c.current \in Canvas
  BY HistoryHas DEF Kept
<1>3. Shown(c.current, none) = c.current
  BY <1>2, ShownNothing
<1>4. none \in Seq(Message) /\ DrawsOf(none) = DOMAIN none
  BY DEF DrawsOf
<1>5. Between(c, x, isDrawing, stray) = s.ch
  BY Zenon DEF Between
<1>6. b.ch = c /\ b.pending = none
  OBVIOUS
<1> HIDE DEF none, b, d
<1>7. Pending(b, z)
  BY <1>3, <1>4, <1>6, Zenon DEF Pending, Right
<1>8. Pending(s, z) /\ DabTaken(c, z, s.ch, x)
  BY <1>6, <1>7, DabKept
<1>9. Expected(s.ch, y, stray)
  BY <1>5, <1>8, Zenon
<1> HIDE DEF s
<1>10. Pending(t, z) /\ DabTaken(s.ch, z, t.ch, y)
  BY <1>8, <1>9, DabKept
<1> HIDE DEF t
<1>11. /\ Kept(t.ch, z) /\ t.pending \in Seq(Message) /\ DrawsOf(t.pending) = DOMAIN t.pending
       /\ cs = View(t.ch, z)
  BY <1>10, Zenon DEF Pending
<1>12. cs \in Canvas
  BY <1>11, WholeType DEF Kept
<1>13. d = [t.ch EXCEPT !.current = cs]
  BY <1>1, <1>11, Zenon DEF Shown
<1> HIDE DEF cs
<1>14. /\ Kept(d, z) /\ Whole(d, z) = Whole(t.ch, z) /\ SamePlace(t.ch, d) /\ d.current = cs
       /\ View(d, z) = View(t.ch, z) /\ Since(d) = Since(t.ch)
  BY <1>11, <1>12, <1>13, CanvasKept
<1>15. /\ Right(d, z) /\ d.offset = c.offset /\ d.limit = c.limit
       /\ Whole(d, z) = DrawnAfter(DrawnAfter(Whole(c, z), x), y)
  BY <1>8, <1>10, <1>11, <1>14, Zenon DEF Right, SamePlace, DabTaken
<1>16. Since(d) \in {0, Since(c)}
  BY <1>8, <1>10, <1>14 DEF DabTaken
<1> QED BY <1>14, <1>15, <1>16, Zenon DEF d

----------------------------------------------------------------------------
(* Local commands keep the history right.                                  *)

(* What a fork that starts at the last entry needs of it.                  *)
LEMMA FreshFork ==
  ASSUME NEW c, Sound(c), Rooted(c.entries, c.limit), fork_start_index(c) = Len(c.entries)
  PROVE  ForkKept(c) /\ ForkPoint(c) /\ Depth(c.entries, fork_start_index(c) + 1) = 0
<1> DEFINE es == c.entries
           n == Len(es)
<1>1. /\ es \in Seq(SoundEntry) /\ n \in Nat /\ n >= 1 /\ DOMAIN es = 1 .. n
      /\ c.limit \in Nat /\ c.limit >= 1
      /\ (ForkPoint(c) <=> fork_start_index(c) \in 1 .. n)
  BY HistoryHas
<1>2. ForkPoint(c)
  BY <1>1
<1>3. fork_start_index(c) = 1 => is_undo_point_entry(es[1])
  BY <1>1 DEF Rooted, Initial
<1>4. \A i \in DOMAIN es : i > fork_start_index(c) => es[i].undo = "Done"
  BY <1>1
<1> DEFINE lo == n + 1
<1>5. lo \in Int /\ n \in Int /\ n < lo
  BY <1>1
<1>6. Depth(es, lo) = 0
  BY <1>5, UndoPointsNone DEF Depth
<1>7. Depth(es, fork_start_index(c) + 1) = 0
  BY <1>6
<1> HIDE DEF es
<1>8. ForkKept(c)
  BY <1>1, <1>3, <1>4, <1>7 DEF ForkKept, es
<1> QED BY <1>2, <1>7, <1>8 DEF es

(* The mark of where a fork starts.                                        *)
LEMMA ForkStartSet ==
  ASSUME NEW c, NEW z, Kept(c, z), c.fork = << >>, NEW b \in BOOLEAN
  PROVE  LET d == set_fork_start(c, b)
         IN /\ Kept(d, z) /\ Whole(d, z) = Whole(c, z) /\ View(d, z) = View(c, z)
            /\ d.entries = c.entries /\ d.offset = c.offset /\ d.limit = c.limit
            /\ d.current = c.current /\ d.fork = c.fork
            /\ fork_start_index(d) = Len(d.entries)
<1> DEFINE d == set_fork_start(c, b)
<1>1. Sound(c) /\ c \in SoundHistory /\ c.entries # << >>
  BY DEF Kept, Sound
<1>2. Sound(d)
  BY <1>1, SetForkStart
<1>3. /\ d.entries = c.entries /\ d.offset = c.offset /\ d.limit = c.limit
      /\ d.current = c.current /\ d.fork = c.fork
      /\ d.forkStart = c.offset + Len(c.entries)
  BY <1>1 DEF set_fork_start, SoundHistory
<1>4. c.offset \in Nat /\ Len(c.entries) \in Nat
  BY <1>1, HistoryHas
<1> HIDE DEF d
<1>5. fork_start_index(d) = Len(d.entries)
  BY <1>3, <1>4 DEF fork_start_index
<1>6. Whole(d, z) = Whole(c, z) /\ View(d, z) = View(c, z)
  BY <1>3, Zenon DEF Whole, View
<1>7. Kept(d, z)
  BY <1>2, <1>3, Zenon DEF Kept, have_local_fork
<1> QED BY <1>3, <1>5, <1>6, <1>7, Zenon DEF d

(* A history ready for a fork to grow.                                     *)
LEMMA StartForkKept ==
  ASSUME NEW c, NEW z, Kept(c, z), Right(c, z), NEW m
  PROVE  LET d == StartFork(c, m)
         IN /\ Kept(d, z) /\ Right(d, z) /\ Whole(d, z) = Whole(c, z)
            /\ d.offset = c.offset /\ d.limit = c.limit /\ d.fork = c.fork
            /\ ForkKept(d) /\ ForkPoint(d)
            /\ Depth(d.entries, fork_start_index(d) + 1) = Since(c)
<1> DEFINE d == StartFork(c, m)
           ok == /\ Kept(d, z) /\ Right(d, z) /\ Whole(d, z) = Whole(c, z)
                 /\ d.offset = c.offset /\ d.limit = c.limit /\ d.fork = c.fork
                 /\ ForkKept(d) /\ ForkPoint(d)
                 /\ Depth(d.entries, fork_start_index(d) + 1) = Since(c)
<1>1. Sound(c)
  BY DEF Kept
<1>2. ASSUME have_local_fork(c) PROVE ok
  <2>1. d = c
    BY <1>2 DEF StartFork
  <2>2. ForkKept(c) /\ ForkPoint(c)
    BY <1>1, <1>2, HistoryHas DEF Kept
  <2>3. Depth(c.entries, fork_start_index(c) + 1) = Since(c)
    BY <1>2 DEF Since
  <2> HIDE DEF d
  <2> QED BY <2>1, <2>2, <2>3, Zenon
<1>3. ASSUME ~have_local_fork(c) PROVE ok
  <2> DEFINE at == m.type = "UndoPoint"
             a == set_fork_start(c, at)
             i == find_save_point_index(c.entries)
  <2>1. c.fork = << >> /\ at \in BOOLEAN
    BY <1>3 DEF have_local_fork
  <2>2. d = make_save_point(a, i)
    BY <1>3 DEF StartFork
  <2> HIDE DEF d, at
  <2>3. /\ Kept(a, z) /\ Whole(a, z) = Whole(c, z) /\ View(a, z) = View(c, z)
        /\ a.entries = c.entries /\ a.offset = c.offset /\ a.limit = c.limit
        /\ a.current = c.current /\ a.fork = c.fork
        /\ fork_start_index(a) = Len(a.entries)
    BY <2>1, ForkStartSet
  <2> HIDE DEF a
  <2>4. /\ i \in 1 .. Len(c.entries) /\ is_valid_save_point_entry(c.entries[i])
        /\ \A j \in i + 1 .. Len(c.entries) : ~DoneDraw(c.entries[j])
    BY SavePointIndex
  <2> HIDE DEF i
  <2>5. Right(a, z) /\ a.fork = << >>
    BY <2>1, <2>3, Zenon DEF Right
  <2>6. /\ Kept(d, z) /\ Whole(d, z) = Whole(a, z) /\ d.fork = a.fork
        /\ SamePlace(a, d) /\ d.current = a.current /\ Len(d.entries) = Len(a.entries)
    BY <2>2, <2>3, <2>4, <2>5, MakeSavePointKept
  <2>7. Right(d, z)
    BY <2>5, <2>6, Zenon DEF Right, View
  <2>8. fork_start_index(d) = Len(d.entries)
    BY <2>3, <2>6, Zenon DEF fork_start_index, SamePlace
  <2>9. ForkKept(d) /\ ForkPoint(d) /\ Depth(d.entries, fork_start_index(d) + 1) = 0
    BY <2>6, <2>8, FreshFork DEF Kept
  <2>10. Since(c) = 0
    BY <1>3 DEF Since
  <2>11. d.offset = c.offset /\ d.limit = c.limit /\ d.fork = c.fork
    BY <2>3, <2>6, Zenon DEF SamePlace
  <2> QED BY <2>3, <2>6, <2>7, <2>9, <2>10, <2>11, Zenon
<1> QED BY <1>2, <1>3, Zenon

(* The fork grows.                                                         *)
LEMMA ForkGrown ==
  ASSUME NEW c, NEW z, Kept(c, z), ForkKept(c), ForkPoint(c), NEW f \in Seq(Message)
  PROVE  LET d == [c EXCEPT !.fork = f]
         IN /\ Kept(d, z) /\ Whole(d, z) = Whole(c, z) /\ d.fork = f
            /\ d.entries = c.entries /\ SamePlace(c, d) /\ d.current = c.current
            /\ Since(d) \in {0, Depth(c.entries, fork_start_index(c) + 1)}
<1> DEFINE d == [c EXCEPT !.fork = f]
<1>1. Sound(c)
  BY DEF Kept
<1>2. Sound(d)
  BY <1>1, ForkPushed
<1>3. d.fork = f /\ d.entries = c.entries /\ SamePlace(c, d) /\ d.current = c.current
  BY <1>1 DEF Sound, SoundHistory, SamePlace
<1> HIDE DEF d
<1>4. fork_start_index(d) = fork_start_index(c)
  BY <1>3, Zenon DEF fork_start_index, SamePlace
<1>5. ForkKept(d)
  BY <1>3, <1>4, Zenon DEF ForkKept, SamePlace
<1>6. Kept(d, z) /\ Whole(d, z) = Whole(c, z)
  BY <1>2, <1>3, <1>5, Zenon DEF Kept, SamePlace, Whole
<1>7. Since(d) \in {0, Depth(c.entries, fork_start_index(c) + 1)}
  BY <1>3, <1>4 DEF Since
<1> QED BY <1>3, <1>6, <1>7, Zenon DEF d

(* The history d, which c became on its own: nothing is truncated, and     *)
(* what the server has ordered is the same.                                *)
Untouched(c, z, d) ==
  /\ Kept(d, z) /\ Right(d, z) /\ Whole(d, z) = Whole(c, z)
  /\ d.offset = c.offset /\ d.limit = c.limit /\ Since(d) \in {0, Since(c)}

(* A local command.                                                        *)
LEMMA HandleLocalKept ==
  ASSUME NEW c, NEW z, Kept(c, z), Right(c, z), NEW m \in Message
  PROVE  Untouched(c, z, DP_canvas_history_handle_local(c, m))
<1> DEFINE a == StartFork(c, m)
           f == Append(a.fork, m)
           b == [a EXCEPT !.fork = f]
           cs == DrawOne(b.current, m)
           d == DP_canvas_history_handle_local(c, m)
<1>1. /\ Kept(a, z) /\ Right(a, z) /\ Whole(a, z) = Whole(c, z)
      /\ a.offset = c.offset /\ a.limit = c.limit /\ a.fork = c.fork
      /\ ForkKept(a) /\ ForkPoint(a)
      /\ Depth(a.entries, fork_start_index(a) + 1) = Since(c)
  BY StartForkKept
<1>2. d = IF IsDraw(m) THEN [b EXCEPT !.current = cs] ELSE b
  BY DEF DP_canvas_history_handle_local, handle_drawing_command
<1> HIDE DEF a, d
<1>3. /\ a.fork \in Seq(Message) /\ a.current \in Canvas /\ z \in Canvas /\ Sound(a)
  BY <1>1, HistoryHas DEF Kept
<1>4. Whole(a, z) \in Canvas
  BY <1>3, WholeType
<1>5. f \in Seq(Message)
  BY <1>3, AppendProperties
<1>6. Shown(Whole(a, z), f) = IF IsDraw(m) THEN DrawOne(View(a, z), m) ELSE View(a, z)
  BY <1>3, <1>4, ShownAnother DEF View
<1> HIDE DEF f
<1>7. /\ Kept(b, z) /\ Whole(b, z) = Whole(a, z) /\ b.fork = f
      /\ b.entries = a.entries /\ SamePlace(a, b) /\ b.current = a.current
      /\ Since(b) \in {0, Depth(a.entries, fork_start_index(a) + 1)}
  BY <1>1, <1>5, ForkGrown
<1> HIDE DEF b
<1>8. View(b, z) = IF IsDraw(m) THEN DrawOne(b.current, m) ELSE b.current
  <2>1. View(b, z) = Shown(Whole(a, z), f)
    BY <1>7, Zenon DEF View
  <2>2. b.current = View(a, z)
    BY <1>1, <1>7, Zenon DEF Right
  <2> QED BY <1>6, <2>1, <2>2
<1>9. Since(b) \in {0, Since(c)}
  BY <1>1, <1>7
<1>10. Whole(b, z) = Whole(c, z) /\ b.offset = c.offset /\ b.limit = c.limit
  BY <1>1, <1>7, Zenon DEF SamePlace
<1> DEFINE ok == Untouched(c, z, d)
<1>11. ASSUME ~IsDraw(m) PROVE ok
  <2>1. d = b /\ Right(b, z)
    BY <1>2, <1>8, <1>11 DEF Right
  <2> QED BY <1>7, <1>9, <1>10, <2>1, Zenon DEF Untouched
<1>12. ASSUME IsDraw(m) PROVE ok
  <2>1. d = [b EXCEPT !.current = cs]
    BY <1>2, <1>12
  <2>2. View(b, z) = cs
    BY <1>8, <1>12
  <2>3. cs \in Canvas
    BY <1>3, <1>7, DrawOneType
  <2> HIDE DEF cs
  <2>4. /\ Kept(d, z) /\ Whole(d, z) = Whole(b, z) /\ SamePlace(b, d) /\ d.current = cs
        /\ View(d, z) = View(b, z) /\ Since(d) = Since(b)
    BY <1>7, <2>1, <2>3, CanvasKept
  <2> QED BY <1>9, <1>10, <2>2, <2>4, Zenon DEF Untouched, Right, SamePlace
<1> QED BY <1>11, <1>12, Zenon DEF d

(* Several local dabs.                                                     *)
LEMMA HandleLocalMultidabKept ==
  ASSUME NEW c, NEW z, Kept(c, z), Right(c, z), NEW ms \in Seq(Message),
         DrawsOf(ms) = DOMAIN ms
  PROVE  Untouched(c, z, DP_canvas_history_handle_local_multidab_dec(c, ms))
<1> DEFINE a == StartFork(c, Head(ms))
           f == a.fork \o ms
           b == [a EXCEPT !.fork = f]
           cs == Shown(b.current, ms)
           d == DP_canvas_history_handle_local_multidab_dec(c, ms)
<1>1. /\ Kept(a, z) /\ Right(a, z) /\ Whole(a, z) = Whole(c, z)
      /\ a.offset = c.offset /\ a.limit = c.limit /\ a.fork = c.fork
      /\ ForkKept(a) /\ ForkPoint(a)
      /\ Depth(a.entries, fork_start_index(a) + 1) = Since(c)
  BY StartForkKept
<1>2. d = [b EXCEPT !.current = cs]
  BY DEF DP_canvas_history_handle_local_multidab_dec, Shown
<1> HIDE DEF a, d
<1>3. /\ a.fork \in Seq(Message) /\ a.current \in Canvas /\ z \in Canvas /\ Sound(a)
  BY <1>1, HistoryHas DEF Kept
<1>4. Whole(a, z) \in Canvas
  BY <1>3, WholeType
<1>5. f \in Seq(Message)
  BY <1>3, ConcatProperties
<1>6. Shown(Whole(a, z), f) = Shown(View(a, z), ms)
  BY <1>3, <1>4, ShownMore DEF View
<1> HIDE DEF f
<1>7. /\ Kept(b, z) /\ Whole(b, z) = Whole(a, z) /\ b.fork = f
      /\ b.entries = a.entries /\ SamePlace(a, b) /\ b.current = a.current
      /\ Since(b) \in {0, Depth(a.entries, fork_start_index(a) + 1)}
  BY <1>1, <1>5, ForkGrown
<1> HIDE DEF b
<1>8. View(b, z) = cs
  <2>1. View(b, z) = Shown(Whole(a, z), f)
    BY <1>7, Zenon DEF View
  <2>2. b.current = View(a, z)
    BY <1>1, <1>7, Zenon DEF Right
  <2> QED BY <1>6, <2>1, <2>2, Zenon
<1>9. Since(b) \in {0, Since(c)}
  BY <1>1, <1>7
<1>10. Whole(b, z) = Whole(c, z) /\ b.offset = c.offset /\ b.limit = c.limit
  BY <1>1, <1>7, Zenon DEF SamePlace
<1>11. cs \in Canvas
  BY <1>3, <1>7, ShownType
<1> HIDE DEF cs
<1>12. /\ Kept(d, z) /\ Whole(d, z) = Whole(b, z) /\ SamePlace(b, d) /\ d.current = cs
       /\ View(d, z) = View(b, z) /\ Since(d) = Since(b)
  BY <1>2, <1>7, <1>11, CanvasKept
<1> QED BY <1>8, <1>9, <1>10, <1>12, Zenon DEF Untouched, Right, SamePlace, d

(* The fork is given up.                                                   *)
LEMMA LocalForkClearKept ==
  ASSUME NEW c, NEW z, Kept(c, z), Right(c, z)
  PROVE  LET d == DP_canvas_history_local_fork_clear(c)
         IN Untouched(c, z, d) /\ Since(d) = 0
<1> DEFINE d == DP_canvas_history_local_fork_clear(c)
           a == [c EXCEPT !.fork = << >>]
<1>1. Sound(c)
  BY DEF Kept
<1>2. CASE have_local_fork(c)
  <2>1. d = rollback(a)
    BY <1>2 DEF DP_canvas_history_local_fork_clear
  <2>2. ForkPoint(c)
    BY <1>1, <1>2, HistoryHas
  <2>3. /\ Kept(a, z) /\ Whole(a, z) = Whole(c, z) /\ SamePlace(c, a) /\ ForkPoint(a)
    BY <2>2, ForkDropped
  <2> HIDE DEF a, d
  <2>4. /\ Kept(d, z) /\ Right(d, z) /\ d.offset = a.offset
        /\ d.limit = a.limit /\ Whole(d, z) = Whole(a, z) /\ Since(d) = 0
    BY <2>1, <2>3, RollbackKept
  <2>5. Since(d) \in {0, Since(c)}
    BY <2>4
  <2> QED BY <2>3, <2>4, <2>5, Zenon DEF Untouched, SamePlace, d
<1>3. CASE ~have_local_fork(c)
  <2>1. d = c /\ Since(c) = 0 /\ Since(c) \in {0, Since(c)}
    BY <1>3 DEF DP_canvas_history_local_fork_clear, Since
  <2> QED BY <2>1, Zenon DEF Untouched
<1> QED BY <1>2, <1>3

(* A save point made at a snapshot.                                        *)
LEMMA SavePointMakeKept ==
  ASSUME NEW c, NEW z, Kept(c, z), Right(c, z)
  PROVE  LET d == DP_canvas_history_save_point_make(c)
         IN Untouched(c, z, d) /\ Len(d.entries) = Len(c.entries)
            /\ SameMarks(c.entries, d.entries)
<1> DEFINE d == DP_canvas_history_save_point_make(c)
           i == find_save_point_index(c.entries)
<1>1. CASE have_local_fork(c)
  <2>1. d = c /\ Since(c) \in {0, Since(c)}
    BY <1>1 DEF DP_canvas_history_save_point_make
  <2>2. SameMarks(c.entries, c.entries)
    BY MarksSame
  <2> QED BY <2>1, <2>2, Zenon DEF Untouched
<1>2. CASE ~have_local_fork(c)
  <2>1. d = make_save_point(c, i) /\ c.fork = << >>
    BY <1>2 DEF DP_canvas_history_save_point_make, have_local_fork
  <2>2. /\ i \in 1 .. Len(c.entries) /\ is_valid_save_point_entry(c.entries[i])
        /\ \A j \in i + 1 .. Len(c.entries) : ~DoneDraw(c.entries[j])
    BY SavePointIndex
  <2> HIDE DEF i, d
  <2>3. /\ Kept(d, z) /\ Whole(d, z) = Whole(c, z) /\ d.fork = c.fork
        /\ SamePlace(c, d) /\ d.current = c.current
        /\ Len(d.entries) = Len(c.entries)
        /\ \A j \in 1 .. Len(c.entries) :
             d.entries[j].undo = c.entries[j].undo /\ d.entries[j].msg = c.entries[j].msg
    BY <2>1, <2>2, MakeSavePointKept
  <2>4. Right(d, z)
    BY <2>3, Zenon DEF Right, View
  <2>5. Since(d) = 0
    BY <2>1, <2>3 DEF Since, have_local_fork
  <2>6. Since(d) \in {0, Since(c)}
    BY <2>5
  <2>7. SameMarks(c.entries, d.entries)
    BY <2>3, Zenon DEF SameMarks
  <2> QED BY <2>3, <2>4, <2>6, <2>7, Zenon DEF Untouched, SamePlace, d
<1> QED BY <1>1, <1>2

----------------------------------------------------------------------------
(* Histories that start over.                                              *)

(* A history that has only its initial entry, which holds the canvas cs,   *)
(* and perhaps a fork that starts there.                                   *)
Begun(d, cs) ==
  /\ d.entries = <<InitialEntry(cs)>> /\ d.offset = 0
  /\ have_local_fork(d) => fork_start_index(d) = 1

(* It is kept, and draws that canvas.                                      *)
LEMMA BegunKept ==
  ASSUME NEW d, Sound(d), NEW cs \in Canvas, Begun(d, cs)
  PROVE  Kept(d, cs) /\ Whole(d, cs) = cs /\ Since(d) = 0
<1> DEFINE e == InitialEntry(cs)
           es == <<e>>
<1>1. /\ e.state = cs /\ cs # NoState /\ is_undo_point_entry(e) /\ e.msg.user = Nobody
      /\ ~DoneDraw(e)
  BY NoStateIsNoCanvas DEF InitialEntry, UndoPointBy, is_undo_point_entry, DoneDraw, IsDraw
<1> HIDE DEF e
<1>2. Len(es) = 1 /\ es[1] = e /\ DOMAIN es = 1 .. 1
  OBVIOUS
<1>3. d.entries = es /\ d.entries \in Seq(SoundEntry)
  BY HistoryHas DEF Begun, e
<1> HIDE DEF es
<1>4. Rooted(es, d.limit)
  BY <1>1, <1>2 DEF Rooted, Initial
<1>5. ASSUME NEW i \in 0 .. 1 PROVE ReplayedTo(es, 0, cs, i) = cs
  <2>1. es \in Seq(SoundEntry) /\ i \in 0 .. Len(es) /\ 0 \in 0 .. Len(es) /\ 0 <= 0 /\ 0 <= i
    BY <1>2, <1>3
  <2>2. \A j \in 0 + 1 .. i : ~DoneDraw(es[j])
    BY <1>1, <1>2
  <2>3. ReplayedTo(es, 0, cs, i) = ReplayedTo(es, 0, cs, 0)
    BY <2>1, <2>2, ReplaySkips
  <2>4. ReplayedTo(es, 0, cs, 0) = cs
    BY <2>1, ReplayNowhere
  <2> QED BY <2>3, <2>4
<1>6. Coherent(es, cs)
  <2> SUFFICES ASSUME NEW i \in 1 .. 1 PROVE CoherentAt(es, cs, i)
    BY <1>2 DEF Coherent
  <2>1. i = 1 /\ 1 \in 0 .. 1
    OBVIOUS
  <2> QED BY <1>1, <1>2, <1>5, <2>1 DEF CoherentAt
<1>7. ASSUME have_local_fork(d) PROVE ForkKept(d) /\ Depth(d.entries, fork_start_index(d) + 1) = 0
  <2>1. fork_start_index(d) = Len(d.entries)
    BY <1>2, <1>3, <1>7 DEF Begun
  <2>2. Rooted(d.entries, d.limit)
    BY <1>3, <1>4, Zenon
  <2> QED BY <2>1, <2>2, FreshFork
<1>8. Kept(d, cs)
  BY <1>3, <1>4, <1>6, <1>7, Zenon DEF Kept
<1>9. Whole(d, cs) = cs
  <2>1. 1 \in 0 .. 1
    OBVIOUS
  <2> QED BY <1>2, <1>3, <1>5, <2>1, Zenon DEF Whole
<1> QED BY <1>7, <1>8, <1>9, Zenon DEF Since

(* What a reset leaves of a history.                                       *)
LEMMA ResetToStateIs ==
  ASSUME NEW c \in SoundHistory, NEW cs \in Canvas
  PROVE  LET d == reset_to_state(c, cs)
         IN /\ d \in SoundHistory /\ d.entries = <<InitialEntry(cs)>> /\ d.offset = 0
            /\ d.fork = c.fork /\ d.current = cs /\ d.limit = c.limit /\ d.markDone = TRUE
            /\ d.entries # << >>
<1> DEFINE es == <<InitialEntry(cs)>>
           d == [c EXCEPT !.current = cs, !.entries = es, !.offset = 0, !.markDone = TRUE]
<1>1. es \in Seq(SoundEntry) /\ es # << >>
  BY InitialEntries
<1>2. reset_to_state(c, cs) = d
  BY DEF reset_to_state
<1> HIDE DEF es
<1>3. /\ d \in SoundHistory /\ d.entries = es /\ d.offset = 0 /\ d.limit = c.limit
      /\ d.fork = c.fork /\ d.current = cs /\ d.markDone = TRUE
  BY <1>1 DEF SoundHistory
<1> QED BY <1>1, <1>2, <1>3 DEF es

(* The history d, which starts over with the canvas cs.                    *)
StartsOver(d, cs) ==
  /\ Kept(d, cs) /\ Right(d, cs) /\ Whole(d, cs) = cs /\ Since(d) = 0
  /\ d.offset = 0 /\ d.markDone = TRUE

(* A reset without a fork.                                                 *)
LEMMA ResetToStateKept ==
  ASSUME NEW c, Sound(c), c.fork = << >>, NEW cs \in Canvas
  PROVE  LET d == reset_to_state(c, cs)
         IN StartsOver(d, cs) /\ d.limit = c.limit /\ d.fork = << >> /\ d.current = cs
            /\ d \in SoundHistory
<1> DEFINE d == reset_to_state(c, cs)
<1>1. c \in SoundHistory
  BY DEF Sound
<1>2. /\ d \in SoundHistory /\ d.entries = <<InitialEntry(cs)>> /\ d.offset = 0
      /\ d.fork = c.fork /\ d.current = cs /\ d.limit = c.limit /\ d.markDone = TRUE
      /\ d.entries # << >>
  BY <1>1, ResetToStateIs
<1> HIDE DEF d
<1>3. ~have_local_fork(d)
  BY <1>2 DEF have_local_fork
<1>4. Sound(d) /\ Begun(d, cs)
  BY <1>2, <1>3 DEF Sound, StartsWithin, Begun
<1>5. Kept(d, cs) /\ Whole(d, cs) = cs /\ Since(d) = 0
  BY <1>4, BegunKept
<1>6. Right(d, cs)
  <2>1. Shown(cs, << >>) = cs
    BY ShownNothing
  <2> QED BY <1>2, <1>5, <2>1, Zenon DEF Right, View
<1> QED BY <1>2, <1>5, <1>6, Zenon DEF StartsOver, d

(* A session reset.                                                        *)
LEMMA ResetKept ==
  ASSUME NEW c, Sound(c)
  PROVE  LET d == DP_canvas_history_reset(c)
         IN StartsOver(d, BlankCanvas) /\ d.limit = UndoDepthDefault /\ d.fork = << >>
            /\ d.current = BlankCanvas
<1> DEFINE a == [c EXCEPT !.fork = << >>]
           b == reset_to_state(a, BlankCanvas)
           d == DP_canvas_history_reset(c)
<1>1. Sound(a) /\ a.fork = << >>
  BY ClearFork DEF Sound, SoundHistory
<1>2. d = [b EXCEPT !.limit = UndoDepthDefault]
  BY DEF DP_canvas_history_reset, DP_canvas_history_reset_to_state
<1> HIDE DEF a, d
<1>3. BlankCanvas \in Canvas
  BY BlankCanvasType
<1>4. a \in SoundHistory
  BY <1>1 DEF Sound
<1>5. /\ b \in SoundHistory /\ b.entries = <<InitialEntry(BlankCanvas)>> /\ b.offset = 0
      /\ b.fork = a.fork /\ b.current = BlankCanvas /\ b.markDone = TRUE /\ b.entries # << >>
  BY <1>3, <1>4, ResetToStateIs
<1> HIDE DEF b
<1>6. UndoDepthDefault \in UndoDepthMin .. UndoDepthMax
  BY HistoryAssumption DEF HistoryAssumption
<1>7. /\ d \in SoundHistory /\ d.entries = b.entries /\ d.offset = 0 /\ d.fork = << >>
      /\ d.current = BlankCanvas /\ d.markDone = TRUE /\ d.limit = UndoDepthDefault
  BY <1>1, <1>2, <1>5, <1>6 DEF SoundHistory
<1>8. ~have_local_fork(d)
  BY <1>7 DEF have_local_fork
<1>9. Sound(d) /\ Begun(d, BlankCanvas)
  BY <1>5, <1>7, <1>8 DEF Sound, StartsWithin, Begun
<1>10. Kept(d, BlankCanvas) /\ Whole(d, BlankCanvas) = BlankCanvas /\ Since(d) = 0
  BY <1>3, <1>9, BegunKept
<1>11. Right(d, BlankCanvas)
  <2>1. Shown(BlankCanvas, << >>) = BlankCanvas
    BY <1>3, ShownNothing
  <2> QED BY <1>7, <1>10, <2>1, Zenon DEF Right, View
<1> QED BY <1>7, <1>10, <1>11, Zenon DEF StartsOver, d

(* The canvas without the fork, from the latest save point before it.      *)
LEMMA BareIs ==
  ASSUME NEW c, Sound(c), NEW z \in Canvas, c.entries[1].state # NoState,
         Coherent(c.entries, z), have_local_fork(c)
  PROVE  LET d == search_and_replay_from(c, fork_start_index(c), FALSE)
         IN /\ Sound(d) /\ d.current = Whole(c, z) /\ d.fork = c.fork /\ d.limit = c.limit
<1> DEFINE p == fork_start_index(c)
           no == FALSE
           d == search_and_replay_from(c, p, no)
<1>1. p \in 1 .. Len(c.entries) /\ no \in BOOLEAN /\ ~no
  BY HistoryHas
<1> HIDE DEF p, no
<1>2. Partly(c.entries, z, p)
  BY Zenon DEF Partly, Coherent
<1>3. /\ Sound(d) /\ d.current = Whole(c, z) /\ d.fork = c.fork /\ d.limit = c.limit
  BY <1>1, <1>2, SearchReplay
<1> QED BY <1>3 DEF d, p, no

(* A fork drawn on a history that starts over.                             *)
LEMMA ForkReplayed ==
  ASSUME NEW c \in SoundHistory, NEW cs \in Canvas,
         c.entries = <<InitialEntry(cs)>>, c.offset = 0, c.markDone = TRUE, c.entries # << >>
  PROVE  LET d == replay_fork_dec(c, cs)
         IN StartsOver(d, cs) /\ d.limit = c.limit /\ d.fork = c.fork
<1> DEFINE d == replay_fork_dec(c, cs)
           b == Head(c.fork).type = "UndoPoint"
           a == set_fork_start(c, b)
           v == Shown(cs, c.fork)
<1>1. Sound(d)
  BY ReplayFork
<1>2. d = [a EXCEPT !.current = v]
  BY DEF replay_fork_dec, Shown, DrawsOf, ForkDraws
<1>3. b \in BOOLEAN
  OBVIOUS
<1> HIDE DEF b, v, d
<1>4. Sound(a)
  BY <1>3, SetForkStart
<1>5. /\ a.entries = c.entries /\ a.offset = c.offset /\ a.fork = c.fork /\ a.limit = c.limit
      /\ a.forkStart = c.offset + Len(c.entries) /\ a.markDone = c.markDone
  BY DEF set_fork_start, SoundHistory
<1> HIDE DEF a
<1>6. /\ d.entries = c.entries /\ d.offset = 0 /\ d.fork = c.fork /\ d.limit = c.limit
      /\ d.forkStart = 1 /\ d.markDone = TRUE /\ d.current = v
  <2>1. /\ d.entries = a.entries /\ d.offset = a.offset /\ d.fork = a.fork /\ d.limit = a.limit
        /\ d.forkStart = a.forkStart /\ d.markDone = a.markDone /\ d.current = v
    BY <1>2, <1>4 DEF Sound, SoundHistory
  <2>2. Len(c.entries) = 1
    OBVIOUS
  <2> QED BY <1>5, <2>1, <2>2
<1>7. Begun(d, cs)
  BY <1>6 DEF Begun, fork_start_index
<1>8. Kept(d, cs) /\ Whole(d, cs) = cs /\ Since(d) = 0
  BY <1>1, <1>7, BegunKept
<1>9. Right(d, cs)
  BY <1>6, <1>8, Zenon DEF Right, View, v
<1> QED BY <1>6, <1>8, <1>9, Zenon DEF StartsOver, d

(* A reset that keeps the fork starts over with the canvas without it.     *)
LEMMA ResetKeepingForkKept ==
  ASSUME NEW c, Sound(c), NEW z \in Canvas, c.entries[1].state # NoState,
         Coherent(c.entries, z), Right(c, z)
  PROVE  LET d == ResetKeepingFork(c)
         IN /\ StartsOver(d, Whole(c, z)) /\ d.limit = c.limit /\ d.fork = c.fork
            /\ c.fork = << >> => d.current = c.current
<1> DEFINE cs == Whole(c, z)
           e == search_and_replay_from(c, fork_start_index(c), FALSE)
           d == ResetKeepingFork(c)
           ok == /\ StartsOver(d, cs) /\ d.limit = c.limit /\ d.fork = c.fork
                 /\ c.fork = << >> => d.current = c.current
<1>1. cs \in Canvas
  BY WholeType
<1>2. ASSUME have_local_fork(c) PROVE ok
  <2>1. Sound(e) /\ e.current = cs /\ e.fork = c.fork /\ e.limit = c.limit
    BY <1>2, BareIs
  <2> DEFINE a == reset_to_state(e, cs)
  <2>2. d = replay_fork_dec(reset_to_state(e, e.current), reset_to_state(e, e.current).current)
    BY <1>2, Zenon DEF ResetKeepingFork
  <2> HIDE DEF d, e, cs
  <2>3. e \in SoundHistory
    BY <2>1 DEF Sound
  <2>4. /\ a \in SoundHistory /\ a.entries = <<InitialEntry(cs)>> /\ a.offset = 0
        /\ a.fork = e.fork /\ a.current = cs /\ a.limit = e.limit /\ a.markDone = TRUE
        /\ a.entries # << >>
    BY <1>1, <2>3, ResetToStateIs
  <2>5. d = replay_fork_dec(a, cs)
    BY <2>1, <2>2, <2>4, Zenon
  <2> HIDE DEF a
  <2>6. StartsOver(d, cs) /\ d.limit = a.limit /\ d.fork = a.fork
    BY <1>1, <2>4, <2>5, ForkReplayed
  <2>7. StartsOver(d, cs) /\ d.limit = c.limit /\ d.fork = c.fork
    BY <2>1, <2>4, <2>6, Zenon DEF StartsOver
  <2>8. c.fork # << >>
    BY <1>2 DEF have_local_fork
  <2> QED BY <2>7, <2>8, Zenon
<1>3. ASSUME ~have_local_fork(c) PROVE ok
  <2>1. d = reset_to_state(c, c.current)
    BY <1>3, Zenon DEF ResetKeepingFork
  <2>2. c.fork = << >>
    BY <1>3 DEF have_local_fork
  <2>3. c.current = cs
    BY <1>1, <2>2, ShownNothing DEF Right, View
  <2> HIDE DEF d, cs
  <2>4. StartsOver(d, cs) /\ d.limit = c.limit /\ d.fork = << >> /\ d.current = cs
    BY <1>1, <2>1, <2>2, <2>3, ResetToStateKept
  <2> QED BY <2>2, <2>3, <2>4, Zenon
<1> QED BY <1>2, <1>3, Zenon

(* A soft reset.                                                           *)
LEMMA SoftResetKept ==
  ASSUME NEW c, NEW z, Kept(c, z), Right(c, z)
  PROVE  LET d == DP_canvas_history_soft_reset(c)
         IN /\ StartsOver(d, Whole(c, z)) /\ d.limit = c.limit
            /\ c.fork = << >> => d.current = c.current /\ d.fork = << >>
<1>1. Sound(c) /\ z \in Canvas /\ c.entries[1].state # NoState /\ Coherent(c.entries, z)
  BY DEF Kept, Rooted
<1> DEFINE d == ResetKeepingFork(c)
<1>2. /\ StartsOver(d, Whole(c, z)) /\ d.limit = c.limit /\ d.fork = c.fork
      /\ c.fork = << >> => d.current = c.current
  BY <1>1, ResetKeepingForkKept
<1> QED BY <1>2, Zenon DEF DP_canvas_history_soft_reset

(* Another undo depth.                                                     *)
LEMMA UndoDepthLimitSetKept ==
  ASSUME NEW c, NEW z, Kept(c, z), Right(c, z), NEW limit \in Nat
  PROVE  LET d == DP_canvas_history_undo_depth_limit_set(c, limit)
         IN /\ StartsOver(d, Whole(c, z)) /\ d.limit \in UndoDepthMin .. UndoDepthMax
            /\ c.fork = << >> => d.current = c.current /\ d.fork = << >>
<1> DEFINE effective == IF limit < UndoDepthMin THEN UndoDepthMin
                        ELSE IF limit > UndoDepthMax THEN UndoDepthMax ELSE limit
           a == [c EXCEPT !.limit = effective]
           d == ResetKeepingFork(a)
<1>1. effective \in UndoDepthMin .. UndoDepthMax
  BY HistoryAssumption DEF HistoryAssumption
<1>2. DP_canvas_history_undo_depth_limit_set(c, limit) = d
  BY DEF DP_canvas_history_undo_depth_limit_set
<1> HIDE DEF effective
<1>3. Sound(c) /\ z \in Canvas /\ c.entries[1].state # NoState /\ Coherent(c.entries, z)
  BY DEF Kept, Rooted
<1>4. Sound(a)
  BY <1>1, <1>3, LimitChanged
<1>5. /\ a.entries = c.entries /\ a.fork = c.fork /\ a.current = c.current /\ a.limit = effective
  BY <1>3 DEF Sound, SoundHistory
<1> HIDE DEF a
<1>6. Whole(a, z) = Whole(c, z) /\ Right(a, z)
  BY <1>5, Zenon DEF Whole, Right, View
<1>7. /\ StartsOver(d, Whole(a, z)) /\ d.limit = a.limit /\ d.fork = a.fork
      /\ a.fork = << >> => d.current = a.current
  BY <1>3, <1>4, <1>5, <1>6, ResetKeepingForkKept
<1> HIDE DEF d
<1> QED BY <1>1, <1>2, <1>5, <1>6, <1>7, Zenon DEF StartsOver

(* A new history.                                                          *)
LEMMA NewKept ==
  ASSUME NEW cs \in Canvas
  PROVE  LET d == DP_canvas_history_new(cs)
         IN StartsOver(d, cs) /\ d.limit = UndoDepthDefault /\ d.fork = << >>
            /\ d.current = cs
<1> DEFINE d == DP_canvas_history_new(cs)
<1>1. Sound(d)
  BY NewSound
<1>2. /\ d.entries = <<InitialEntry(cs)>> /\ d.offset = 0 /\ d.fork = << >>
      /\ d.current = cs /\ d.markDone = TRUE /\ d.limit = UndoDepthDefault
  BY DEF DP_canvas_history_new
<1> HIDE DEF d
<1>3. Begun(d, cs)
  BY <1>2 DEF Begun, have_local_fork
<1>4. Kept(d, cs) /\ Whole(d, cs) = cs /\ Since(d) = 0
  BY <1>1, <1>3, BegunKept
<1>5. Right(d, cs)
  <2>1. Shown(cs, << >>) = cs
    BY ShownNothing
  <2> QED BY <1>2, <1>4, <2>1, Zenon DEF Right, View
<1> QED BY <1>2, <1>4, <1>5, Zenon DEF StartsOver, d

=============================================================================
