# Drawpile: a verification development

Drawpile lets several users draw on one canvas. Clients draw their own commands at
once and send them to a server; the server keeps the session's history and sends
every command to every client in one order. This directory models, checks and
partly proves the three places where that promise is kept or broken:

* in the **client**, the canvas history: what a client draws ahead of the server
  (the local fork), undo and redo by anybody, and how the two are reconciled;
* in the **server**, the session: who has been sent what, and how a history that
  has grown too large is replaced (reset) while the session goes on;
* on the **disk** of the server: the files a session is kept in, what a crash leaves
  of them at every point of a reset, and the session that is loaded from them.

Paths below are relative to the repository; the C engine is in
`src/drawdance/libengine/dpengine` (`canvas_history.c` is abbreviated `CH`), the
server in `src/libserver`, the client's Qt part in `src/libclient`.

## Inventory

| Component | State | Operations | Interacts with | What makes it correct |
|---|---|---|---|---|
| Canvas history and local fork (`canvas_history.c`) | entries with undo marks and saved states, fork entries, fork start, fallbehind, undo depth | local command, remote command, batch of dabs, undo/redo, reset, soft reset, undo depth change, snapshot, disconnect | paint engine (calls), canvas state (replay), affected areas | equal orders give equal canvases; an undo finds a state to replay from; memory is bounded |
| Affected areas (`affected_area.c`) | areas of indirect strokes | make, concurrent with | canvas history | commands called concurrent commute |
| Canvas state (`canvas_state.c`) | the document | handle a message | canvas history | the same messages give the same document |
| Paint engine (`paint_engine.c`) | local and remote queues, ACL state, previews | push, handle, render | client, history, ACL, threads | one order on the paint thread; filtered commands leave no trace |
| Session history (`sessionhistory.cpp`, `inmemoryhistory.cpp`, `filedhistory.cpp`) | messages, index range, size, reset stream, bans, invites | add, batch, full reset, start/add/prepare/resolve/abort of a streamed reset | sessions | indices never repeat; nobody misses or repeats a message |
| Session (`session.cpp`, `client.cpp`, `opcommands.cpp`) | state, clients, operators, resetter, image being uploaded | join, leave, ownership, commands, init and reset | history, clients | it never waits for who is gone |
| Streamed and automatic resets (`thinsession.cpp`, `thinserverclient.cpp`) | query status, candidates, timer, flags, positions | query, ready, trigger, start, stream, finish, abort | session, history | one trusted streamer; every client ends up at the same history |
| Login (`loginhandler.cpp`, `login.cpp`) | dialogue state | one per message | session server, ext-auth | nobody gets in past a check |
| User ids and bans (`idqueue.cpp`, `sessionban.cpp`) | queue of free ids, bans | next, reserve, add, remove | login, session | ids of present users differ |
| Access control (`acl.c`) | locks, tiers, features | filter a message | paint engine | all clients filter alike |
| Transport (`messagequeue.cpp`, `tcpmessagequeue.cpp`) | buffers, ping timers, throttle | send, receive, ping, disconnect | sockets | order is kept; a dead peer is noticed |
| Message serialization, reset streams (`libmsg`, `reset_stream.c`) | none, or a codec | encode, decode | all | round trip |
| Client session objects, built-in session (`libclient/net`, `libclient/server`) | session list, users, reset state | Qt slots | client, paint engine | the user list is the server's |
| Renderer, tile queues, snapshots | dirty tiles | render, cancel | paint engine threads | the last state is shown |
| Pixels, brushes, file formats | none | pure functions | canvas state | tests fit better |
| Desktop interface | widgets | - | client | - |

`PROJECT.json` lists these with what is modelled of each, and every hazard with the
line where it bites. The hard behaviours are: a local command and remote commands
crossing on the wire; saved states that outlive the undo marks they were made
under; truncation at the undo depth; streamed resets that take effect only once
every client has passed their start; full resets that throw away what was not yet
sent; operators who leave, lose their status or do not answer; a server that stops
between two writes to its files.

## Modules

| Module | Models |
|---|---|
| `AffectedArea` | the concurrency predicate of `affected_area.c` |
| `CanvasState` | drawing, abstracted to which commands are on the canvas and the order of those that are not concurrent |
| `CanvasHistory` | the canvas history, one action per operation, of one client |
| `UndoLog` | the abstract specification: a log of strokes and undos with no fork, no saved states and no truncation |
| `CanvasSync` | a client with a fork, the server's order, and a reference client that has only the server's order |
| `MCCanvasSync` | values of the constants for model checking |
| `CanvasHistoryProofs` | the inductive invariant of `CanvasHistory` and the theorems; what the handlers do to the canvas |
| `SessionHistory` | the server's history kept in memory, as operators from history to history named after the methods |
| `ThinSession` | a session, as operators from session to session named after the methods |
| `SessionSync` | a session with its clients: connections, timers, what users do, what clients answer |
| `MCSessionSync` | values of the constants for model checking |
| `DurableHistory` | the abstract specification of a stored session: a history of `SessionHistory`, and next to it what a crash would leave of it |
| `IdQueue` | the queue of user ids and the id each name has had (`idqueue.cpp`) |
| `FiledHistory` | journal, recordings, index of blocks and both resets of `filedhistory.cpp`, a step for each write to the disk that a restart can tell; crash and load |
| `StoredSession` | a session that uses them: users come, leave and come back by name, draw, reset; the server stops and starts |
| `MCStoredSession` | values of the constants for model checking |
| `CanvasSyncProofs` | that `CanvasSync` implements `CanvasHistory`, that the fork is always under way, and that canvases are what the log draws |
| `ThinSessionProofs` | what each method of the session keeps true of it, and of its history |
| `SessionSyncProofs` | the inductive invariants of `SessionSync`: resets and indices, and that all clients agree with the history |
| `StoredSessionProofs` | the inductive invariant of `StoredSession`: a session can always be loaded, its users have their ids |
| `StoredIndexProofs` | that the index of blocks leads to the messages of the recording, through all that happens to both |
| `StoredDurableProofs` | that `StoredSession` implements `DurableHistory`, that its users are those of its history, and that ids are reused late |
| `DataFacts` | facts about numbers, parts of sequences and folds that the proofs share |

### The client

The state of `CanvasHistory` is that of `DP_CanvasHistory`: `entries` (each with its
command, undo mark and possibly a saved state), `fork` (start index, queue,
fallbehind) and the undo depth. Indices are those of the C array after
truncation. A command is a record with its user and kind (stroke, undo point,
undo, ...), and the pixels and area it has; a canvas is the set of the commands
that were applied to it, together with the order of each two that are not
concurrent, so two canvases are equal exactly when the same commands were drawn
and none that overlap in a different order. `CanvasSync` adds `uplink`, the commands
between the client and the server, and the reference client. Foreign commands
appear at any point; own ones come back in order.

### The server

`SessionSync` has three variables: the session `sv`, the clients `cl` and bounded
counters. Qt's direct signals call their slots at once, so a method of the
session with all it causes (sending, resolving a streamed reset, asking for a
reset) is one step, and that step is one operator of `ThinSession`. Between
steps lie the network and the timers: `AllSent` is the socket's buffer running
empty, which is the only thing that wakes up a busy connection; `Read` is a
client reading what has arrived; `HandleMessage` is the server reading what a
client has sent. A client's canvas is the sequence of what it was told to draw.
Clients may decline to answer a query, a request or an image: the conditions on
which the real client declines (not caught up, no permission in the settings, an
image that is too large) are a choice.

What users do (draw, ask for a reset, change owners) is handled at once, after all
the client has sent before: it does not depend on what that client has read, so a
command under way is the same as one not yet sent. `Read` reads up to the next
message that the client does something about; reading earlier or later than that
cannot be told apart. Both keep the state space small without losing an order.

### The files

A recording is a sequence of cells, its header and then one per message, so that
an offset in the file is a number of cells. What the process has written but not
flushed is `unsaved`, kept with the file's position; `Seen` is the file as the
process sees it, `Flushed` what flushing makes of the disk. `fh` has the fields of
`FiledHistory`: the recording and its blocks (place in the file, first index, count,
and the messages once the block has been read), those of a reset that is being
streamed, and the indices and sizes it inherits from `SessionHistory`, whose
guards and result codes are used as they are. A reset writes several files in
turn; `call.at` says how far it has come:

| `call.at` | Full reset (`historyReset`) | Streamed reset (`resolveResetStream`) |
|---|---|---|
| `none` | not begun | not begun |
| `opened` | old recording closed, new one opened with its header | |
| `named` | the journal names the new one | |
| `copied` | | the fork's messages copied behind the image, file flushed |
| `journalled` | | the journal names it, the old one is still there |
| `none` again | old one removed, messages written | old one removed, blocks moved |

The step to `opened` closes (and so flushes) the old recording, removes the file of a
stream and opens the new one: a stop between these would leave files that no journal
names, and nothing else that a crash before or after the step does not leave.
The server is one thread, so only a crash comes between these steps. `Crash(k, torn)`
lets the first `k` unsaved cells of the recording reach the disk, and perhaps the first
part of the next; `Shutdown` closes the files in good order; `load` scans the
recording the journal names last up to a torn message, says goodbye to who was
still in it, and begins with everything in memory forgotten. Entries of the journal
are small and flushed at once, so they are on the disk as soon as they are written.
The ids are given out by the queue; a name that comes back gets its last
id if it is free; `loadedIdQueue` makes the queue anew from the `USER` entries and
the leaves in the recording.

A join is two steps as well. `Join` and `Rejoin` are `Session::joinUser` up to the messages
it adds to the history, `Enter` is its call of `SessionHistory::joinUser`, which writes the
`USER` entry (`session.cpp:369`); `joining` holds who is in between. When the server stops
there, the journal does not know of an id that is in the recording, or was
given out and is in neither. The ghost variable `given` has all ids ever given out.

## Runs

| Run | Asks | Result |
|---|---|---|
| `strokes` | two users draw and undo, own commands are under way, the client disconnects: do both clients show the same, and do the undo marks agree? | holds, 575 thousand states |
| `rollbacks` | own strokes conflict with foreign ones, are filtered, batched, or fall too far behind while a stroke is in progress | holds, 472 thousand |
| `follower` | two users undo and redo each other's work beyond the depth limit, and a third, the local one, watches: the marks implement `UndoLog` | holds, 181 thousand |
| `sessions` | resets, soft resets, depth changes, snapshots, filtered commands and a disconnect, each with a fork under way; the fork drains | holds, 1.1 million |
| `streamed` | the server has an operator stream a new base at the size limit, while users join, leave, draw, change owners become operator by password or ask for a full reset | holds, 1.1 million |
| `resets` | full resets race with changes of operators, leaves and the automatic reset | holds, 47 thousand |
| `storage` | users come, leave and come back, draw, and reset the session in both ways; the server crashes or stops between any two steps, those of a join and of a reset too, and loads the session again | holds, 384 thousand |
| `stray`, `savepoint`, `stale`, `resurrected`, `ghosts` | see Findings | violated |

Bounds. *Client*: two ids plus the wildcard, two pixels (one to conflict on, one
to not), two users (three in `follower`, where one undoes another's undo and the
local user issues nothing), an undo
depth of three or four so that truncation happens, three own commands and three
foreign ones, two under way. `sessions` also asks for an undo depth of nine so that
the clamp acts. *Server*: two clients, of whom either may be the host, the
streamer, the slow one or the one who leaves; every message has size one;
`streamed` has a size limit of eight, which the history reaches, and a threshold
of one, so the join of the second client already makes the server ask; the invited
guest is an operator from the start, so that one change of owners can take the
streamer's status away, and it has the better system, so that it and not who
answers first is chosen. `resets` has two commands, so that one operator can stop
the session and the other take the resetter's status away; it asks again once
after a failed query, and only the host can stream, so that the guest, once
chosen, does the old kind of reset. One drawing command is enough in `streamed`
because joins, owner changes and markers lie around the fork as well, and the
initial canvas is not empty. `HasOpword`, whether there is a password for operators,
is true in `streamed` (a session may then be without operators for a while) and
false in `resets`, where the first client is made operator when the last one goes. `MaxRetries`, `MaxJoins`, `MaxDraws`, `MaxCommands`
bound the counters of the same names; leaves need no bound, they use up joins.
Deadlock is not checked because users may stop.
*Files*: three ids for two names, so that an id is free when a newcomer comes and the
queue's order matters; two users at once; a block is closed when its size exceeds that
of one message, so that two messages fill it, every reset has blocks to move and every
fetch reads a part of the history; a size limit of seven that one run of a stream reaches or not, depending on what
has come before; one drawing, two joins, one reset of each kind, one read of a block and
two stops, so that a crash may follow a restart. A reset and a stream in one behaviour,
with joins and the drawing around either, are every combination the code tells
apart: nothing it keeps counts further than "is there another file of this name".
What `LateReuse` needs to go wrong after a crash in the middle of a join (an id in the
recording and not in the journal, and further joins by other names) takes more joins than
these; that case rests on the theorem `IdsReusedLate`, which has no bounds.
Deadlock is not checked because a session may be over.

What the properties say. *Client*: `Converged`: the client shows what
the reference client shows, with its own fork on top. `MarksAgree`, `UndosAgree`: own undos have the
same effect here and there. `SavePointsCoherent`: every saved state is what
replaying the entries before it gives. `SavePointsValid`, `ForkStartReachable`: see
Proofs. `ForkInFlight`: the fork holds just what is under way and not filtered.
`UndoReachable`: truncation leaves a state that every undo within the limit can start
from. `FollowsUndoLog`: refinement. `ForkDrains`: every fork empties. *Server*:
`CanvasesAgree`: after reading what is sent or due, every client shows what
somebody shows who joins now. `UsersAgree`: the same for the user list, which is
that of the session. `IndicesExact`: indices count messages across resets and the
fork of a streamed reset is where its start index says. `StreamerAsked`: who
streams is present, an operator and was asked. `ResetterPresent`: a stopped
session waits for an operator who is there. `QueryEnds`: a query is answered or
given up. `Delivered`: a client that is behind catches up. *Files*: `Recoverable`: the
journal names a recording that is there and has its header, at every step.
`ImplementsDurable`: refinement of `DurableHistory`; in particular a crash loses some
last messages and never one in the middle, a streamed reset has happened as a whole or
not at all, and the indices and sizes in memory are those `SessionHistory` computes.
`BatchesExact`: from every place in the history the blocks give exactly what follows.
`PresentAgree`: who has joined and not left in the history is in the session, and
nobody joins twice without leaving, also after a restart. `LateReuse`: the id of
another name is not given to a newcomer while some id has never been given to anybody,
also after a restart. (That no other *name* has had it would be too much: after a crash in
the middle of a join an id has been given out to a name that the journal does not have.) `SavedEventually`: what is drawn reaches the disk or leaves the
history.

`DurableHistory` states what the code does where that is less than one might wish: the
server may stop after a full reset has named its recording and before the first flush,
which leaves a recording without messages, and `load` refuses an empty session. The
session is then gone.

Each property of a passing run has a mutant in `PROJECT.json`: a plausible bug in
one definition that makes TLC find the property violated under the same bounds.
The mutants stand before the definitions they mutate and are used nowhere else.

### Fairness

`EchoFairness` (client): a command under way comes back. The server echoes every
command over a connection that keeps order; a client without a server feeds
its own queue. Foreign users need not do anything. `Fairness` (server): the
timers and connections do not stop as long as they have something to do, and it does
not say which of them comes first. Users are not assumed to do anything, clients
are not assumed to answer. Both are weak fairness with the guard written out
instead of `ENABLED`. `StoredFairSpec` (files): `WF_vars(Flush)`, because a timer of
thirty seconds runs as long as the history exists (`filedhistory.cpp:48`, `timerEvent`),
and `WF_vars(Proceed)` and `WF_vars(Enter)`, because a method that has begun a reset or a
join goes on with it. A server
that has stopped need not be started again.

## Findings

Each is a violation run whose property quotes what a comment, an assertion or a
document says, and is explained in `PROJECT.json`.

* `stray` (`CH:400`): the fork is compared with the address of a pointer instead of
  the received command's area, so conflicts go unnoticed.
* `savepoint` (`CH:1364`): dropping the state at a fork's start may drop the only
  state in the history.
* `stale` (`CH:1279`): redo leaves states at fork starts as they were, undo clears
  them.
* `resurrected` (`sessionhistory.cpp:289`): a prepared streamed reset survives a full
  reset and later replaces what came after it.
* `ghosts` (`session.cpp:405`): who leaves while a full reset is under way stays in
  the others' user lists.

The passing runs keep these apart by guards named in the modules (`Features`,
`ForkIsShort`, `ResetAllowed`): a run without a feature shows what holds when its
trigger does not occur. In the passing client runs the stray bytes and the areas are
chosen so that no foreign command overlaps the fork unnoticed, forks stay within the
undo depth, and redo does not meet an own fork. In the passing server runs a full reset
waits until no streamed reset is prepared and no leave is unsent, and only the resetter
leaves while the session is stopped.
Other behaviour that was seen and is not covered by a property is listed under
"hazards" with a note. Two of these limit what can be proved of undos:

* `CH:1052`: marking what can no longer be redone stops at an undo point that is gone
  already, after counting it, and truncation goes on from there and counts it again. Where a
  save point lies between (a snapshot, or the start of a fork), the undo point at the
  depth limit is truncated although `find_first_undo_point` would allow an undo to it, and a
  client without that save point still has it. `follower` takes no snapshots;
  `strokes`, which checks `UndosAgree`, has no such history within its bounds.
* `CH:1486`: an undo that makes the fork roll back when it arrives, because the fork
  has fallen too far behind or conflicts with it, is not acted on, whoever it is from. In
  `strokes`, which checks `MarksAgree`, the fork does not conflict with anything and
  does not fall that far behind.

## Proofs

Each theorem holds for any values of the constants that satisfy the named
assumptions of the modules: any users, ids, pixels, limits, canvases and bounds.

**The canvas history** (`CanvasHistoryProofs`):

* `TypeCorrect`: `TypeOK` is an invariant of `Spec`;
* `SavePointsAlwaysValid`: only entries that are done, or undone undo points,
  hold a state (`SavePointsValid`);
* `ForkStartAlwaysReachable`: the fork starts at an entry that truncation has left
  (`ForkStartReachable`);
* `AlwaysSound`: the inductive invariant `SoundInv` behind them.

`TypeOK` is not inductive alone: whether a fork's start is within the entries
depends on what truncation removes, which depends on which entries may hold a
state. `SoundInv` therefore is the conjunction of the types, "every entry with a
state may hold one" and "a fork, if there is one, starts at an entry". Each action
has one lemma for each of the conjuncts it can disturb; the helpers on sequences
(cut off a prefix, update one entry, find the last) have lemmas of their own. No
operator that the proofs reach is declared `RECURSIVE`; replay is a fold whose
value the proofs need only know to be a canvas.

**The client in a session** (`CanvasSyncProofs`):

* `SyncImplementsHistory`: `SyncSpec => Spec`. Every step of the composition is a step
  of the history or leaves it alone, given that what is under way are messages, which
  is an invariant of its own;
* `SyncTypeCorrect`, `SyncSavePointsValid`, `SyncForkStartReachable`: so what is proved
  of the history holds throughout a session;
* `ForkAlwaysInFlight`: the fork is a suffix of what is under way (`ForkInFlight`);
* `SavePointsAlwaysCoherent`, `CanvasIsAlwaysLog`, `AlwaysHasSavePoint`: save points and
  the canvas are what the log draws (`SavePointsCoherent`, `CanvasIsLog`), and there
  always is a save point (`HasSavePoint`);
* `AlwaysConverged`: two clients converge (`Converged`), without undos.

`ForkAlwaysInFlight` is an induction over what each handler does to the fork alone: a command that
is reconciled takes the fork's head, or clears the fork, or leaves it as it is, and
it can take the head only when it comes from the client (`ForksAfter`). The invariant
adds that what is under way is the client's, that there is no fork after a disconnect,
and that no command is marked as undone: a marked command is appended without
looking at the fork, so the theorem assumes a session without the `Undone`
traffic. In the program such marks come only in reset images and recordings.

The canvas theorems assume what the findings show to be needed (`Assumed`). `ShortForks`:
no redo (finding `stale`), no commands marked as undone, and forks that are acknowledged
before the undo points that have passed and those under way reach the undo depth
(`savepoint`). `StrayIsStrict`: the area that the fork is by mistake compared with allows
an own and a foreign command to change places only when they may (`stray`). `strokes`,
`rollbacks` and `sessions` have constants of this kind. The argument has three layers.
(1) Drawing, in `CanvasHistoryProofs`: a canvas is the set of the commands on it
and the order of those that have to be ordered, so what a sequence of commands draws is known
without following it one by one (`DrawIs`); replays can be cut in two (`DrawTwice`), moved
(`DrawAlike`) and swapped with what need not stay ordered (`DrawEither`, `ShownEither`).
(2) One history: `Kept(c, z)` says that, with `z` as the canvas before the first entry, every
save point holds what the entries up to it draw; that the first entry is a save
point, and an initial one or deep enough that no undo reaches it (`Rooted`); and
that the entries after the start of a fork are done and it is within the depth
(`ForkKept`). `Right(c, z)` says that the canvas is what all entries draw with the fork on
top. Every handler keeps both, with a `z` that has moved by what it truncated
(`HandleKept`, `Advanced`), provided the command is as `Expected`. The first entry
matters because an undo takes the states of the entries it undoes: a replay has to find
one before them. (3) The session: `SavedInv` adds that every command that comes is as
expected. An own command that matches the head of the fork is that very command, for which the
numbers of drawing commands have to be unique (`Numbered`), and the undo points under way
together with those since the start of the fork stay below the depth (`Short`).
`FollowInv`, for `AlwaysConverged`, says that the client that watches has drawn what the log
draws; with undos it would have to say that both mark the same as undone, which is not so
in general, see below.

**The session** (`ThinSessionProofs`, `SessionSyncProofs`), for any number of clients, any
limits and any messages, as long as no full reset is asked for while a streamed
reset waits to take effect (the finding `resurrected`):

* `SessionTypeCorrect`: `TypeOK` is an invariant of `SyncSpec`;
* `SessionIndicesExact`: indices count messages through both kinds of resets
  (`IndicesExact`);
* `SessionStreamerAsked`, `SessionResetterPresent`: resets are in the hands of operators
  who are there (`StreamerAsked`, `ResetterPresent`);
* `SessionInvariant`: the inductive invariant `SoundSession` behind them.

`SoundSession` adds what the properties leave out: the fork of a stream lies within the
messages; also the position of who is not there is behind the last index; nobody is in the
list of clients twice, so that `removeOne` removes a user for good; a session that has
stopped streams nothing and has asked nobody for a reset. Without the last a session could
begin a stream while it waits for the resetter's image. There is one lemma for each method.
Most methods send or add messages, and what they may do is one transitive relation,
`Passes`: the users, operators and the resetter stay, a stream goes on in the same hands and
what was asked for stands, unless a prepared stream takes effect. A lemma about
`newMessagesAvailable` takes it through the loop over the clients, by a least
counterexample. Leaving needs a weaker hypothesis than the invariant, because
`updateOwnership` kicks the resetter after taking the operator status away: `StreamUpTo`
and `StateUpTo` except the user who is about to go. Nothing is assumed of what the clients
send.

That all agree is more, and depends on what clients answer:

* `SessionUsersAgree`, `SessionCanvasesAgree`: `UsersAgree` and `CanvasesAgree` hold
  throughout, through both kinds of resets and for newcomers too;
* `SessionTogether`: the inductive invariant `Together` behind them.

Three hypotheses keep away what makes them false. Two are the findings `resurrected` and
`ghosts` (the features of `Features`). The third is `EmergencyLeft`: before each step
there is emergency space for five more messages, the most that one step adds beyond the
limit (a join that also changes the operators and makes somebody leave). When that is used
up the server drops joins and leaves, which takes, as the code says, "something truly
pathological" (`thinsession.cpp:43`; the space is 1 MiB). Without a limit it always
holds; in the runs `resets` and `streamed` it does, too.

`Together` says that what is under way leads everybody to the same. What `c` ends up with
is what it shows, then its inbox, then the rest of the history (`End`), and that shows what
a newcomer sees (`Late`); the users are those present (`Agreed`). A streamed reset puts the image
in place of the messages before its fork, so the image has to show what those show
(`Forked`), and the image is one that a client has sent: it took its canvas when it saw the
start of the stream. So the invariant follows the correlators of the dialogue through
all queues: whoever sees the start that the server has asked for shows what the history
shows at the fork (`Marked`), no start answers a request that was not made yet (`Dated`), requests and
answers under way are in an order in which an old answer cannot start a new stream
(`Asking`), one client at most is asked (`Armings`), and the images that
the streamer sends are of the fork (`Streamer`). In a full reset nobody may have been sent
a user who is gone, because the image, which begins with a reset of the canvas, adds users and
removes none.

A method changes the session in several steps, and in between, users who have left the
list of clients are still in the history. `InStep(s, k, P, n)` is therefore
the invariant with the users `P` that the history shows and the room `n` that is still needed
as parameters; each method has a lemma, named after it with `Keeps` at the end, that says
what it takes of both. What clients read is proved for the fields that count (`Reader`: canvas,
users, and the starts with the canvas seen there), as a fold that can be cut
(`ReadingParts`, `ReadingCut`) and carried along a relation (`Related`). A client reads
in one step what is in its inbox up to a message it does more with; `ReadKeeps` follows both parts.

**The files** (`StoredSessionProofs`, `StoredIndexProofs`, `StoredDurableProofs`):

* `AlwaysRecoverable`: `Recoverable` is an invariant of `StoredSpec`;
* `StoredTyped`: `StoredTypeOK` is one;
* `BatchesAlwaysExact`: `BatchesExact` is one, as long as no full reset is asked for
  while a streamed reset waits to take effect (the finding `resurrected`);
* `FilesImplementDurable`: `StoredSpec` implies `ImplementsDurable`, that is, every step is
  one of `DurableHistory` or a stutter, under the same condition;
* `UsersAgreeWithFiles`, `UsersAgreeUnlimited`: `PresentAgree` holds under that condition
  while there is emergency space, and without a size limit always;
* `IdsReusedLate`: `LateReuse` holds under that condition.

`Recoverable` is not inductive alone: that the journal names a recording after a
reset depends on the file that was opened for it being there, and that the file
is not harmed by flushing depends on the position of the process in it. `RecoverableInv`
says that every file begins with its header, that an open file is at least as long as
what has been flushed to it, that the file of a stream is not that of the
recording, and what the journal names at each value of `call.at`. There is one lemma for
each action.

`StoredTypeOK` asks that the queue has every id; `QueueInv` adds that it has each once and
that names only have ids (`AllIdsOnce`). Taking the first occurrence of an id out and
putting it at the end then takes it all out (`RemovedOnce`), and a free id can be found
whenever the session is not full. After a restart the queue is a fold over the
journal and the recording; that a fold keeps what its step keeps is proved once
from its definition (`DataFacts`, by iteration over the first n elements).

`BatchesExact` speaks of what is read. `IndexInv` says why it is right: the blocks
partition the recording (`Covers`): each begins where the one before ends, in the file and
in the index, and what is cached of a block is what the file has there. While a reset is
in the middle of its steps the invariant says how far the index is behind the
recording (`Index` with a gap). For a streamed reset it says that the fork is at the
edge of a block, that the stream has an index of its own (`Fork`), and, once the messages
since the fork are copied, that the file of the stream is the image and then
those messages (`CopiedFork`): moving the blocks behind the image then gives an
index of the new file. A recording is followed as a value of its own (`Recorded`): it
stays what it is when it is flushed, and the lemmas on parts of sequences
(`SliceOfFirst`, `SliceAcross`, `SlicesJoin`, ...) compute what is at a place of it.

The refinement maps the files to a history in memory: the messages are those of the
recording as the process sees it, the stream is the part of its file that its index
covers, and `saved` is what a restart would read. `DiskInv` adds to the two
invariants what a file looks like: the header, whole messages, and perhaps one torn cell, which
the messages not yet flushed would overwrite; while the journal already names a streamed
history, nothing of it is unflushed. A flush then makes `saved` longer at its end
(`FlushedTidied`), a crash leaves a beginning of what was written wherever it tears
(`CrashedHolds`), and a reader of the file finds what was saved, without the torn cell.
What an operation does to the history is one relation, `Extends`, for those that only
add messages; the resets are followed through each of their steps, `reset_journal` being the
step `ResetSaved` and `resolveStreamedReset_journal` the step `ResolveStream` of the
abstract one. There is one lemma for each action, named after it, with `Durable` at the end.

`PresentAgree` and `LateReuse` rest on the refinement: a step of `DurableHistory` says what a
restart would read after a step, without looking into the files again. `PresentInv` says that
the messages of the history leave exactly those who are in the session, that nobody in it
joins twice without leaving, and that both would be so if the stream took the place of the
messages before its fork (`HistInv`, `Attending`). It has to say it of the stream at every
moment, because users come and go while it is under way, and of what a crash would leave
only that joins and leaves are in order: the loading server then makes whoever has not left
leave. Its other hypothesis is `EmergencyLeft`: whenever the server is ready there is
emergency space for four messages, two for a leave and two for a join. When that is used up
`addEmergencyMessage` drops the message and `PresentAgree` is false, as `UsersAgree` is in
memory. In the run `storage` it holds in every state.

`IdInv` is about two queues: that of the session, which saw users come and go, and the one
that a restart would make of the journal's USER entries (`Replayed`) and the leaves of the
recording. They are not the same, because a leave moves its id to the end when it
happens and the journal knows nothing of it, and because a crash may cut a join in
two. What both have is `GivenLast`: there is a set of ids that have been given out, the
ids of names and of those present among them, and all other ids come before these
(`UnhadFirst`). The set need not be all of `given`: an id whose join was lost altogether
may be at the front. That a leave read
from the recording keeps this needs that its user has been given the id, so the invariant
also says that every join and leave in the history, in the stream and in what a restart
would read is of such an id (`Talk`).

Only model-checked:

* `MarksAgree`, `UndosAgree`, `UndoReachable`, and `Converged` with undos. They hold
  in the runs that check them and not for all constants: see the two hazards at
  `CH:1052` and `CH:1486` under Findings.
* The refinement of `UndoLog`: it needs that, too, and what is gone, undone and done
  after a whole log, a recursion that the prover can only follow step by step.
* `CanvasesAgree` and `UsersAgree` when the emergency space is used up: they are then false.
* `PresentAgree` of a stored session when the emergency space is used up: it is then false.
* `ForkDrains`, `QueryEnds`, `Delivered`, `SavedEventually`: liveness under fairness, which is
  out of the prover's reach.

## Not modelled

* Threads inside the paint engine besides the order of its two queues; the
  renderer; previews.
* The contents of commands, and the collecting of the areas of indirect strokes.
* In the server: the initialization of a session by its host, the login dialogue, bans,
  mutes, trust, ghosts, announcements, invites as objects, catch-up keys, the built-in
  session of the client. A password for operators is there from the beginning or never
  (`HasOpword`), which stands for authenticated operators too.
* Of the files: journal entries that only set a value (title, flags, passwords, bans,
  invites), archiving instead of removing, reads and writes that fail, the bytes
  a torn message leaves behind a shorter one: a message is one cell, so what
  `ImplementsDurable` says of a crash after a crash has the condition that the next
  write covers what was torn. In `StoredSession`, how far clients
  are and operators beside the first user; `SessionSync` has them.
* The client's own fork in `SessionSync`: a client shows what it was sent.
* More than two clients of a session; sizes other than one; pings.
* The ACL: which commands are filtered is a choice of the model.

## Plan

1. `CanvasHistory`, `CanvasSync`, `UndoLog`: the client's core (done), types and save
   points proved, alone and in a session (done), the fork proved to be under way (done),
   canvases and save points proved to be what the log draws, and clients without undos
   to converge (done).
2. `SessionHistory`, `ThinSession`, `SessionSync`: the server's core (done); indices,
   streamer and resetter, and the agreement of users and canvases proved (done).
3. `FiledHistory`, `IdQueue`, `StoredSession`: the files, with crashes between the steps
   of a reset (done), implementing `DurableHistory` and loadable at every step, their users
   and ids right (proved).
4. Extend the server: initialization by the host and hold locks; a run in which the
   image of a full reset does not fit; "give up on autoreset requests" (see the
   hazard at `thinsession.h:53`) as a violation run.
5. `LoginHandler`: the order of the checks; a login that is cut off at each step.
6. `AclState`: all clients filter alike when they see the same order.
7. `MessageQueue`: pings, timeouts, graceful disconnect.
8. Proofs: that a stored session agrees with its history and reuses ids late, also after
   it was loaded (done); that a stopped session sends nobody a part of the history.

Runs are few by design: where a later module needs one, `strokes` and `rollbacks`
can become one run, and so can the small violation runs of one module's findings
give way to guards with a note.

## Checking

`tlc -workers 2 -config streamed.cfg MCSessionSync.tla` (and so on for the other
configurations, with `MCCanvasSync.tla` for the client's and `MCStoredSession.tla` for
`storage.cfg`), `tlapm CanvasSyncProofs.tla`, and the same for the other modules whose
names end in `Proofs`. The longest runs are `sessions`, `streamed` and `storage`, of two to
three minutes.
