------------------------- MODULE StoredSessionProofs -------------------------
(***************************************************************************)
(* That a session can be loaded again wherever the server has stopped,     *)
(* proved for every value of the constants.                                *)
(***************************************************************************)
EXTENDS StoredSession, DataFacts, FiniteSetTheorems

----------------------------------------------------------------------------
(* The queue of ids: it always holds every id once.                        *)

Ids == 1 .. MaxId

Distinct(s) == \A i, j \in 1 .. Len(s) : s[i] = s[j] => i = j

(* Every id is in the queue once.                                          *)
AllIdsOnce(q) ==
  /\ q \in [ids : Seq(Ids), nameIds : [Names -> Ids \cup {NoId}]]
  /\ Distinct(q.ids) /\ ToSet(q.ids) = Ids /\ Len(q.ids) = MaxId

LEMMA NewIdQueueOk == AllIdsOnce(NewIdQueue)
<1> DEFINE ids == [i \in 1 .. MaxId |-> i]
<1>1. MaxId \in Nat
  BY IdQueueAssumption
<1>2. ids \in Seq(Ids) /\ Len(ids) = MaxId /\ \A i \in 1 .. MaxId : ids[i] = i
  BY <1>1, IsASeq DEF Ids
<1>3. ToSet(ids) = Ids
  BY DEF ToSet, Ids
<1>4. NewIdQueue = [ids |-> ids, nameIds |-> [n \in Names |-> NoId]]
  BY DEF NewIdQueue
<1> HIDE DEF ids
<1>5. Distinct(ids)
  BY <1>2 DEF Distinct
<1> QED BY <1>2, <1>3, <1>4, <1>5 DEF AllIdsOnce

(* To append to a sequence without it an element.                          *)
LEMMA AppendedDistinct ==
  ASSUME NEW S, NEW s \in Seq(S), NEW x \in S, Distinct(s), x \notin ToSet(s)
  PROVE  /\ Append(s, x) \in Seq(S) /\ Len(Append(s, x)) = Len(s) + 1
         /\ Distinct(Append(s, x)) /\ ToSet(Append(s, x)) = ToSet(s) \cup {x}
<1> DEFINE t == Append(s, x)
           n == Len(s)
<1>1. n \in Nat /\ DOMAIN s = 1 .. n
  BY LenProperties
<1>2. /\ t \in Seq(S) /\ Len(t) = n + 1 /\ t[n + 1] = x
      /\ \A i \in 1 .. n : t[i] = s[i]
  BY AppendProperties
<1>3. DOMAIN t = 1 .. n + 1
  BY <1>2, LenProperties
<1> HIDE DEF t
<1>4. \A i \in 1 .. n : s[i] # x
  BY <1>1 DEF ToSet
<1>5. Distinct(t)
  <2> SUFFICES ASSUME NEW i \in 1 .. n + 1, NEW j \in 1 .. n + 1, t[i] = t[j] PROVE i = j
    BY <1>2 DEF Distinct
  <2>1. i \in 1 .. n \/ i = n + 1
    BY <1>1
  <2>2. j \in 1 .. n \/ j = n + 1
    BY <1>1
  <2> HIDE DEF n
  <2>3. CASE i \in 1 .. n /\ j \in 1 .. n
    <3>1. s[i] = s[j]
      BY <1>2, <2>3
    <3> QED BY <2>3, <3>1 DEF Distinct, n
  <2> QED BY <1>2, <1>4, <2>1, <2>2, <2>3
<1>6. ToSet(t) = ToSet(s) \cup {x}
  <2>1. ASSUME NEW y \in ToSet(t) PROVE y \in ToSet(s) \cup {x}
    <3>1. PICK i \in 1 .. n + 1 : y = t[i]
      BY <1>3, <2>1 DEF ToSet
    <3>2. i \in 1 .. n \/ i = n + 1
      BY <1>1
    <3> QED BY <1>1, <1>2, <3>1, <3>2 DEF ToSet
  <2>2. ASSUME NEW y \in ToSet(s) PROVE y \in ToSet(t)
    <3>1. PICK i \in 1 .. n : y = s[i]
      BY <1>1, <2>2 DEF ToSet
    <3>2. i \in 1 .. n + 1
      BY <1>1
    <3> QED BY <1>2, <1>3, <3>1, <3>2 DEF ToSet
  <2>3. x \in ToSet(t)
    <3>1. n + 1 \in 1 .. n + 1
      BY <1>1
    <3> QED BY <1>2, <1>3, <3>1 DEF ToSet
  <2> QED BY <2>1, <2>2, <2>3
<1> QED BY <1>2, <1>5, <1>6 DEF t

(* An id that goes to the end of the queue, or is none.                    *)
LEMMA ReserveIdOk ==
  ASSUME NEW q, AllIdsOnce(q), NEW id
  PROVE  AllIdsOnce(reserveId(q, id))
<1>1. CASE id \notin ToSet(q.ids)
  BY <1>1 DEF reserveId
<1>2. CASE id \in ToSet(q.ids)
  <2> DEFINE rest == RemoveFirst(q.ids, id)
             ids  == Append(rest, id)
             r    == reserveId(q, id)
  <2>1. r = [ids |-> ids, nameIds |-> q.nameIds] /\ q.nameIds \in [Names -> Ids \cup {NoId}]
    BY <1>2 DEF reserveId, AllIdsOnce
  <2>2. /\ q.ids \in Seq(Ids) /\ ToSet(q.ids) = Ids /\ Len(q.ids) = MaxId
        /\ \A i, j \in 1 .. Len(q.ids) : q.ids[i] = q.ids[j] => i = j
    BY DEF AllIdsOnce, Distinct
  <2>3. /\ rest \in Seq(Ids) /\ Len(rest) = MaxId - 1
        /\ ToSet(rest) = Ids \ {id} /\ Distinct(rest)
    BY <1>2, <2>2, RemovedOnce DEF Distinct
  <2> HIDE DEF rest, r
  <2>4. /\ ids \in Seq(Ids) /\ Len(ids) = Len(rest) + 1
        /\ Distinct(ids) /\ ToSet(ids) = ToSet(rest) \cup {id}
    BY <1>2, <2>2, <2>3, AppendedDistinct
  <2>5. Len(ids) = MaxId /\ ToSet(ids) = Ids
    BY <1>2, <2>2, <2>3, <2>4, IdQueueAssumption
  <2> HIDE DEF ids
  <2> QED BY <2>1, <2>4, <2>5 DEF AllIdsOnce, r
<1> QED BY <1>1, <1>2

(* The name gets the id.                                                   *)
LEMMA SetIdForNameOk ==
  ASSUME NEW q, AllIdsOnce(q), NEW id \in Ids, NEW name \in Names
  PROVE  AllIdsOnce(setIdForName(q, id, name))
<1> DEFINE r == [q EXCEPT !.nameIds[name] = id]
<1>1. /\ r \in [ids : Seq(Ids), nameIds : [Names -> Ids \cup {NoId}]]
      /\ r.ids = q.ids
  BY DEF AllIdsOnce
<1>2. AllIdsOnce(r)
  BY <1>1 DEF AllIdsOnce
<1> QED BY <1>2, ReserveIdOk DEF setIdForName

(* The first k ids go to the end in their order.                           *)
LEMMA RotatedIs ==
  ASSUME NEW q, AllIdsOnce(q), NEW k \in 1 .. MaxId
  PROVE  LET r == Rotated(q, k)
         IN /\ r = [ids |-> r.ids, nameIds |-> q.nameIds]
            /\ r.ids \in Seq(Ids) /\ Len(r.ids) = MaxId
            /\ \A i \in 1 .. MaxId : \E j \in 1 .. MaxId :
                 r.ids[i] = q.ids[j] /\ j = IF i <= MaxId - k THEN k + i ELSE i - (MaxId - k)
<1> DEFINE s == q.ids
           n == MaxId
           a == SubSeq(s, k + 1, n)
           b == SubSeq(s, 1, k)
           t == a \o b
           r == Rotated(q, k)
           at(i) == IF i <= n - k THEN k + i ELSE i - (n - k)
<1>1. /\ n \in Nat /\ s \in Seq(Ids) /\ Len(s) = n /\ DOMAIN s = 1 .. n
      /\ \A i \in 1 .. n : s[i] \in Ids
  BY IdQueueAssumption, LenProperties, ElementOfSeq DEF AllIdsOnce
<1>2. r = [ids |-> t, nameIds |-> q.nameIds] /\ q.nameIds \in [Names -> Ids \cup {NoId}]
  <2>1. /\ q.nameIds \in [Names -> Ids \cup {NoId}]
        /\ q = [ids |-> s, nameIds |-> q.nameIds]
    BY DEF AllIdsOnce
  <2>2. Rotated(q, k) = [q EXCEPT !.ids = t]
    BY <1>1 DEF Rotated
  <2> HIDE DEF s, t, r
  <2>3. r = [q EXCEPT !.ids = t]
    BY <2>2 DEF r
  <2> QED BY <2>1, <2>3
<1> HIDE DEF s, n, r
<1>3. /\ a \in Seq(Ids) /\ Len(a) = n - k
      /\ \A i \in 1 .. n - k : a[i] = s[k + i]
  <2>1. k + 1 \in Int /\ n \in Int /\ \A i \in (k + 1) .. n : s[i] \in Ids
    BY <1>1
  <2>2. /\ a \in Seq(Ids)
        /\ Len(a) = IF k + 1 <= n THEN n - (k + 1) + 1 ELSE 0
        /\ \A i \in 1 .. n - (k + 1) + 1 : a[i] = s[k + 1 + i - 1]
    BY <2>1, SubSeqProperties
  <2> HIDE DEF a
  <2>3. k \in 1 .. n
    BY DEF n
  <2>4. Len(a) = n - k /\ n - (k + 1) + 1 = n - k
    BY <1>1, <2>2, <2>3
  <2>5. \A i \in 1 .. n - k : k + 1 + i - 1 = k + i
    BY <1>1, <2>3
  <2> QED BY <2>2, <2>4, <2>5
<1>4. /\ b \in Seq(Ids) /\ Len(b) = k
      /\ \A i \in 1 .. k : b[i] = s[i]
  <2>0. k \in 1 .. n
    BY DEF n
  <2>1. 1 \in Int /\ k \in Int /\ \A i \in 1 .. k : s[i] \in Ids
    BY <1>1, <2>0
  <2>2. /\ b \in Seq(Ids)
        /\ Len(b) = IF 1 <= k THEN k - 1 + 1 ELSE 0
        /\ \A i \in 1 .. k - 1 + 1 : b[i] = s[1 + i - 1]
    BY <2>1, SubSeqProperties
  <2> HIDE DEF b
  <2>3. k - 1 + 1 = k /\ \A i \in 1 .. k : 1 + i - 1 = i
    OBVIOUS
  <2> QED BY <2>0, <2>2, <2>3
<1> HIDE DEF a, b
<1>5. /\ t \in Seq(Ids) /\ Len(t) = n
      /\ \A i \in 1 .. n : t[i] = s[at(i)] /\ at(i) \in 1 .. n
  <2>1. /\ t \in Seq(Ids) /\ Len(t) = Len(a) + Len(b)
        /\ \A i \in 1 .. Len(a) + Len(b) : t[i] = IF i <= Len(a) THEN a[i] ELSE b[i - Len(a)]
    BY <1>3, <1>4, ConcatProperties
  <2> HIDE DEF t
  <2>2. Len(a) + Len(b) = n
    BY <1>1, <1>3, <1>4
  <2>3. ASSUME NEW i \in 1 .. n PROVE t[i] = s[at(i)] /\ at(i) \in 1 .. n
    <3>1. k \in 1 .. n
      BY DEF n
    <3>2. CASE i <= n - k
      <4>1. i \in 1 .. n - k /\ k + i \in 1 .. n
        BY <1>1, <3>1, <3>2
      <4> QED BY <1>3, <2>1, <2>2, <3>2, <4>1
    <3>3. CASE ~(i <= n - k)
      <4>1. i - (n - k) \in 1 .. k /\ i - (n - k) \in 1 .. n
        BY <1>1, <3>1, <3>3
      <4> QED BY <1>3, <1>4, <2>1, <2>2, <3>3, <4>1
    <3> QED BY <3>2, <3>3
  <2> QED BY <2>1, <2>2, <2>3
<1> HIDE DEF t, at
<1>6. r.ids = t /\ r = [ids |-> r.ids, nameIds |-> q.nameIds]
  BY <1>2
<1> QED BY <1>5, <1>6 DEF at, s, n, r

(* They are still all there.                                               *)
LEMMA RotatedOk ==
  ASSUME NEW q, AllIdsOnce(q), NEW k \in 1 .. MaxId
  PROVE  AllIdsOnce(Rotated(q, k))
<1> DEFINE s == q.ids
           n == MaxId
           r == Rotated(q, k)
           t == r.ids
           at(i) == IF i <= n - k THEN k + i ELSE i - (n - k)
<1>1. /\ n \in Nat /\ s \in Seq(Ids) /\ Len(s) = n /\ DOMAIN s = 1 .. n
      /\ \A i \in 1 .. n : s[i] \in Ids
  BY IdQueueAssumption, LenProperties, ElementOfSeq DEF AllIdsOnce
<1>2. /\ r = [ids |-> t, nameIds |-> q.nameIds] /\ t \in Seq(Ids) /\ Len(t) = n
      /\ \A i \in 1 .. n : \E j \in 1 .. n :
           t[i] = s[j] /\ j = IF i <= n - k THEN k + i ELSE i - (n - k)
  BY RotatedIs
<1> HIDE DEF t, r
<1>3. /\ t \in Seq(Ids) /\ Len(t) = n
      /\ \A i \in 1 .. n : t[i] = s[at(i)] /\ at(i) \in 1 .. n
  BY <1>2
<1>4. k \in 1 .. n /\ \A i, j \in 1 .. n : s[i] = s[j] => i = j
  BY <1>1 DEF AllIdsOnce, Distinct
<1>5. Distinct(t)
  <2> SUFFICES ASSUME NEW i \in 1 .. n, NEW j \in 1 .. n, t[i] = t[j] PROVE i = j
    BY <1>3 DEF Distinct
  <2> HIDE DEF at
  <2>1. at(i) = at(j)
    BY <1>3, <1>4
  <2> QED BY <1>1, <1>4, <2>1 DEF at
<1>6. ToSet(t) = Ids
  <2>1. DOMAIN t = 1 .. n
    BY <1>3, LenProperties
  <2>2. ToSet(s) = Ids
    BY DEF AllIdsOnce, s
  <2>3. ASSUME NEW x \in ToSet(t) PROVE x \in Ids
    BY <1>3, <2>1, <2>3, ElementOfSeq DEF ToSet
  <2>4. ASSUME NEW x \in Ids PROVE x \in ToSet(t)
    <3>1. PICK j \in 1 .. n : x = s[j]
      BY <1>1, <2>2, <2>4 DEF ToSet
    <3> DEFINE i == IF j > k THEN j - k ELSE j + (n - k)
    <3>2. i \in 1 .. n /\ at(i) = j
      BY <1>1, <1>4
    <3> HIDE DEF i, at
    <3> QED BY <1>3, <2>1, <3>1, <3>2 DEF ToSet
  <2> QED BY <2>3, <2>4
<1>7. q.nameIds \in [Names -> Ids \cup {NoId}]
  BY DEF AllIdsOnce
<1> QED BY <1>2, <1>3, <1>5, <1>6, <1>7 DEF AllIdsOnce, r, n

(* While an id is free, a user gets the one the name had or the first that *)
(* is free, and the queue goes on behind that.                             *)
LEMMA AssignIdIs ==
  ASSUME NEW q, AllIdsOnce(q), NEW name \in Names, NEW taken, \E id \in Ids : id \notin taken
  PROVE  LET a == assignId(q, name, taken)
             id == getIdForName(q, name)
         IN \/ id # NoId /\ id \notin taken /\ a.id = id /\ a.queue = q
            \/ /\ ~(id # NoId /\ id \notin taken)
               /\ \E k \in 1 .. MaxId :
                    /\ a.id = q.ids[k] /\ a.queue = Rotated(q, k) /\ q.ids[k] \notin taken
                    /\ \A j \in 1 .. (k - 1) : q.ids[j] \in taken
<1> DEFINE a == assignId(q, name, taken)
           id == getIdForName(q, name)
           Free(k) == q.ids[k] \notin taken /\ \A j \in 1 .. (k - 1) : q.ids[j] \in taken
           k == CHOOSE k \in DOMAIN q.ids : Free(k)
           T == {i \in 1 .. MaxId : q.ids[i] \notin taken}
<1>1. /\ q.ids \in Seq(Ids) /\ Len(q.ids) = MaxId /\ ToSet(q.ids) = Ids
      /\ MaxId \in Nat /\ DOMAIN q.ids = 1 .. MaxId /\ \A i \in 1 .. MaxId : q.ids[i] \in Ids
  BY IdQueueAssumption, LenProperties, ElementOfSeq DEF AllIdsOnce
<1>2. CASE id # NoId /\ id \notin taken
  <2>1. a.id = id /\ a.queue = q
    BY <1>2 DEF assignId
  <2> HIDE DEF a, id
  <2> QED BY <1>2, <2>1 DEF a, id
<1>3. CASE ~(id # NoId /\ id \notin taken)
  <2>1. a.id = q.ids[k] /\ a.queue = Rotated(q, k)
    BY <1>3 DEF assignId
  <2>2. T \subseteq Nat /\ T # {}
    BY <1>1 DEF ToSet
  <2>3. PICK i \in T : \A j \in T : i <= j
    BY <2>2, LeastNumber
  <2>4. i \in DOMAIN q.ids /\ Free(i)
    <3>1. ASSUME NEW j \in 1 .. (i - 1) PROVE q.ids[j] \in taken
      <4>1. j \in 1 .. MaxId /\ ~(i <= j)
        BY <1>1, <2>3
      <4> QED BY <2>3, <4>1
    <3> QED BY <1>1, <2>3, <3>1
  <2> HIDE DEF Free, a
  <2>5. k \in DOMAIN q.ids /\ Free(k)
    BY <2>4
  <2> HIDE DEF k
  <2>6. /\ k \in 1 .. MaxId /\ q.ids[k] \notin taken
        /\ \A j \in 1 .. (k - 1) : q.ids[j] \in taken
    BY <1>1, <2>5 DEF Free
  <2> HIDE DEF id
  <2> QED BY <1>3, <2>1, <2>6 DEF a, id
<1> QED BY <1>2, <1>3

(* It is a free one, and the queue still has all.                          *)
LEMMA AssignIdOk ==
  ASSUME NEW q, AllIdsOnce(q), NEW name \in Names, NEW taken, \E id \in Ids : id \notin taken
  PROVE  LET a == assignId(q, name, taken)
         IN a.id \in Ids \ taken /\ AllIdsOnce(a.queue)
<1> DEFINE a == assignId(q, name, taken)
           id == getIdForName(q, name)
<1>1. \/ id # NoId /\ id \notin taken /\ a.id = id /\ a.queue = q
      \/ \E k \in 1 .. MaxId :
           a.id = q.ids[k] /\ a.queue = Rotated(q, k) /\ q.ids[k] \notin taken
  BY AssignIdIs
<1>2. id # NoId => id \in Ids
  BY DEF AllIdsOnce, getIdForName
<1>3. \A k \in 1 .. MaxId : q.ids[k] \in Ids /\ AllIdsOnce(Rotated(q, k))
  BY RotatedOk, ElementOfSeq DEF AllIdsOnce
<1> HIDE DEF a, id
<1>4. a.id \in Ids \ taken /\ AllIdsOnce(a.queue)
  BY <1>1, <1>2, <1>3
<1> QED BY <1>4 DEF a

----------------------------------------------------------------------------
(* The files and what the process holds of them.                           *)

Cell == Messages \cup {HeaderCell, TornCell}

FileName == Int \X Int

(* What a file of messages is.                                             *)
IsRecording(cells) == cells \in Seq(Cell) /\ cells # << >> /\ cells[1] = HeaderCell

AllRecordings(fs) == \A name \in DOMAIN fs : IsRecording(fs[name])

(* An open recording: the header and the place where the process writes    *)
(* next without a gap are on the disk.                                     *)
Open(fs, f) ==
  /\ DOMAIN f = {"name", "pos", "unsaved"}
  /\ f.name \in FileName /\ f.name \in DOMAIN fs
  /\ f.pos \in Nat /\ f.unsaved \in Seq(Cell)
  /\ Len(f.unsaved) < f.pos
  /\ f.pos <= Len(fs[f.name]) + Len(f.unsaved)

Fields ==
  {"firstIndex", "lastIndex", "sizeInBytes", "autoResetBaseSize", "resetStreamState", "ctxId",
   "resetStreamSize", "resetStreamStartIndex", "resetStreamMessageCount", "recording", "blocks",
   "fileCount", "streamRecording", "streamFileCount", "forkPos", "streamBlocks",
   "streamBlockIndex"}

(* The files that a history has open.                                      *)
FilesOpen(fs, h) ==
  /\ DOMAIN h = Fields
  /\ h.fileCount \in Int /\ h.forkPos \in Nat
  /\ Open(fs, h.recording)
  /\ h.streamRecording # NoFile =>
       Open(fs, h.streamRecording) /\ h.streamRecording.name # h.recording.name
  /\ h.resetStreamState \in {"None", "Streaming", "Prepared"}
  /\ h.resetStreamState # "None" => h.streamRecording # NoFile

(* Which recording the journal names, at each step of a reset.             *)
Named(j, h, c) ==
  /\ c.at \in {"none", "copied", "journalled", "opened", "named"}
  /\ c.at \in {"none", "copied", "named"} => Last(j) = h.recording.name
  /\ c.at \in {"copied", "journalled"} => h.streamRecording # NoFile
  /\ c.at = "journalled" => Last(j) = h.streamRecording.name
  /\ c.at = "opened" => Last(j) = c.old
  /\ c.at \in {"opened", "named"} =>
       /\ c.old # h.recording.name
       /\ h.streamRecording # NoFile => c.old # h.streamRecording.name

RecoverableInv ==
  /\ journal \in Seq(FileName)
  /\ AllRecordings(files)
  /\ clients \in Seq([id : Clients, name : Names])
  /\ DOMAIN call = {"at", "old", "messages"} /\ call.messages \in Seq(Cell)
  /\ server \in {"up", "down", "gone"}
  /\ server = "up" => FilesOpen(files, fh) /\ Named(journal, fh, call)
  /\ server # "up" => call = NoCall /\ fh = NoHistory
  /\ server # "gone" => journal # << >> /\ Last(journal) \in DOMAIN files

----------------------------------------------------------------------------
(* Files.                                                                  *)

LEMMA InvImpliesRecoverable == RecoverableInv => Recoverable
<1> SUFFICES ASSUME RecoverableInv, server # "gone" PROVE Recoverable
  BY DEF Recoverable
<1>1. journal # << >> /\ Last(journal) \in DOMAIN files
  BY DEF RecoverableInv
<1>2. IsRecording(files[Last(journal)])
  BY <1>1 DEF RecoverableInv, AllRecordings
<1>3. files[Last(journal)] # << >> /\ Head(files[Last(journal)]) = HeaderCell
  BY <1>2 DEF IsRecording
<1> QED BY <1>1, <1>3 DEF Recoverable

(* What the process sees of a recording is a recording that reaches to     *)
(* where it writes next.                                                   *)
LEMMA SeenIsRecording ==
  ASSUME NEW fs, NEW f, AllRecordings(fs), Open(fs, f)
  PROVE  IsRecording(Seen(fs, f)) /\ f.pos <= Len(Seen(fs, f))
<1> DEFINE cells == fs[f.name]
           kept  == SubSeq(cells, 1, f.pos - Len(f.unsaved))
           rest  == SubSeq(cells, f.pos + 1, Len(cells))
<1>1. cells \in Seq(Cell) /\ cells # << >> /\ cells[1] = HeaderCell
  BY DEF AllRecordings, IsRecording, Open
<1>2. f.pos \in Nat /\ f.unsaved \in Seq(Cell) /\ Len(f.unsaved) \in Nat /\ Len(cells) \in Nat
  BY <1>1 DEF Open
<1>3. f.pos - Len(f.unsaved) \in 1 .. Len(cells)
  BY <1>2 DEF Open
<1>4. kept \in Seq(Cell) /\ Len(kept) = f.pos - Len(f.unsaved) /\ kept[1] = HeaderCell
  BY <1>1, <1>2, <1>3, SubSeqProperties
<1>5. rest \in Seq(Cell)
  BY <1>1, <1>2
<1>6. Seen(fs, f) = kept \o f.unsaved \o rest
  BY DEF Seen
<1>7. /\ kept \o f.unsaved \in Seq(Cell)
      /\ Len(kept \o f.unsaved) = f.pos /\ (kept \o f.unsaved)[1] = HeaderCell
  <2> HIDE DEF kept
  <2> QED BY <1>2, <1>3, <1>4
<1>8. f.pos >= 1
  BY <1>2, <1>3
<1> HIDE DEF kept, rest
<1> QED BY <1>2, <1>5, <1>6, <1>7, <1>8 DEF IsRecording

(* Flushing a recording changes no other file and makes it a recording as  *)
(* the process sees it.                                                    *)
LEMMA FlushedIsRecording ==
  ASSUME NEW fs, NEW f, AllRecordings(fs), Open(fs, f)
  PROVE  /\ AllRecordings(Flushed(fs, f))
         /\ DOMAIN Flushed(fs, f) = DOMAIN fs
         /\ f.pos <= Len(Flushed(fs, f)[f.name])
         /\ \A name \in DOMAIN fs \ {f.name} : Flushed(fs, f)[name] = fs[name]
<1>1. IsRecording(Seen(fs, f)) /\ f.pos <= Len(Seen(fs, f))
  BY SeenIsRecording
<1>2. Flushed(fs, f) = [fs EXCEPT ![f.name] = Seen(fs, f)] /\ f.name \in DOMAIN fs
  BY DEF Flushed, Open
<1> QED BY <1>1, <1>2 DEF AllRecordings

(* Flushing one recording leaves every other open, and itself.             *)
LEMMA FlushedOpen ==
  ASSUME NEW fs, NEW f, NEW g, AllRecordings(fs), Open(fs, f), Open(fs, g),
         g = f \/ g.name # f.name
  PROVE  Open(Flushed(fs, f), g)
<1>1. DOMAIN Flushed(fs, f) = DOMAIN fs
  BY FlushedIsRecording
<1>2. CASE g = f
  <2>1. f.pos <= Len(Flushed(fs, f)[f.name]) /\ IsRecording(Flushed(fs, f)[f.name])
    BY <1>1, FlushedIsRecording DEF Open, AllRecordings
  <2>2. Len(Flushed(fs, f)[f.name]) \in Nat
    BY <2>1 DEF IsRecording
  <2> QED BY <1>1, <1>2, <2>1, <2>2 DEF Open
<1>3. CASE g.name # f.name
  <2>1. g.name \in DOMAIN fs \ {f.name}
    BY <1>3 DEF Open
  <2>2. Flushed(fs, f)[g.name] = fs[g.name]
    BY <2>1, FlushedIsRecording
  <2> QED BY <1>1, <2>1, <2>2 DEF Open
<1> QED BY <1>2, <1>3

(* And the flushed one, with nothing left to write.                        *)
LEMMA FlushedSelfOpen ==
  ASSUME NEW fs, NEW f, AllRecordings(fs), Open(fs, f)
  PROVE  Open(Flushed(fs, f), [f EXCEPT !.unsaved = << >>])
<1>1. /\ f.name \in DOMAIN Flushed(fs, f)
      /\ f.pos <= Len(Flushed(fs, f)[f.name])
      /\ IsRecording(Flushed(fs, f)[f.name])
  BY FlushedIsRecording DEF Open, AllRecordings
<1>2. f.pos \in Nat /\ f.pos > 0
  BY DEF Open
<1>3. Len(Flushed(fs, f)[f.name]) \in Nat
  BY <1>1 DEF IsRecording
<1>4. << >> \in Seq(Cell) /\ Len(<< >>) = 0
  OBVIOUS
<1> QED BY <1>1, <1>2, <1>3, <1>4 DEF Open

(* Writing to an open recording.                                           *)
LEMMA WrittenOpen ==
  ASSUME NEW fs, NEW f, AllRecordings(fs), Open(fs, f), NEW ms \in Seq(Cell)
  PROVE  Open(fs, Written(f, ms)) /\ Written(f, ms).name = f.name
<1>1. Len(fs[f.name]) \in Nat
  BY DEF Open, AllRecordings, IsRecording
<1>2. f.unsaved \o ms \in Seq(Cell) /\ Len(f.unsaved \o ms) = Len(f.unsaved) + Len(ms)
  BY DEF Open
<1>3. /\ f.pos \in Nat /\ Len(f.unsaved) \in Nat /\ Len(ms) \in Nat
  BY DEF Open
<1>4. /\ Written(f, ms).name = f.name /\ Written(f, ms).pos = f.pos + Len(ms)
      /\ Written(f, ms).unsaved = f.unsaved \o ms
      /\ DOMAIN Written(f, ms) = {"name", "pos", "unsaved"}
  BY DEF Open, Written
<1> QED BY <1>1, <1>2, <1>3, <1>4 DEF Open

(* A new recording with a name that no file has.                           *)
LEMMA NewOpen ==
  ASSUME NEW fs, NEW name \in FileName, name \notin DOMAIN fs, AllRecordings(fs)
  PROVE  /\ AllRecordings(WithNew(fs, name))
         /\ Open(WithNew(fs, name), openRecording(name))
         /\ openRecording(name).name = name
         /\ \A f : Open(fs, f) => Open(WithNew(fs, name), f) /\ f.name # name
<1>1. IsRecording(<<HeaderCell>>) /\ Len(<<HeaderCell>>) = 1
  BY DEF IsRecording, Cell
<1>2. /\ DOMAIN WithNew(fs, name) = DOMAIN fs \cup {name}
      /\ WithNew(fs, name)[name] = <<HeaderCell>>
      /\ \A n \in DOMAIN fs : WithNew(fs, name)[n] = fs[n]
  BY DEF WithNew
<1>3. AllRecordings(WithNew(fs, name))
  BY <1>1, <1>2 DEF AllRecordings
<1>4. << >> \in Seq(Cell) /\ Len(<< >>) = 0
  OBVIOUS
<1>5. Open(WithNew(fs, name), openRecording(name)) /\ openRecording(name).name = name
  BY <1>1, <1>2, <1>4 DEF Open, openRecording
<1>6. ASSUME NEW f, Open(fs, f) PROVE Open(WithNew(fs, name), f) /\ f.name # name
  BY <1>2, <1>6 DEF Open
<1> QED BY <1>3, <1>5, <1>6

(* Removing a file leaves every other open.                                *)
LEMMA WithoutOpen ==
  ASSUME NEW fs, NEW name, AllRecordings(fs)
  PROVE  /\ AllRecordings(Without(fs, name))
         /\ \A f : Open(fs, f) /\ f.name # name => Open(Without(fs, name), f)
         /\ \A n \in DOMAIN fs \ {name} : n \in DOMAIN Without(fs, name)
<1>1. /\ DOMAIN Without(fs, name) = DOMAIN fs \ {name}
      /\ \A n \in DOMAIN fs \ {name} : Without(fs, name)[n] = fs[n]
  BY DEF Without
<1> QED BY <1>1 DEF AllRecordings, Open

(* What is open once it is open is not the file that is none.              *)
LEMMA OpenIsFile == ASSUME NEW fs, NEW f, Open(fs, f) PROVE f # NoFile
<1>1. f.pos \in Nat /\ Len(f.unsaved) \in Nat /\ Len(f.unsaved) < f.pos
  BY DEF Open
<1> QED BY <1>1 DEF NoFile

----------------------------------------------------------------------------
(* Histories.                                                              *)

(* Adding a message to the history.                                        *)
LEMMA AddInternalOpen ==
  ASSUME NEW fs, NEW h, AllRecordings(fs), FilesOpen(fs, h), NEW m \in Cell
  PROVE  /\ FilesOpen(fs, AddInternal(h, m))
         /\ AddInternal(h, m).recording.name = h.recording.name
         /\ AddInternal(h, m).streamRecording = h.streamRecording
         /\ AddInternal(h, m).resetStreamState = h.resetStreamState
         /\ AddInternal(h, m).fileCount = h.fileCount
         /\ AddInternal(h, m).forkPos = h.forkPos
<1> DEFINE added == AddInternal(h, m)
<1>1. <<m>> \in Seq(Cell)
  OBVIOUS
<1>2. /\ Open(fs, Written(h.recording, <<m>>))
      /\ Written(h.recording, <<m>>).name = h.recording.name
  BY <1>1, WrittenOpen DEF FilesOpen
<1>3. /\ DOMAIN added = Fields
      /\ added.recording = Written(h.recording, <<m>>)
      /\ added.streamRecording = h.streamRecording
      /\ added.resetStreamState = h.resetStreamState
      /\ added.fileCount = h.fileCount /\ added.forkPos = h.forkPos
  BY DEF FilesOpen, Fields, AddInternal, historyAdd
<1> HIDE DEF added
<1> QED BY <1>2, <1>3 DEF FilesOpen, added

(* Or trying to.                                                           *)
LEMMA AddOpen ==
  ASSUME NEW fs, NEW h, AllRecordings(fs), FilesOpen(fs, h), NEW m \in Cell,
         NEW g \in {addMessage(h, m), addToHistory(h, m)}
  PROVE  /\ FilesOpen(fs, g)
         /\ g.recording.name = h.recording.name
         /\ g.streamRecording = h.streamRecording
BY AddInternalOpen DEF addMessage, addToHistory

(* Aborting a streamed reset removes its file and forgets it.              *)
LEMMA AbortOpen ==
  ASSUME NEW fs, NEW h, NEW c, AllRecordings(fs), FilesOpen(fs, h)
  PROVE  LET gs == filesAfterAbort(fs, h, c)
             g  == AbortedBy(h, c)
         IN /\ AllRecordings(gs) /\ FilesOpen(gs, g)
            /\ g.recording = h.recording
            /\ g.streamRecording \in {h.streamRecording, NoFile}
<1> DEFINE gs == filesAfterAbort(fs, h, c)
           g  == AbortedBy(h, c)
<1>1. CASE ~StreamedResetBy(h, c)
  BY <1>1 DEF AbortedBy, filesAfterAbort
<1>2. CASE StreamedResetBy(h, c)
  <2>1. gs = Without(fs, h.streamRecording.name)
    BY <1>2 DEF filesAfterAbort, discardFile, StreamedResetBy, FilesOpen
  <2>2. Open(fs, h.recording) /\ h.streamRecording.name # h.recording.name
    BY <1>2 DEF FilesOpen, StreamedResetBy
  <2>3. AllRecordings(gs) /\ Open(gs, h.recording)
    BY <2>1, <2>2, WithoutOpen
  <2>4. /\ DOMAIN g = Fields
        /\ g.recording = h.recording
        /\ g.streamRecording = NoFile
        /\ g.resetStreamState = "None"
        /\ g.fileCount \in {h.fileCount, h.fileCount - 1} /\ g.forkPos = h.forkPos
    BY <1>2 DEF AbortedBy, Discarded, FilesOpen, Fields
  <2> QED BY <2>3, <2>4 DEF FilesOpen
<1> QED BY <1>1, <1>2

(* Flushing the recording of a history.                                    *)
LEMMA FlushedFilesOpen ==
  ASSUME NEW fs, NEW h, AllRecordings(fs), FilesOpen(fs, h)
  PROVE  LET gs == Flushed(fs, h.recording)
         IN /\ AllRecordings(gs) /\ FilesOpen(gs, h)
            /\ FilesOpen(gs, [h EXCEPT !.recording.unsaved = << >>])
<1> DEFINE gs == Flushed(fs, h.recording)
           g  == [h EXCEPT !.recording.unsaved = << >>]
<1>1. Open(fs, h.recording)
  BY DEF FilesOpen
<1>2. AllRecordings(gs)
  BY <1>1, FlushedIsRecording
<1>3. Open(gs, h.recording) /\ Open(gs, [h.recording EXCEPT !.unsaved = << >>])
  BY <1>1, FlushedOpen, FlushedSelfOpen
<1>4. h.streamRecording # NoFile =>
        Open(gs, h.streamRecording) /\ h.streamRecording.name # h.recording.name
  BY <1>1, FlushedOpen DEF FilesOpen
<1>5. /\ DOMAIN g = Fields
      /\ g.recording = [h.recording EXCEPT !.unsaved = << >>]
      /\ g.streamRecording = h.streamRecording /\ g.resetStreamState = h.resetStreamState
      /\ g.fileCount = h.fileCount /\ g.forkPos = h.forkPos
  BY DEF FilesOpen, Fields
<1>6. g.recording.name = h.recording.name
  BY <1>1, <1>5 DEF Open
<1>7. FilesOpen(gs, h)
  BY <1>3, <1>4 DEF FilesOpen
<1>8. FilesOpen(gs, g)
  <2> HIDE DEF g, gs
  <2> QED BY <1>3, <1>4, <1>5, <1>6 DEF FilesOpen
<1> QED BY <1>2, <1>7, <1>8

----------------------------------------------------------------------------
(* Steps.                                                                  *)

ClientsType == Seq([id : Clients, name : Names])

(* A step between resets that goes on with the same recording.             *)
LEMMA QuietStep ==
  ASSUME RecoverableInv, Ready,
         AllRecordings(files'), FilesOpen(files', fh'),
         fh'.recording.name = fh.recording.name,
         clients' \in ClientsType, UNCHANGED <<journal, call, server>>
  PROVE  RecoverableInv'
<1>1. Last(journal') = fh'.recording.name /\ call'.at = "none"
  BY DEF RecoverableInv, Named, Ready
<1>2. fh'.recording.name \in DOMAIN files'
  BY DEF FilesOpen, Open
<1>3. Named(journal', fh', call')
  BY <1>1 DEF Named
<1> QED BY <1>1, <1>2, <1>3 DEF RecoverableInv, Ready, ClientsType

(* What a session adds to its history are cells.                           *)
LEMMA MessageTypes ==
  /\ \A c \in Clients : JoinMsg(c) \in Cell /\ LeaveMsg(c) \in Cell /\ StreamStartMsg(c, 0) \in Cell
  /\ \A c \in Clients, n \in Drawings : DrawMsg(c, n) \in Cell
  /\ {ImageMsg(0), OwnerMsg(0), SoftResetMsg, CaughtUpMsg} \subseteq Cell
BY DEF Cell, Messages

(* The messages of a join.                                                 *)
LEMMA WithJoinOpen ==
  ASSUME NEW fs, NEW h, AllRecordings(fs), FilesOpen(fs, h), NEW id \in Clients
  PROVE  FilesOpen(fs, WithJoin(h, id)) /\ WithJoin(h, id).recording.name = h.recording.name
<1> DEFINE g == addMessage(h, CaughtUpMsg)
<1>1. FilesOpen(fs, g) /\ g.recording.name = h.recording.name
  BY AddOpen, MessageTypes
<1> HIDE DEF g
<1>2. JoinMsg(id) \in Cell
  BY MessageTypes
<1>3. /\ FilesOpen(fs, addToHistory(g, JoinMsg(id)))
      /\ addToHistory(g, JoinMsg(id)).recording.name = g.recording.name
  BY <1>1, <1>2, AddOpen
<1> QED BY <1>1, <1>3 DEF WithJoin, g

(* The messages of a leave.                                                *)
LEMMA WithLeaveOpen ==
  ASSUME NEW fs, NEW h, AllRecordings(fs), FilesOpen(fs, h), NEW id \in Clients,
         NEW op, NEW others
  PROVE  LET gs == filesAfterAbort(fs, h, id)
             g  == WithLeave(h, id, op, others)
         IN /\ AllRecordings(gs) /\ FilesOpen(gs, g)
            /\ g.recording.name = h.recording.name
<1> DEFINE gs   == filesAfterAbort(fs, h, id)
           a    == AbortedBy(h, id)
           left == addToHistory(a, LeaveMsg(id))
<1>1. AllRecordings(gs) /\ FilesOpen(gs, a) /\ a.recording.name = h.recording.name
  BY AbortOpen
<1> HIDE DEF a, gs
<1>2. FilesOpen(gs, left) /\ left.recording.name = h.recording.name
  BY <1>1, AddOpen, MessageTypes
<1> HIDE DEF left
<1>3. /\ FilesOpen(gs, addToHistory(left, OwnerMsg(0)))
      /\ addToHistory(left, OwnerMsg(0)).recording.name = h.recording.name
  BY <1>1, <1>2, AddOpen, MessageTypes
<1> QED BY <1>1, <1>2, <1>3 DEF WithLeave, left, a, gs

(* Taking somebody out of the session.                                     *)
LEMMA OthersType ==
  ASSUME clients \in ClientsType, NEW i \in DOMAIN clients
  PROVE  /\ clients[i] \in [id : Clients, name : Names]
         /\ Others(i) \in ClientsType
         /\ Append(Others(i), clients[i]) \in ClientsType
<1> DEFINE Who == [id : Clients, name : Names]
<1>1. i \in 1 .. Len(clients) /\ Len(clients) \in Nat /\ \A j \in 1 .. Len(clients) : clients[j] \in Who
  <2>1. clients \in Seq(Who)
    BY DEF ClientsType
  <2> HIDE DEF Who
  <2> QED BY <2>1, ElementOfSeq, LenProperties
<1>2. SubSeq(clients, 1, i - 1) \in Seq(Who)
  <2>1. \A j \in 1 .. i - 1 : clients[j] \in Who
    BY <1>1
  <2> QED BY <1>1, <2>1, SubSeqProperties
<1>3. SubSeq(clients, i + 1, Len(clients)) \in Seq(Who)
  <2>1. \A j \in i + 1 .. Len(clients) : clients[j] \in Who
    BY <1>1
  <2> QED BY <1>1, <2>1, SubSeqProperties
<1>4. Others(i) \in Seq(Who)
  <2>1. Others(i) = SubSeq(clients, 1, i - 1) \o SubSeq(clients, i + 1, Len(clients))
    BY DEF Others, RemoveAt
  <2> QED BY <1>2, <1>3, <2>1
<1>5. Append(Others(i), clients[i]) \in Seq(Who)
  BY <1>1, <1>4
<1> QED BY <1>1, <1>4, <1>5 DEF ClientsType

(* Users come, come back and go.                                           *)
LEMMA JoinStep ==
  ASSUME RecoverableInv, NEW name \in Names, NEW id \in Clients, Join(name, id)
  PROVE  RecoverableInv'
<1> DEFINE h == WithJoin(fh, id)
<1>1. /\ Ready /\ AllRecordings(files) /\ FilesOpen(files, fh)
      /\ clients \in ClientsType
      /\ files' = files /\ UNCHANGED <<journal, call, server>>
  BY DEF Join, RecoverableInv, Ready, ClientsType
<1>2. FilesOpen(files, h) /\ h.recording.name = fh.recording.name
  BY <1>1, WithJoinOpen
<1> HIDE DEF h
<1>3. /\ FilesOpen(files, addToHistory(h, OwnerMsg(0)))
      /\ addToHistory(h, OwnerMsg(0)).recording.name = fh.recording.name
  BY <1>1, <1>2, AddOpen, MessageTypes
<1>4. fh' \in {h, addToHistory(h, OwnerMsg(0))}
  BY DEF Join, h
<1>5. clients' \in ClientsType
  <2>1. clients' = Append(clients, [id |-> id, name |-> name])
    BY DEF Join
  <2> QED BY <1>1, <2>1, AppendProperties DEF ClientsType
<1> QED BY <1>1, <1>2, <1>3, <1>4, <1>5, QuietStep

LEMMA RejoinStep ==
  ASSUME RecoverableInv, NEW i \in DOMAIN clients, Rejoin(i)
  PROVE  RecoverableInv'
<1> DEFINE id == clients[i].id
           rejoined == Append(Others(i), clients[i])
           h  == WithLeave(fh, id, i = 1, rejoined)
           gs == filesAfterAbort(files, fh, id)
<1>1. /\ Ready /\ AllRecordings(files) /\ FilesOpen(files, fh)
      /\ clients \in ClientsType
      /\ UNCHANGED <<journal, call, server>>
      /\ files' = gs /\ fh' = WithJoin(h, id) /\ clients' = rejoined
  BY DEF Rejoin, RecoverableInv, Ready, ClientsType
<1>2. id \in Clients /\ clients' \in ClientsType
  BY <1>1, OthersType
<1>3. AllRecordings(gs) /\ FilesOpen(gs, h) /\ h.recording.name = fh.recording.name
  BY <1>1, <1>2, WithLeaveOpen
<1> HIDE DEF id, rejoined, h, gs
<1>4. FilesOpen(gs, fh') /\ fh'.recording.name = fh.recording.name
  BY <1>1, <1>2, <1>3, WithJoinOpen
<1> QED BY <1>1, <1>2, <1>3, <1>4, QuietStep

LEMMA RemoveUserStep ==
  ASSUME RecoverableInv, NEW i \in DOMAIN clients, removeUser(i)
  PROVE  RecoverableInv'
<1> DEFINE id == clients[i].id
<1>1. /\ Ready /\ AllRecordings(files) /\ FilesOpen(files, fh)
      /\ clients \in ClientsType
      /\ UNCHANGED <<journal, call, server>>
      /\ files' = filesAfterAbort(files, fh, id)
      /\ fh' = WithLeave(fh, id, i = 1, Others(i)) /\ clients' = Others(i)
  BY DEF removeUser, RecoverableInv, Ready, ClientsType
<1>2. id \in Clients /\ clients' \in ClientsType
  BY <1>1, OthersType
<1> HIDE DEF id
<1>3. AllRecordings(files') /\ FilesOpen(files', fh') /\ fh'.recording.name = fh.recording.name
  BY <1>1, <1>2, WithLeaveOpen
<1> QED BY <1>1, <1>2, <1>3, QuietStep

LEMMA PresentType == ASSUME RecoverableInv PROVE Present \subseteq Clients
BY OthersType DEF RecoverableInv, ClientsType, Present

LEMMA DrawStep ==
  ASSUME RecoverableInv, NEW id \in Clients, Draw(id)
  PROVE  RecoverableInv'
<1>1. /\ Ready /\ AllRecordings(files) /\ FilesOpen(files, fh)
      /\ clients' \in ClientsType
      /\ files' = files /\ UNCHANGED <<journal, call, server>>
  BY DEF Draw, RecoverableInv, Ready, ClientsType
<1>2. PICK n \in Drawings : fh' = addToHistory(fh, DrawMsg(id, n))
  BY DEF Draw
<1>3. FilesOpen(files, fh') /\ fh'.recording.name = fh.recording.name
  BY <1>1, <1>2, AddOpen, MessageTypes
<1> QED BY <1>1, <1>3, QuietStep


(* What the server adds to an image is cells.                              *)
LEMMA ServerSideType ==
  ASSUME RecoverableInv
  PROVE  serverSideStateMessages \in Seq(Cell)
<1> DEFINE joins == [i \in DOMAIN clients |-> JoinMsg(clients[i].id)]
<1>1. DOMAIN clients = 1 .. Len(clients) /\ Len(clients) \in Nat
  BY DEF RecoverableInv
<1>2. ASSUME NEW i \in DOMAIN clients PROVE JoinMsg(clients[i].id) \in Cell
  <2>1. clients[i].id \in Clients
    BY OthersType DEF RecoverableInv, ClientsType
  <2> QED BY <2>1, MessageTypes
<1>3. joins \in Seq(Cell)
  BY <1>1, <1>2, IsASeq
<1>4. <<OwnerMsg(0)>> \in Seq(Cell)
  BY MessageTypes
<1> HIDE DEF joins
<1>5. joins \o <<OwnerMsg(0)>> \in Seq(Cell)
  BY <1>3, <1>4
<1> QED BY <1>5 DEF serverSideStateMessages, joins

(* A streamed reset is started: a second recording is opened.              *)
LEMMA StreamStartStep ==
  ASSUME RecoverableInv, NEW id \in Clients, StreamStart(id)
  PROVE  RecoverableInv'
<1> DEFINE h0 == AddInternal(fh, SoftResetMsg)
           h  == AddInternal(h0, StreamStartMsg(id, 0))
<1>1. /\ Ready /\ AllRecordings(files) /\ FilesOpen(files, fh)
      /\ clients' \in ClientsType /\ UNCHANGED <<journal, call, server>>
  BY DEF StreamStart, openResetStream, RecoverableInv, Ready, ClientsType
<1>2. FilesOpen(files, h0) /\ h0.recording.name = fh.recording.name
  BY <1>1, AddInternalOpen, MessageTypes
<1> HIDE DEF h0
<1>3. FilesOpen(files, h) /\ h.recording.name = fh.recording.name
  BY <1>1, <1>2, AddInternalOpen, MessageTypes
<1>4. PICK n \in 0 .. Cardinality(DOMAIN files) :
        LET name == <<h.fileCount + 1, n>>
            bs   == closeLastBlock(h.blocks)
        IN /\ uniqueRecordingFilename(files, h.fileCount + 1, name)
           /\ files' = WithNew(files, name)
           /\ fh' = [h EXCEPT !.fileCount = @ + 1, !.streamFileCount = h.fileCount + 1,
                              !.forkPos = h.recording.pos, !.blocks = bs,
                              !.streamBlockIndex = Len(bs),
                              !.streamBlocks = Indexed(1, 0, serverSideStateMessages),
                              !.streamRecording = Written(openRecording(name), serverSideStateMessages),
                              !.resetStreamState = "Streaming", !.ctxId = id,
                              !.resetStreamSize = 0, !.resetStreamMessageCount = 0,
                              !.resetStreamStartIndex = h.lastIndex + 1]
  BY DEF StreamStart, openResetStream, h, h0
<1> HIDE DEF h
<1> DEFINE name == <<h.fileCount + 1, n>>
           g    == Written(openRecording(name), serverSideStateMessages)
<1>5. name \in FileName /\ name \notin DOMAIN files
  BY <1>3, <1>4 DEF FileName, FilesOpen, uniqueRecordingFilename
<1>6. files' = WithNew(files, name)
  BY <1>4
<1>7. /\ DOMAIN fh' = Fields /\ fh'.fileCount = h.fileCount + 1
      /\ fh'.forkPos = h.recording.pos /\ fh'.recording = h.recording
      /\ fh'.streamRecording = g /\ fh'.resetStreamState = "Streaming"
  BY <1>3, <1>4 DEF FilesOpen, Fields
<1> HIDE DEF name, g
<1>8. /\ AllRecordings(files') /\ Open(files', openRecording(name))
      /\ openRecording(name).name = name
      /\ Open(files', h.recording) /\ h.recording.name # name
  BY <1>1, <1>3, <1>5, <1>6, NewOpen DEF FilesOpen
<1>9. Open(files', g) /\ g.name = name
  BY <1>8, ServerSideType, WrittenOpen DEF g
<1>10. g # NoFile
  BY <1>9, OpenIsFile
<1>11. FilesOpen(files', fh')
  <2>1. fh'.fileCount \in Int /\ fh'.forkPos \in Nat
    BY <1>3, <1>7 DEF FilesOpen, Open
  <2>2. fh'.streamRecording # NoFile /\ fh'.streamRecording.name # fh'.recording.name
    BY <1>7, <1>8, <1>9, <1>10
  <2> QED BY <1>7, <1>8, <1>9, <2>1, <2>2 DEF FilesOpen
<1> QED BY <1>1, <1>3, <1>7, <1>8, <1>11, QuietStep

(* A part of the image is written to the recording of the stream.          *)
LEMMA WithImageOpen ==
  ASSUME NEW fs, NEW h, AllRecordings(fs), FilesOpen(fs, h), NEW m \in Cell,
         h.resetStreamState # "None"
  PROVE  /\ FilesOpen(fs, WithImage(h, m))
         /\ WithImage(h, m).recording = h.recording
         /\ WithImage(h, m).resetStreamState = h.resetStreamState
<1> DEFINE g == WithImage(h, m)
           f == Written(h.streamRecording, <<m>>)
<1>1. Open(fs, h.streamRecording) /\ <<m>> \in Seq(Cell)
  BY DEF FilesOpen
<1>2. Open(fs, f) /\ f.name = h.streamRecording.name
  BY <1>1, WrittenOpen
<1>3. f # NoFile
  BY <1>2, OpenIsFile
<1>4. /\ DOMAIN g = Fields /\ g.streamRecording = f
      /\ g.recording = h.recording /\ g.resetStreamState = h.resetStreamState
      /\ g.fileCount = h.fileCount /\ g.forkPos = h.forkPos
  BY DEF FilesOpen, Fields, WithImage
<1> HIDE DEF f, g
<1> QED BY <1>1, <1>2, <1>3, <1>4 DEF FilesOpen, g

LEMMA StreamDataStep ==
  ASSUME RecoverableInv, NEW id \in Clients, StreamData(id)
  PROVE  RecoverableInv'
<1> DEFINE g == WithImage(fh, ImageMsg(0))
<1>1. /\ Ready /\ AllRecordings(files) /\ FilesOpen(files, fh)
      /\ clients' \in ClientsType /\ UNCHANGED <<files, journal, call, server>>
      /\ fh.resetStreamState = "Streaming"
      /\ fh' = [g EXCEPT !.resetStreamSize = @ + 1, !.resetStreamMessageCount = @ + 1]
  BY DEF StreamData, addResetStreamMessage, AddResult, RecoverableInv, Ready, ClientsType
<1>2. FilesOpen(files, g) /\ g.recording = fh.recording
  BY <1>1, WithImageOpen, MessageTypes
<1> HIDE DEF g
<1>3. /\ DOMAIN fh' = Fields /\ fh'.recording = g.recording
      /\ fh'.streamRecording = g.streamRecording
      /\ fh'.resetStreamState = g.resetStreamState
      /\ fh'.fileCount = g.fileCount /\ fh'.forkPos = g.forkPos
  BY <1>1, <1>2 DEF FilesOpen, Fields
<1>4. FilesOpen(files', fh') /\ AllRecordings(files')
  BY <1>1, <1>2, <1>3 DEF FilesOpen
<1> QED BY <1>1, <1>2, <1>3, <1>4, QuietStep

LEMMA StreamAbortStep ==
  ASSUME RecoverableInv, NEW id \in Clients, StreamAbort(id)
  PROVE  RecoverableInv'
<1>1. /\ Ready /\ AllRecordings(files) /\ FilesOpen(files, fh)
      /\ clients' \in ClientsType /\ UNCHANGED <<journal, call, server>>
      /\ files' = filesAfterAbort(files, fh, id) /\ fh' = AbortedBy(fh, id)
  BY DEF StreamAbort, RecoverableInv, Ready, ClientsType
<1>2. AllRecordings(files') /\ FilesOpen(files', fh') /\ fh'.recording = fh.recording
  BY <1>1, AbortOpen
<1> QED BY <1>1, <1>2, QuietStep


(* Flushing the recording of a stream.                                     *)
LEMMA FlushedStreamOpen ==
  ASSUME NEW fs, NEW h, AllRecordings(fs), FilesOpen(fs, h), h.streamRecording # NoFile
  PROVE  LET gs == Flushed(fs, h.streamRecording)
             f  == [h.streamRecording EXCEPT !.unsaved = << >>]
         IN /\ AllRecordings(gs) /\ Open(gs, h.recording) /\ Open(gs, f)
            /\ f.name = h.streamRecording.name /\ f # NoFile
<1>1. Open(fs, h.streamRecording) /\ Open(fs, h.recording) /\ h.streamRecording.name # h.recording.name
  BY DEF FilesOpen
<1>2. AllRecordings(Flushed(fs, h.streamRecording))
  BY <1>1, FlushedIsRecording
<1>3. Open(Flushed(fs, h.streamRecording), h.recording)
  BY <1>1, FlushedOpen
<1>4. Open(Flushed(fs, h.streamRecording), [h.streamRecording EXCEPT !.unsaved = << >>])
  BY <1>1, FlushedSelfOpen
<1>5. [h.streamRecording EXCEPT !.unsaved = << >>].name = h.streamRecording.name
  BY <1>1 DEF Open
<1> QED BY <1>2, <1>3, <1>4, <1>5, OpenIsFile

LEMMA StreamFinishStep ==
  ASSUME RecoverableInv, NEW id \in Clients, StreamFinish(id)
  PROVE  RecoverableInv'
<1>1. /\ Ready /\ AllRecordings(files) /\ FilesOpen(files, fh)
      /\ clients' \in ClientsType /\ UNCHANGED <<journal, call, server>>
  BY DEF StreamFinish, prepareResetStream, RecoverableInv, Ready, ClientsType
<1>2. CASE PrepareResult(fh, id, 1) = "Ok"
  <2> DEFINE h == WithImage(fh, CaughtUpMsg)
             f == [h.streamRecording EXCEPT !.unsaved = << >>]
  <2>1. /\ fh.resetStreamState = "Streaming"
        /\ files' = Flushed(files, h.streamRecording)
        /\ fh' = [h EXCEPT !.streamRecording.unsaved = << >>,
                           !.resetStreamState = "Prepared", !.ctxId = 0]
    BY <1>2 DEF StreamFinish, prepareResetStream, PrepareResult
  <2>2. /\ FilesOpen(files, h) /\ h.recording = fh.recording
        /\ h.resetStreamState = fh.resetStreamState
    BY <1>1, <2>1, WithImageOpen, MessageTypes
  <2> HIDE DEF h
  <2>3. /\ AllRecordings(files') /\ Open(files', h.recording) /\ Open(files', f)
        /\ f.name = h.streamRecording.name /\ f # NoFile
    <3>1. h.streamRecording # NoFile
      BY <2>1, <2>2 DEF FilesOpen
    <3> QED BY <1>1, <2>1, <2>2, <3>1, FlushedStreamOpen
  <2>4. /\ DOMAIN fh' = Fields /\ fh'.recording = h.recording /\ fh'.streamRecording = f
        /\ fh'.fileCount = h.fileCount /\ fh'.forkPos = h.forkPos
        /\ fh'.resetStreamState = "Prepared"
    BY <2>1, <2>2 DEF FilesOpen, Fields
  <2> HIDE DEF f
  <2>5. h.streamRecording.name # h.recording.name
    BY <2>1, <2>2 DEF FilesOpen
  <2>6. FilesOpen(files', fh')
    BY <2>2, <2>3, <2>4, <2>5 DEF FilesOpen
  <2> QED BY <1>1, <2>2, <2>3, <2>4, <2>6, QuietStep
<1>3. CASE PrepareResult(fh, id, 1) = "InvalidMessageCount"
  <2>1. files' = filesAfterAbort(files, fh, -1) /\ fh' = AbortedBy(fh, -1)
    BY <1>3 DEF StreamFinish, prepareResetStream
  <2>2. AllRecordings(files') /\ FilesOpen(files', fh') /\ fh'.recording = fh.recording
    BY <1>1, <2>1, AbortOpen
  <2> QED BY <1>1, <2>2, QuietStep
<1> QED BY <1>2, <1>3 DEF StreamFinish, prepareResetStream

(* The streamed reset is resolved, or cannot be.                           *)
LEMMA StreamResolveStep ==
  ASSUME RecoverableInv, StreamResolve
  PROVE  RecoverableInv'
<1> DEFINE r == fh.recording
           s == fh.streamRecording
           fs == Flushed(files, r)
           fork == ForkMessages
<1>1. /\ Ready /\ AllRecordings(files) /\ FilesOpen(files, fh) /\ journal \in Seq(FileName)
      /\ clients' \in ClientsType /\ UNCHANGED <<journal, server>>
      /\ Last(journal) = r.name /\ journal # << >> /\ Last(journal) \in DOMAIN files
      /\ DOMAIN call = {"at", "old", "messages"} /\ call.messages \in Seq(Cell)
  BY DEF StreamResolve, resolveStreamedReset_start, RecoverableInv, Ready, ClientsType, Named
<1>2. /\ s # NoFile /\ Open(files, r) /\ Open(files, s) /\ s.name # r.name
      /\ fh.forkPos \in Nat /\ fh.fileCount \in Int
  BY <1>1 DEF StreamResolve, resolveStreamedReset_start, isResetStreamPending, FilesOpen
<1>3. /\ AllRecordings(fs) /\ DOMAIN fs = DOMAIN files
      /\ Open(fs, s) /\ Open(fs, [r EXCEPT !.unsaved = << >>])
      /\ [r EXCEPT !.unsaved = << >>].name = r.name
  <2>1. [r EXCEPT !.unsaved = << >>].name = r.name
    BY <1>2 DEF Open
  <2> QED BY <1>1, <1>2, <2>1, FlushedIsRecording, FlushedOpen, FlushedSelfOpen
<1>4. CASE ResolvedFits /\ copyForkMessagesToResetStream /\ call' = [call EXCEPT !.at = "copied"]
  <2> DEFINE r2 == [r EXCEPT !.unsaved = << >>]
             s2 == [s EXCEPT !.pos = @ + Len(fork), !.unsaved = << >>]
             copied == Seen(files, s) \o fork
  <2>1. /\ files' = [fs EXCEPT ![s.name] = copied]
        /\ fh' = [fh EXCEPT !.recording.unsaved = << >>, !.streamRecording.pos = @ + Len(fork),
                            !.streamRecording.unsaved = << >>]
    BY <1>4 DEF copyForkMessagesToResetStream
  <2>2. IsRecording(Seen(files, r))
    BY <1>1, <1>2, SeenIsRecording
  <2>3. fork \in Seq(Cell)
    BY <1>2, <2>2 DEF ForkMessages, IsRecording
  <2> HIDE DEF fork
  <2>4. IsRecording(Seen(files, s)) /\ s.pos <= Len(Seen(files, s))
    BY <1>1, <1>2, SeenIsRecording
  <2>5. IsRecording(copied) /\ s.pos + Len(fork) <= Len(copied) /\ Len(copied) \in Nat
    <3> DEFINE seen == Seen(files, s)
    <3>1. seen \in Seq(Cell) /\ seen # << >> /\ seen[1] = HeaderCell /\ s.pos <= Len(seen)
      BY <2>4 DEF IsRecording
    <3>2. s.pos \in Nat
      BY <1>2 DEF Open
    <3> HIDE DEF seen
    <3>3. seen \o fork \in Seq(Cell) /\ Len(seen \o fork) = Len(seen) + Len(fork)
      BY <2>3, <3>1, ConcatProperties
    <3>4. Len(seen) \in Nat \ {0} /\ (seen \o fork)[1] = seen[1]
      BY <2>3, <3>1, ConcatProperties
    <3>5. Len(fork) \in Nat
      BY <2>3
    <3>6. seen \o fork # << >> /\ s.pos + Len(fork) <= Len(seen \o fork)
      BY <3>1, <3>2, <3>3, <3>4, <3>5
    <3> QED BY <3>1, <3>3, <3>4, <3>5, <3>6 DEF seen, IsRecording
  <2> HIDE DEF copied, fs
  <2>6. DOMAIN files' = DOMAIN files /\ files'[s.name] = copied
        /\ \A n \in DOMAIN files \ {s.name} : files'[n] = fs[n]
    BY <1>2, <1>3, <2>1 DEF Open
  <2>7. AllRecordings(files')
    BY <1>3, <2>5, <2>6 DEF AllRecordings
  <2>8. Open(files', r2) /\ r2.name = r.name
    BY <1>2, <1>3, <2>6 DEF Open
  <2>9. Open(files', s2) /\ s2.name = s.name
    <3>1. /\ DOMAIN s2 = {"name", "pos", "unsaved"} /\ s2.name = s.name
          /\ s2.pos = s.pos + Len(fork) /\ s2.unsaved = << >>
      BY <1>2 DEF Open
    <3>2. << >> \in Seq(Cell) /\ Len(<< >>) = 0 /\ s.pos \in Nat /\ s.pos > 0 /\ Len(fork) \in Nat
      BY <1>2, <2>3 DEF Open
    <3> HIDE DEF s2
    <3> QED BY <1>2, <2>5, <2>6, <3>1, <3>2 DEF Open
  <2>10. /\ DOMAIN fh' = Fields /\ fh'.recording = r2 /\ fh'.streamRecording = s2
         /\ fh'.fileCount = fh.fileCount /\ fh'.forkPos = fh.forkPos
         /\ fh'.resetStreamState = fh.resetStreamState
    BY <1>1, <1>2, <2>1 DEF FilesOpen, Fields, Open
  <2> HIDE DEF r2, s2
  <2>11. s2 # NoFile
    BY <2>9, OpenIsFile
  <2>12. FilesOpen(files', fh')
    BY <1>1, <1>2, <2>8, <2>9, <2>10, <2>11 DEF FilesOpen
  <2>13. call'.at = "copied" /\ DOMAIN call' = {"at", "old", "messages"} /\ call'.messages \in Seq(Cell)
    BY <1>1, <1>4
  <2>14. Named(journal', fh', call')
    BY <1>1, <2>8, <2>10, <2>11, <2>13 DEF Named
  <2> QED BY <1>1, <2>6, <2>7, <2>12, <2>13, <2>14 DEF RecoverableInv, ClientsType, Ready
<1>5. CASE /\ files' = Flushed(fs, s)
           /\ fh' = [fh EXCEPT !.recording.unsaved = << >>, !.streamRecording.unsaved = << >>,
                               !.resetStreamState = "None", !.ctxId = 0]
           /\ UNCHANGED call
  <2> DEFINE r2 == [r EXCEPT !.unsaved = << >>]
             s2 == [s EXCEPT !.unsaved = << >>]
  <2>1. r2.name # s.name /\ r2.name = r.name
    BY <1>2, <1>3
  <2> HIDE DEF fs
  <2>2. AllRecordings(files') /\ Open(files', r2) /\ Open(files', s2)
    BY <1>3, <1>5, <2>1, FlushedIsRecording, FlushedOpen, FlushedSelfOpen
  <2>3. s2.name = s.name
    BY <1>2 DEF Open
  <2>4. /\ DOMAIN fh' = Fields /\ fh'.recording = r2 /\ fh'.streamRecording = s2
        /\ fh'.resetStreamState = "None"
        /\ fh'.fileCount = fh.fileCount /\ fh'.forkPos = fh.forkPos
    BY <1>1, <1>5 DEF FilesOpen, Fields
  <2> HIDE DEF r2, s2
  <2>5. FilesOpen(files', fh')
    BY <1>2, <2>1, <2>2, <2>3, <2>4 DEF FilesOpen
  <2> QED BY <1>1, <1>5, <2>1, <2>2, <2>4, <2>5, QuietStep
<1> QED BY <1>4, <1>5 DEF StreamResolve, resolveStreamedReset_start


(* The other steps between resets.                                         *)
LEMMA FlushStep ==
  ASSUME RecoverableInv, Flush
  PROVE  RecoverableInv'
<1>1. /\ Ready /\ AllRecordings(files) /\ FilesOpen(files, fh)
      /\ clients' \in ClientsType /\ UNCHANGED <<journal, call, server>>
      /\ files' = Flushed(files, fh.recording)
      /\ fh' = [fh EXCEPT !.recording.unsaved = << >>]
  BY DEF Flush, flushRecording, RecoverableInv, Ready, ClientsType
<1>2. AllRecordings(files') /\ FilesOpen(files', fh')
  BY <1>1, FlushedFilesOpen
<1>3. fh'.recording.name = fh.recording.name
  BY <1>1 DEF FilesOpen, Open, Fields
<1> QED BY <1>1, <1>2, <1>3, QuietStep

LEMMA FetchStep ==
  ASSUME RecoverableInv, Fetch
  PROVE  RecoverableInv'
<1>1. /\ Ready /\ AllRecordings(files) /\ FilesOpen(files, fh)
      /\ clients' \in ClientsType
  BY DEF Fetch, RecoverableInv, Ready, ClientsType
<1>2. PICK after \in (fh.firstIndex - 1) .. (fh.lastIndex - 1) : getBatch_load(after)
  BY DEF Fetch
<1> DEFINE i == findBlock(fh.blocks, after)
           h == [fh EXCEPT !.recording.unsaved = << >>]
           read == BlockRead(fh.blocks[i])
<1>3. /\ files' = Flushed(files, fh.recording)
      /\ fh' = [fh EXCEPT !.recording.unsaved = << >>, !.blocks[i].messages = read]
      /\ UNCHANGED <<journal, call, server>>
  BY <1>2 DEF getBatch_load
<1> HIDE DEF i, read
<1>4. AllRecordings(files') /\ FilesOpen(files', h) /\ h.recording.name = fh.recording.name
  <2>1. AllRecordings(files') /\ FilesOpen(files', h)
    BY <1>1, <1>3, FlushedFilesOpen
  <2>2. h.recording.name = fh.recording.name
    BY <1>1 DEF FilesOpen, Open, Fields
  <2> QED BY <2>1, <2>2
<1>5. /\ DOMAIN fh' = Fields /\ fh'.recording = h.recording
      /\ fh'.streamRecording = h.streamRecording
      /\ fh'.resetStreamState = h.resetStreamState
      /\ fh'.fileCount = h.fileCount /\ fh'.forkPos = h.forkPos
  BY <1>1, <1>3 DEF FilesOpen, Fields
<1> HIDE DEF h
<1>6. FilesOpen(files', fh')
  BY <1>4, <1>5 DEF FilesOpen
<1> QED BY <1>1, <1>3, <1>4, <1>5, <1>6, QuietStep

LEMMA CleanUpStep ==
  ASSUME RecoverableInv, CleanUp
  PROVE  RecoverableInv'
<1>1. /\ Ready /\ AllRecordings(files) /\ FilesOpen(files, fh)
      /\ clients' \in ClientsType /\ UNCHANGED <<files, journal, call, server>>
  BY DEF CleanUp, cleanupBatches, RecoverableInv, Ready, ClientsType
<1>2. PICK before \in fh.firstIndex .. fh.lastIndex : fh' = [fh EXCEPT !.blocks = cleanup(@, before)]
  BY DEF CleanUp, cleanupBatches
<1>3. /\ DOMAIN fh' = Fields /\ fh'.recording = fh.recording
      /\ fh'.streamRecording = fh.streamRecording
      /\ fh'.resetStreamState = fh.resetStreamState
      /\ fh'.fileCount = fh.fileCount /\ fh'.forkPos = fh.forkPos
  BY <1>1, <1>2 DEF FilesOpen, Fields
<1>4. FilesOpen(files', fh') /\ AllRecordings(files')
  BY <1>1, <1>3 DEF FilesOpen
<1> QED BY <1>1, <1>3, <1>4, QuietStep

----------------------------------------------------------------------------
(* Resets, step by step.                                                   *)

(* The new recording is named in the journal after it has been filled.     *)
LEMMA ResolveJournalStep ==
  ASSUME RecoverableInv, resolveStreamedReset_journal, UNCHANGED clients
  PROVE  RecoverableInv'
<1>1. /\ server = "up" /\ FilesOpen(files, fh) /\ Named(journal, fh, call)
      /\ call.at = "copied" /\ journal \in Seq(FileName)
      /\ UNCHANGED <<files, fh, server, clients>>
      /\ journal' = Append(journal, fh.streamRecording.name)
      /\ call' = [call EXCEPT !.at = "journalled"]
      /\ DOMAIN call = {"at", "old", "messages"}
  BY DEF resolveStreamedReset_journal, writeFileEntryToJournal, RecoverableInv
<1>2. /\ fh.streamRecording # NoFile
      /\ fh.streamRecording.name \in FileName /\ fh.streamRecording.name \in DOMAIN files
  BY <1>1 DEF Named, FilesOpen, Open
<1>3. /\ journal' \in Seq(FileName) /\ journal' # << >>
      /\ Last(journal') = fh.streamRecording.name
  BY <1>1, <1>2 DEF Last
<1>4. /\ DOMAIN call' = {"at", "old", "messages"}
      /\ call'.at = "journalled" /\ call'.messages = call.messages
  BY <1>1
<1>5. Named(journal', fh', call')
  BY <1>1, <1>2, <1>3, <1>4 DEF Named
<1> QED BY <1>1, <1>2, <1>3, <1>4, <1>5 DEF RecoverableInv

(* Only then is the old one removed.                                       *)
LEMMA ResolveFinishStep ==
  ASSUME RecoverableInv, resolveStreamedReset_finish, UNCHANGED clients
  PROVE  RecoverableInv'
<1> DEFINE r == fh.recording
           s == fh.streamRecording
<1>1. /\ server = "up" /\ FilesOpen(files, fh) /\ AllRecordings(files)
      /\ UNCHANGED <<journal, server, clients>>
      /\ files' = Without(files, r.name) /\ fh' = Resolved(fh) /\ call' = NoCall
      /\ Last(journal) = s.name /\ s # NoFile
  BY DEF resolveStreamedReset_finish, RecoverableInv, Named
<1>2. Open(files, s) /\ s.name # r.name
  BY <1>1 DEF FilesOpen
<1>3. AllRecordings(files') /\ Open(files', s)
  BY <1>1, <1>2, WithoutOpen
<1>4. /\ DOMAIN fh' = Fields /\ fh'.recording = s /\ fh'.streamRecording = NoFile
      /\ fh'.resetStreamState = "None"
      /\ fh'.fileCount = fh.fileCount /\ fh'.forkPos = fh.forkPos
  BY <1>1 DEF Resolved, FilesOpen, Fields
<1>5. FilesOpen(files', fh')
  BY <1>1, <1>3, <1>4 DEF FilesOpen
<1>6. Named(journal', fh', call')
  BY <1>1, <1>4 DEF Named, NoCall
<1>7. DOMAIN call' = {"at", "old", "messages"} /\ call'.messages \in Seq(Cell)
  BY <1>1 DEF NoCall
<1>8. Last(journal') \in DOMAIN files'
  BY <1>1, <1>3 DEF Open
<1> QED BY <1>1, <1>3, <1>5, <1>6, <1>7, <1>8 DEF RecoverableInv

(* A full reset: the new recording has been opened.                        *)
LEMMA FullResetStep ==
  ASSUME RecoverableInv, FullReset
  PROVE  RecoverableInv'
<1> DEFINE r  == fh.recording
           new == serverSideStateMessages \o <<ImageMsg(0)>>
           flushed == Flushed(files, r)
           fs == filesAfterAbort(flushed, fh, -1)
           h  == AbortedBy(fh, -1)
<1>1. /\ Ready /\ AllRecordings(files) /\ FilesOpen(files, fh) /\ journal \in Seq(FileName)
      /\ clients' \in ClientsType /\ UNCHANGED <<journal, server>>
      /\ Last(journal) = r.name /\ journal # << >>
  BY DEF FullReset, reset_start, RecoverableInv, Ready, ClientsType, Named
<1>2. new \in Seq(Cell)
  BY ServerSideType, MessageTypes
<1>3. AllRecordings(flushed) /\ FilesOpen(flushed, fh)
  BY <1>1, FlushedFilesOpen
<1>4. AllRecordings(fs) /\ FilesOpen(fs, h) /\ h.recording = r
  BY <1>3, AbortOpen
<1>5. PICK k \in 0 .. Cardinality(DOMAIN fs) :
        LET name == <<h.fileCount + 1, k>>
        IN /\ uniqueRecordingFilename(fs, h.fileCount + 1, name)
           /\ files' = WithNew(fs, name)
           /\ fh' = [h EXCEPT !.sizeInBytes = Len(new), !.firstIndex = h.lastIndex + 1,
                              !.lastIndex = @ + Len(new), !.autoResetBaseSize = Len(new),
                              !.fileCount = @ + 1, !.recording = openRecording(name),
                              !.blocks = <<Block(1, h.lastIndex + 1)>>]
  BY DEF FullReset, reset_start
<1>6. call' = [at |-> "opened", old |-> r.name, messages |-> new]
  BY DEF FullReset, reset_start
<1> HIDE DEF new, fs, h
<1> DEFINE name == <<h.fileCount + 1, k>>
<1>7. name \in FileName /\ name \notin DOMAIN fs
  BY <1>4, <1>5 DEF FileName, FilesOpen, uniqueRecordingFilename
<1>8. files' = WithNew(fs, name)
  BY <1>5
<1>9. /\ DOMAIN fh' = Fields /\ fh'.recording = openRecording(name)
      /\ fh'.streamRecording = h.streamRecording /\ fh'.resetStreamState = h.resetStreamState
      /\ fh'.fileCount = h.fileCount + 1 /\ fh'.forkPos = h.forkPos
  BY <1>4, <1>5 DEF FilesOpen, Fields
<1> HIDE DEF name
<1>10. /\ AllRecordings(files') /\ Open(files', openRecording(name))
       /\ openRecording(name).name = name
       /\ Open(files', r) /\ r.name # name
       /\ h.streamRecording # NoFile =>
            Open(files', h.streamRecording) /\ h.streamRecording.name # name
               /\ h.streamRecording.name # r.name
  BY <1>4, <1>7, <1>8, NewOpen DEF FilesOpen
<1>11. FilesOpen(files', fh')
  <2>1. fh'.fileCount \in Int /\ fh'.forkPos \in Nat
    BY <1>4, <1>9 DEF FilesOpen
  <2>2. /\ fh'.resetStreamState \in {"None", "Streaming", "Prepared"}
        /\ fh'.resetStreamState # "None" => fh'.streamRecording # NoFile
    BY <1>4, <1>9 DEF FilesOpen
  <2> QED BY <1>9, <1>10, <2>1, <2>2 DEF FilesOpen
<1>12. Named(journal', fh', call')
  BY <1>1, <1>6, <1>9, <1>10 DEF Named
<1>13. r.name \in DOMAIN files'
  BY <1>10 DEF Open
<1>14. DOMAIN call' = {"at", "old", "messages"} /\ call'.messages \in Seq(Cell)
  BY <1>2, <1>6
<1> QED BY <1>1, <1>10, <1>11, <1>12, <1>13, <1>14 DEF RecoverableInv, ClientsType, Ready


(* It is named in the journal.                                             *)
LEMMA ResetJournalStep ==
  ASSUME RecoverableInv, reset_journal, UNCHANGED clients
  PROVE  RecoverableInv'
<1>1. /\ server = "up" /\ FilesOpen(files, fh) /\ Named(journal, fh, call)
      /\ call.at = "opened" /\ journal \in Seq(FileName)
      /\ UNCHANGED <<files, fh, server, clients>>
      /\ journal' = Append(journal, fh.recording.name)
      /\ call' = [call EXCEPT !.at = "named"]
      /\ DOMAIN call = {"at", "old", "messages"}
  BY DEF reset_journal, writeFileEntryToJournal, RecoverableInv
<1>2. fh.recording.name \in FileName /\ fh.recording.name \in DOMAIN files
  BY <1>1 DEF FilesOpen, Open
<1>3. /\ journal' \in Seq(FileName) /\ journal' # << >>
      /\ Last(journal') = fh.recording.name
  BY <1>1, <1>2 DEF Last
<1>4. /\ DOMAIN call' = {"at", "old", "messages"} /\ call'.at = "named"
      /\ call'.messages = call.messages /\ call'.old = call.old
  BY <1>1
<1>5. Named(journal', fh', call')
  BY <1>1, <1>3, <1>4 DEF Named
<1> QED BY <1>1, <1>2, <1>3, <1>4, <1>5 DEF RecoverableInv

(* What the index makes of the messages does not touch the files.          *)
LEMMA HistoryAddOpen ==
  ASSUME NEW fs, NEW h, AllRecordings(fs), FilesOpen(fs, h), NEW ms \in Seq(Cell)
  PROVE  FilesOpen(fs, historyAdd(h, ms)) /\ historyAdd(h, ms).recording.name = h.recording.name
<1> DEFINE g == historyAdd(h, ms)
           f == Written(h.recording, ms)
<1>1. Open(fs, f) /\ f.name = h.recording.name
  BY WrittenOpen DEF FilesOpen
<1>2. /\ DOMAIN g = Fields /\ g.recording = f
      /\ g.streamRecording = h.streamRecording /\ g.resetStreamState = h.resetStreamState
      /\ g.fileCount = h.fileCount /\ g.forkPos = h.forkPos
  BY DEF FilesOpen, Fields, historyAdd
<1> HIDE DEF f, g
<1> QED BY <1>1, <1>2 DEF FilesOpen, g

(* The old one is removed and the new one filled.                          *)
LEMMA ResetFinishStep ==
  ASSUME RecoverableInv, reset_finish(CaughtUpMsg), UNCHANGED clients
  PROVE  RecoverableInv'
<1> DEFINE h == historyAdd(fh, call.messages)
<1>1. /\ server = "up" /\ FilesOpen(files, fh) /\ AllRecordings(files)
      /\ call.at = "named" /\ Named(journal, fh, call) /\ call.messages \in Seq(Cell)
      /\ UNCHANGED <<journal, server, clients>>
      /\ files' = Without(files, call.old) /\ fh' = addMessage(h, CaughtUpMsg) /\ call' = NoCall
  BY DEF reset_finish, RecoverableInv
<1>2. /\ call.old # fh.recording.name
      /\ fh.streamRecording # NoFile => call.old # fh.streamRecording.name
      /\ Last(journal) = fh.recording.name
  BY <1>1 DEF Named
<1>3. AllRecordings(files') /\ FilesOpen(files', fh)
  BY <1>1, <1>2, WithoutOpen DEF FilesOpen
<1>4. FilesOpen(files', h) /\ h.recording.name = fh.recording.name
  BY <1>1, <1>3, HistoryAddOpen
<1> HIDE DEF h
<1>5. FilesOpen(files', fh') /\ fh'.recording.name = fh.recording.name
  BY <1>1, <1>3, <1>4, AddOpen, MessageTypes
<1>6. Named(journal', fh', call')
  BY <1>1, <1>2, <1>5 DEF Named, NoCall
<1>7. DOMAIN call' = {"at", "old", "messages"} /\ call'.messages \in Seq(Cell)
  BY <1>1 DEF NoCall
<1>8. Last(journal') \in DOMAIN files'
  BY <1>1, <1>2, <1>5 DEF FilesOpen, Open
<1> QED BY <1>1, <1>3, <1>5, <1>6, <1>7, <1>8 DEF RecoverableInv

LEMMA ProceedStep == ASSUME RecoverableInv, Proceed PROVE RecoverableInv'
BY ResolveJournalStep, ResolveFinishStep, ResetJournalStep, ResetFinishStep DEF Proceed

----------------------------------------------------------------------------
(* The end of the process and its start.                                   *)

(* Whatever part of the unsaved messages gets to the disk, the file begins *)
(* with its header.                                                        *)
LEMMA FailStep ==
  ASSUME RecoverableInv, Fail
  PROVE  RecoverableInv'
<1> DEFINE f == fh.recording
<1>1. /\ server = "up" /\ FilesOpen(files, fh) /\ AllRecordings(files)
      /\ server' = "down" /\ call' = NoCall /\ journal' = journal /\ clients' = << >>
      /\ fh' = NoHistory
  BY DEF Fail, Crash, NoOneLeft, RecoverableInv
<1>2. PICK k \in 0 .. Len(f.unsaved), torn \in BOOLEAN : Crash(k, torn)
  BY DEF Fail
<1> DEFINE seen == Seen(files, f)
           cells == files[f.name]
           at == f.pos - Len(f.unsaved) + k
           tail == IF torn THEN <<TornCell>> ELSE SubSeq(cells, at + 1, Len(cells))
           left == SubSeq(seen, 1, at) \o tail
<1>3. files' = [files EXCEPT ![f.name] = left]
  BY <1>2 DEF Crash
<1>4. /\ Open(files, f) /\ f.pos \in Nat /\ Len(f.unsaved) \in Nat /\ k \in Nat
      /\ 1 <= at /\ at <= f.pos
  <2>0. Open(files, f)
    BY <1>1 DEF FilesOpen
  <2>1. Open(files, f) /\ f.pos \in Nat /\ Len(f.unsaved) \in Nat /\ Len(f.unsaved) < f.pos
    <3> HIDE DEF f
    <3> QED BY <2>0 DEF Open
  <2>2. k \in Nat /\ k <= Len(f.unsaved)
    BY <1>2, <2>1
  <2> QED BY <2>1, <2>2
<1>5. IsRecording(seen) /\ f.pos <= Len(seen) /\ IsRecording(cells) /\ f.name \in DOMAIN files
  BY <1>1, <1>4, SeenIsRecording DEF Open, AllRecordings
<1>6. SubSeq(seen, 1, at) \in Seq(Cell) /\ Len(SubSeq(seen, 1, at)) = at
      /\ SubSeq(seen, 1, at)[1] = HeaderCell
  <2> HIDE DEF seen, at
  <2>1. seen \in Seq(Cell) /\ Len(seen) \in Nat /\ at \in 1 .. Len(seen) /\ seen[1] = HeaderCell
    BY <1>4, <1>5 DEF IsRecording, at
  <2> QED BY <2>1, SubSeqProperties
<1>7. tail \in Seq(Cell)
  <2>1. <<TornCell>> \in Seq(Cell)
    BY DEF Cell
  <2>2. SubSeq(cells, at + 1, Len(cells)) \in Seq(Cell)
    <3>1. cells \in Seq(Cell) /\ at \in Nat
      BY <1>4, <1>5 DEF IsRecording
    <3> HIDE DEF cells, at
    <3> QED BY <3>1
  <2> QED BY <2>1, <2>2
<1> HIDE DEF seen, at, tail
<1>8. IsRecording(left)
  <2> DEFINE part == SubSeq(seen, 1, at)
  <2>1. part \in Seq(Cell) /\ Len(part) \in Nat /\ Len(part) >= 1 /\ part[1] = HeaderCell
    BY <1>4, <1>6
  <2> HIDE DEF part
  <2>2. part \o tail \in Seq(Cell) /\ part \o tail # << >> /\ (part \o tail)[1] = HeaderCell
    BY <1>7, <2>1
  <2> QED BY <2>2 DEF part, IsRecording
<1> HIDE DEF left
<1>9. AllRecordings(files') /\ DOMAIN files' = DOMAIN files
  BY <1>1, <1>3, <1>5, <1>8 DEF AllRecordings
<1>10. << >> \in ClientsType /\ NoCall.messages \in Seq(Cell)
       /\ DOMAIN NoCall = {"at", "old", "messages"}
  BY DEF ClientsType, NoCall
<1> QED BY <1>1, <1>9, <1>10 DEF RecoverableInv, ClientsType

LEMMA StopStep ==
  ASSUME RecoverableInv, Stop
  PROVE  RecoverableInv'
<1> DEFINE r  == fh.recording
           s  == fh.streamRecording
           fs == Flushed(files, r)
<1>1. /\ server = "up" /\ FilesOpen(files, fh) /\ AllRecordings(files)
      /\ server' = "down" /\ call' = NoCall /\ journal' = journal /\ clients' = << >>
      /\ fh' = NoHistory
      /\ files' = IF s = NoFile THEN fs ELSE Flushed(fs, s)
  BY DEF Stop, Shutdown, NoOneLeft, Ready, RecoverableInv
<1>2. AllRecordings(fs) /\ DOMAIN fs = DOMAIN files /\ FilesOpen(fs, fh)
  <2>1. Open(files, r)
    BY <1>1 DEF FilesOpen
  <2> QED BY <1>1, <2>1, FlushedIsRecording, FlushedFilesOpen
<1> HIDE DEF fs
<1>3. AllRecordings(files') /\ DOMAIN files' = DOMAIN files
  BY <1>1, <1>2, FlushedIsRecording DEF FilesOpen
<1>4. << >> \in ClientsType /\ NoCall.messages \in Seq(Cell)
      /\ DOMAIN NoCall = {"at", "old", "messages"}
  BY DEF ClientsType, NoCall
<1> QED BY <1>1, <1>3, <1>4 DEF RecoverableInv, ClientsType

LEMMA EndStep ==
  ASSUME RecoverableInv, End
  PROVE  RecoverableInv'
<1>1. /\ FilesOpen(files, fh) /\ AllRecordings(files) /\ server' = "gone"
      /\ call' = NoCall /\ journal' = << >> /\ clients' = << >> /\ fh' = NoHistory
      /\ files' = Without(discardFile(files, fh), fh.recording.name)
  BY DEF End, terminate, NoOneLeft, Ready, RecoverableInv
<1>2. AllRecordings(files')
  BY <1>1, WithoutOpen DEF discardFile
<1>3. << >> \in ClientsType /\ NoCall.messages \in Seq(Cell) /\ << >> \in Seq(FileName)
      /\ DOMAIN NoCall = {"at", "old", "messages"}
  BY DEF ClientsType, NoCall
<1> QED BY <1>1, <1>2, <1>3 DEF RecoverableInv, ClientsType


(* The users who are still in a recording can be counted.                  *)
LEMMA FarewellsType ==
  ASSUME NEW ms, NEW bye \in Farewells(UsersLeftIn(ms))
  PROVE  bye \in Seq(Cell)
<1> DEFINE S == UsersLeftIn(ms)
<1>1. S \subseteq 1 .. MaxId /\ S \subseteq Clients
  BY StoredSessionAssumption DEF UsersLeftIn
<1>2. Cardinality(S) \in Nat
  <2>1. IsFiniteSet(1 .. MaxId)
    BY FS_Interval, IdQueueAssumption
  <2> QED BY <1>1, <2>1, FS_Subset, FS_CardinalityType
<1>3. {LeaveMsg(c) : c \in S} \subseteq Cell
  BY <1>1, MessageTypes
<1>4. bye \in [1 .. Cardinality(S) -> {LeaveMsg(c) : c \in S}]
  BY DEF Farewells
<1> HIDE DEF S
<1>5. DOMAIN bye = 1 .. Cardinality(S) /\ \A i \in 1 .. Cardinality(S) : bye[i] \in Cell
  BY <1>3, <1>4
<1>6. bye = [i \in 1 .. Cardinality(S) |-> bye[i]]
  BY <1>4
<1> QED BY <1>2, <1>5, <1>6, IsASeq

(* What is found in a recording are cells.                                 *)
LEMMA ScannedType ==
  ASSUME NEW cells, IsRecording(cells)
  PROVE  /\ ScannedMessages(cells) \in Seq(Cell)
         /\ Len(ScannedMessages(cells)) < Len(cells)
<1>1. cells \in Seq(Cell) /\ Len(cells) \in Nat /\ Len(cells) >= 1
  BY DEF IsRecording
<1>2. ASSUME NEW n \in Nat, n <= Len(cells)
      PROVE  SubSeq(cells, 2, n) \in Seq(Cell) /\ Len(SubSeq(cells, 2, n)) < Len(cells)
  BY <1>1, <1>2
<1>3. PICK n \in {Len(cells) - 1, Len(cells)} : ScannedMessages(cells) = SubSeq(cells, 2, n)
  BY DEF ScannedMessages
<1>4. n \in Nat /\ n <= Len(cells)
  BY <1>1, <1>3
<1> QED BY <1>2, <1>3, <1>4

(* The session is loaded from what the journal names, or is gone.          *)
LEMMA RestartStep ==
  ASSUME RecoverableInv, Restart
  PROVE  RecoverableInv'
<1> DEFINE name  == Last(journal)
           cells == files[name]
           ms    == ScannedMessages(cells)
<1>1. /\ server = "down" /\ call = NoCall /\ AllRecordings(files)
      /\ journal \in Seq(FileName) /\ journal # << >> /\ name \in DOMAIN files
      /\ clients' = clients
  BY DEF Restart, RecoverableInv
<1>2. CASE loadFails
  BY <1>1, <1>2 DEF loadFails, RecoverableInv
<1>3. CASE \E bye \in Farewells(UsersLeftIn(ms)) : load(bye)
  <2>1. PICK bye \in Farewells(UsersLeftIn(ms)) : load(bye)
    BY <1>3
  <2> DEFINE all == ms \o bye
             r == [name |-> name, pos |-> 1 + Len(all), unsaved |-> bye]
             h == NewFiledHistory(name, Len(journal))
  <2>2. /\ fh' = [h EXCEPT !.recording = r,
                           !.blocks = Indexed(1, 0, all), !.lastIndex = Len(all) - 1,
                           !.sizeInBytes = Len(all), !.autoResetBaseSize = Len(all)]
        /\ server' = "up" /\ UNCHANGED <<files, journal, call>>
    BY <2>1 DEF load
  <2>3. IsRecording(cells) /\ Len(cells) \in Nat
    BY <1>1 DEF AllRecordings, IsRecording
  <2>4. bye \in Seq(Cell)
    BY FarewellsType
  <2>5. ms \in Seq(Cell) /\ Len(ms) < Len(cells)
    BY <2>3, ScannedType
  <2>6. name \in FileName /\ Len(journal) \in Int
    <3>1. Len(journal) \in 1 .. Len(journal)
      BY <1>1
    <3> QED BY <1>1, <3>1 DEF Last
  <2> HIDE DEF name, ms
  <2>7. all \in Seq(Cell) /\ Len(all) = Len(ms) + Len(bye) /\ Len(ms) \in Nat /\ Len(bye) \in Nat
    BY <2>4, <2>5
  <2> HIDE DEF all
  <2>8. Open(files, r)
    BY <1>1, <2>3, <2>4, <2>5, <2>6, <2>7 DEF Open
  <2>9. /\ DOMAIN fh' = Fields /\ fh'.recording = r /\ fh'.streamRecording = NoFile
        /\ fh'.resetStreamState = "None" /\ fh'.fileCount = Len(journal) /\ fh'.forkPos = 0
    BY <2>2 DEF NewFiledHistory, Fields
  <2>10. r.name = name
    OBVIOUS
  <2> HIDE DEF r
  <2>11. FilesOpen(files, fh')
    BY <2>6, <2>8, <2>9 DEF FilesOpen
  <2>12. Named(journal, fh', call)
    BY <1>1, <2>9, <2>10 DEF Named, NoCall, name
  <2> QED BY <1>1, <2>2, <2>11, <2>12 DEF RecoverableInv
<1> QED BY <1>2, <1>3 DEF Restart

----------------------------------------------------------------------------
(* Ids.                                                                    *)

UserEntry == [id : Clients, name : Names]

(* Nobody is being entered in the journal, or one user is.                 *)
JoiningType == joining = << >> \/ \E c \in UserEntry : joining = <<c>>

QueueInv == userEntries \in Seq(UserEntry) /\ AllIdsOnce(idQueue) /\ JoiningType

StoredTypeInv == RecoverableInv /\ QueueInv

LEMMA ClientsAreIds == Clients = Ids
BY StoredSessionAssumption DEF Ids

(* As long as a user may come in there is an id for them.                  *)
LEMMA IdIsFree ==
  ASSUME RecoverableInv, Len(clients) < MaxUsers
  PROVE  \E id \in Ids : id \notin Present
<1> DEFINE n == Len(clients)
           f == [i \in 1 .. n |-> clients[i].id]
<1>1. n \in Nat /\ DOMAIN clients = 1 .. n
  BY LenProperties DEF RecoverableInv
<1>2. n < MaxId /\ MaxId \in Nat
  BY <1>1, IdQueueAssumption, StoredSessionAssumption
<1> HIDE DEF n
<1>3. Cardinality(Ids) = MaxId
  BY <1>2, FS_Interval DEF Ids
<1>4. SUFFICES ASSUME Ids \subseteq Present PROVE FALSE
  OBVIOUS
<1>5. Present = Ids
  BY <1>4, PresentType, ClientsAreIds
<1>6. \A i \in 1 .. n : f[i] \in Present
  BY <1>1 DEF Present
<1>7. \A id \in Ids : \E i \in 1 .. n : f[i] = id
  BY <1>1, <1>5 DEF Present
<1>8. f \in [1 .. n -> Ids]
  BY <1>5, <1>6
<1> HIDE DEF f
<1>9. ExistsSurjection(1 .. n, Ids)
  BY <1>7, <1>8 DEF ExistsSurjection, Surjection
<1>10. Cardinality(Ids) <= n
  BY <1>1, <1>9, FS_SurjCardinalityBound
<1> QED BY <1>1, <1>2, <1>3, <1>10

(* Who joins gets an id ...                                                *)
LEMMA JoinQueue ==
  ASSUME RecoverableInv, QueueInv, NEW name \in Names, NEW id \in Clients, Join(name, id)
  PROVE  QueueInv'
<1> DEFINE a == assignId(idQueue, name, Present)
           c == [id |-> id, name |-> name]
<1>1. /\ idQueue' = a.queue /\ Len(clients) < MaxUsers
      /\ userEntries' = userEntries /\ joining' = <<c>>
  BY DEF Join, Welcome
<1>2. AllIdsOnce(a.queue)
  BY <1>1, IdIsFree, AssignIdOk DEF QueueInv
<1>3. c \in UserEntry
  BY DEF UserEntry
<1> HIDE DEF a, c
<1> QED BY <1>1, <1>2, <1>3 DEF QueueInv, AllIdsOnce, JoiningType

LEMMA RejoinQueue ==
  ASSUME RecoverableInv, QueueInv, NEW i \in DOMAIN clients, Rejoin(i)
  PROVE  QueueInv'
<1> DEFINE c == clients[i]
<1>1. c \in UserEntry
  BY OthersType DEF RecoverableInv, ClientsType, UserEntry
<1>2. /\ idQueue' = reserveId(idQueue, c.id)
      /\ userEntries' = userEntries /\ joining' = <<c>>
  BY DEF Rejoin, Welcome
<1>3. AllIdsOnce(reserveId(idQueue, c.id))
  BY ReserveIdOk DEF QueueInv
<1> HIDE DEF c
<1> QED BY <1>1, <1>2, <1>3 DEF QueueInv, AllIdsOnce, JoiningType

(* ... which is then that of the name.                                     *)
LEMMA EnterQueue == ASSUME QueueInv, Enter PROVE QueueInv'
<1>1. PICK c \in UserEntry : joining = <<c>>
  BY DEF Enter, QueueInv, JoiningType
<1>2. /\ joining[1] = c /\ c.id \in Clients /\ c.name \in Names
      /\ [id |-> c.id, name |-> c.name] \in UserEntry
  BY <1>1 DEF UserEntry
<1>3. joinUser(idQueue, c.id, c.name) /\ joining' = << >>
  BY <1>2 DEF Enter
<1>4. AllIdsOnce(idQueue')
  BY <1>2, <1>3, SetIdForNameOk, ClientsAreIds DEF joinUser, QueueInv
<1>5. userEntries' \in Seq(UserEntry)
  BY <1>2, <1>3 DEF joinUser, QueueInv
<1> QED BY <1>3, <1>4, <1>5 DEF QueueInv, AllIdsOnce, JoiningType

LEMMA RemoveUserQueue ==
  ASSUME QueueInv, NEW i \in DOMAIN clients, removeUser(i)
  PROVE  QueueInv'
<1>1. /\ idQueue' = reserveId(idQueue, clients[i].id)
      /\ userEntries' = userEntries /\ joining' = joining
  BY DEF removeUser
<1> QED BY <1>1, ReserveIdOk DEF QueueInv, AllIdsOnce, JoiningType

LEMMA NoOneLeftQueue == ASSUME QueueInv, Fail \/ Stop \/ End PROVE QueueInv'
<1>1. /\ idQueue' = NewIdQueue /\ joining' = << >>
      /\ userEntries' = userEntries \/ userEntries' = << >>
  BY DEF Fail, Stop, End, NoOneLeft
<1>2. AllIdsOnce(idQueue')
  BY <1>1, NewIdQueueOk
<1>3. userEntries' \in Seq(UserEntry)
  <2>1. userEntries \in Seq(UserEntry) /\ << >> \in Seq(UserEntry)
    BY DEF QueueInv
  <2> QED BY <1>1, <2>1, Zenon
<1> QED BY <1>1, <1>2, <1>3 DEF QueueInv, AllIdsOnce, JoiningType

(* g is a queue on the way through the USER entries of a journal, ...      *)
Through(g, base, ms) ==
  /\ g[0] = base /\ g[Len(ms)] = FoldLeft(Entered, base, ms)
  /\ \A i \in 1 .. Len(ms) : g[i] = Entered(g[i - 1], ms[i])

(* Taking names and ids into the queue is the same as taking them one by   *)
(* one, ...                                                                *)
LEMMA EnteredSteps ==
  ASSUME NEW S, NEW M, NEW base \in S, NEW ms \in Seq(M),
         \A b \in S, m \in M : Entered(b, m) \in S
  PROVE  \E g : Through(g, base, ms)
<1> DEFINE n == Len(ms)
           F == [p \in S \X (1 .. n) |-> Entered(p[1], ms[p[2]])]
           Solves(it) ==
             it = [s \in SUBSET (1 .. n) |->
                     IF s = {} THEN base ELSE Entered(it[s \ {Max(s)}], ms[Max(s)])]
           fold == CHOOSE it : Solves(it)
           g == [i \in 0 .. n |-> fold[1 .. i]]
<1>1. n \in Nat /\ DOMAIN ms = 1 .. n /\ \A i \in 1 .. n : ms[i] \in M
  BY LenProperties, ElementOfSeq
<1>2. FoldLeft(Entered, base, ms) = fold[1 .. n]
  BY <1>1 DEF FoldLeft, MapThenFoldSet
<1>3. ASSUME NEW b \in S, NEW i \in 1 .. n PROVE F[<<b, i>>] = Entered(b, ms[i])
  OBVIOUS
<1>4. \E it : Solves(it)
  <2>1. \A b \in S, i \in 1 .. n : F[<<b, i>>] \in S
    BY <1>1, <1>3
  <2> HIDE DEF F, n
  <2>2. PICK it : Iterates(it, n, S, base, F)
    BY <1>1, <2>1, Iteration
  <2>3. ASSUME NEW s \in SUBSET (1 .. n), s # {}
        PROVE  F[<<it[s \ {Max(s)}], Max(s)>>] = Entered(it[s \ {Max(s)}], ms[Max(s)])
    <3>1. Max(s) \in 1 .. n /\ it[s \ {Max(s)}] \in S
      BY <1>1, <2>2, <2>3, GreatestNumber DEF Iterates
    <3> QED BY <1>3, <3>1
  <2>4. it = [s \in SUBSET (1 .. n) |-> it[s]]
    BY <2>2 DEF Iterates
  <2> QED BY <2>2, <2>3, <2>4 DEF Iterates
<1>5. Solves(fold)
  <2> HIDE DEF Solves
  <2> QED BY <1>4
<1> HIDE DEF fold, F
<1>6. g[0] = base
  <2>1. 1 .. 0 = {} /\ {} \in SUBSET (1 .. n)
    OBVIOUS
  <2> QED BY <1>1, <1>5, <2>1
<1>7. ASSUME NEW i \in 1 .. n PROVE g[i] = Entered(g[i - 1], ms[i])
  <2>1. /\ 1 .. i \in SUBSET (1 .. n) /\ 1 .. i # {} /\ Max(1 .. i) = i
        /\ (1 .. i) \ {i} = 1 .. (i - 1) /\ i \in 0 .. n /\ i - 1 \in 0 .. n
    BY <1>1, GreatestOfFirst
  <2>2. fold[1 .. i] = Entered(fold[1 .. (i - 1)], ms[i])
    BY <1>5, <2>1
  <2> QED BY <2>1, <2>2
<1>8. g[n] = FoldLeft(Entered, base, ms)
  BY <1>1, <1>2
<1> HIDE DEF g
<1> QED BY <1>6, <1>7, <1>8 DEF Through

(* ... which stays in a set, ...                                           *)
LEMMA EnteredKept ==
  ASSUME NEW S, NEW M, NEW base \in S, NEW ms \in Seq(M),
         \A b \in S, m \in M : Entered(b, m) \in S
  PROVE  FoldLeft(Entered, base, ms) \in S
<1>1. Len(ms) \in Nat /\ \A i \in 1 .. Len(ms) : ms[i] \in M
  BY LenProperties, ElementOfSeq
<1>2. PICK g : Through(g, base, ms)
  BY EnteredSteps
<1>3. \A i \in 0 .. Len(ms) : g[i] \in S
  <2>1. \A i \in 1 .. Len(ms) : g[i - 1] \in S => g[i] \in S
    BY <1>1, <1>2 DEF Through
  <2>2. g[0] \in S
    BY <1>2 DEF Through
  <2> QED BY <1>1, <2>1, <2>2, KeptBySteps
<1> QED BY <1>1, <1>2, <1>3 DEF Through

(* ... and goes on from where it was when there is one more.               *)
AllEntered(base, ms) == FoldLeft(Entered, base, ms)

(* ... and one more is taken after the others.                             *)
LEMMA EnteredMore ==
  ASSUME NEW S, NEW M, NEW base \in S, NEW ms \in Seq(M), NEW e \in M,
         \A b \in S, m \in M : Entered(b, m) \in S
  PROVE  AllEntered(base, Append(ms, e)) = Entered(AllEntered(base, ms), e)
<1> DEFINE all == Append(ms, e)
           n == Len(ms)
<1>1. /\ n \in Nat /\ all \in Seq(M) /\ Len(all) = n + 1 /\ all[n + 1] = e
      /\ \A i \in 1 .. n : all[i] = ms[i]
  BY LenProperties, AppendProperties
<1> HIDE DEF all, n
<1>2. PICK g : Through(g, base, ms)
  BY EnteredSteps
<1>3. PICK h : Through(h, base, all)
  BY <1>1, EnteredSteps
<1> DEFINE T == {i \in 0 .. n : g[i] = h[i]}
<1>4. 0 \in T
  BY <1>1, <1>2, <1>3 DEF Through
<1>5. \A i \in 1 .. n : i - 1 \in T => i \in T
  <2> SUFFICES ASSUME NEW i \in 1 .. n, g[i - 1] = h[i - 1] PROVE g[i] = h[i]
    BY <1>1
  <2>1. i \in 1 .. Len(ms) /\ i \in 1 .. Len(all)
    BY <1>1 DEF n
  <2> QED BY <1>1, <1>2, <1>3, <2>1 DEF Through
<1>6. n \in T
  <2> HIDE DEF T
  <2>1. \A i \in 0 .. n : i \in T
    BY <1>1, <1>4, <1>5, Stepwise
  <2> QED BY <1>1, <2>1
<1>7. FoldLeft(Entered, base, all) = Entered(FoldLeft(Entered, base, ms), e)
  <2>1. n + 1 \in 1 .. Len(all) /\ n + 1 - 1 = n
    BY <1>1
  <2> DEFINE k == n + 1
  <2>2. k \in 1 .. Len(all) /\ k - 1 = n /\ all[k] = e /\ k = Len(all)
    BY <1>1, <2>1
  <2> HIDE DEF k
  <2>3. h[k] = Entered(h[k - 1], all[k])
    BY <1>3, <2>2 DEF Through
  <2>4. h[k] = Entered(h[n], e)
    BY <2>2, <2>3, Zenon
  <2>5. h[k] = FoldLeft(Entered, base, all) /\ g[n] = FoldLeft(Entered, base, ms) /\ g[n] = h[n]
    BY <1>2, <1>3, <1>6, <2>2 DEF n, Through
  <2> QED BY <2>4, <2>5, Zenon
<1> QED BY <1>7 DEF all, AllEntered

(* Without entries it stays where it is.                                   *)
LEMMA EnteredNone ==
  ASSUME NEW S, NEW M, NEW base \in S, \A b \in S, m \in M : Entered(b, m) \in S
  PROVE  AllEntered(base, << >>) = base
<1>1. << >> \in Seq(M) /\ Len(<< >>) = 0
  BY EmptySeq
<1>2. PICK g : Through(g, base, << >>)
  BY <1>1, EnteredSteps
<1> QED BY <1>1, <1>2 DEF Through, AllEntered

(* A queue on the way through the messages of a recording.                 *)
LEMMA FreedKept ==
  ASSUME NEW S, NEW M, NEW base \in S, NEW ms \in Seq(M),
         \A b \in S, m \in M : Freed(b, m) \in S
  PROVE  FoldLeft(Freed, base, ms) \in S
<1> DEFINE n == Len(ms)
           F == [p \in S \X (1 .. n) |-> Freed(p[1], ms[p[2]])]
           Solves(it) ==
             it = [s \in SUBSET (1 .. n) |->
                     IF s = {} THEN base ELSE Freed(it[s \ {Max(s)}], ms[Max(s)])]
           fold == CHOOSE it : Solves(it)
           g == [i \in 0 .. n |-> fold[1 .. i]]
<1>1. n \in Nat /\ DOMAIN ms = 1 .. n /\ \A i \in 1 .. n : ms[i] \in M
  BY LenProperties, ElementOfSeq
<1>2. FoldLeft(Freed, base, ms) = fold[1 .. n]
  BY <1>1 DEF FoldLeft, MapThenFoldSet
<1>3. ASSUME NEW b \in S, NEW i \in 1 .. n PROVE F[<<b, i>>] = Freed(b, ms[i])
  OBVIOUS
<1>4. \E it : Solves(it)
  <2>1. \A b \in S, i \in 1 .. n : F[<<b, i>>] \in S
    BY <1>1, <1>3
  <2> HIDE DEF F, n
  <2>2. PICK it : Iterates(it, n, S, base, F)
    BY <1>1, <2>1, Iteration
  <2>3. ASSUME NEW s \in SUBSET (1 .. n), s # {}
        PROVE  F[<<it[s \ {Max(s)}], Max(s)>>] = Freed(it[s \ {Max(s)}], ms[Max(s)])
    <3>1. Max(s) \in 1 .. n /\ it[s \ {Max(s)}] \in S
      BY <1>1, <2>2, <2>3, GreatestNumber DEF Iterates
    <3> QED BY <1>3, <3>1
  <2>4. it = [s \in SUBSET (1 .. n) |-> it[s]]
    BY <2>2 DEF Iterates
  <2> QED BY <2>2, <2>3, <2>4 DEF Iterates
<1>5. Solves(fold)
  <2> HIDE DEF Solves
  <2> QED BY <1>4
<1> HIDE DEF fold, F
<1>6. g[0] = base
  <2>1. 1 .. 0 = {} /\ {} \in SUBSET (1 .. n)
    OBVIOUS
  <2> QED BY <1>1, <1>5, <2>1
<1>7. ASSUME NEW i \in 1 .. n PROVE g[i] = Freed(g[i - 1], ms[i])
  <2>1. /\ 1 .. i \in SUBSET (1 .. n) /\ 1 .. i # {} /\ Max(1 .. i) = i
        /\ (1 .. i) \ {i} = 1 .. (i - 1) /\ i \in 0 .. n /\ i - 1 \in 0 .. n
    BY <1>1, GreatestOfFirst
  <2>2. fold[1 .. i] = Freed(fold[1 .. (i - 1)], ms[i])
    BY <1>5, <2>1
  <2> QED BY <2>1, <2>2
<1>8. \A i \in 0 .. n : g[i] \in S
  <2>1. \A i \in 1 .. n : g[i - 1] \in S => g[i] \in S
    BY <1>1, <1>7
  <2> HIDE DEF g
  <2> QED BY <1>1, <1>6, <2>1, KeptBySteps
<1> QED BY <1>1, <1>2, <1>8

(* The queue of a session that has been loaded.                            *)
LEMMA LoadedQueueOk ==
  ASSUME QueueInv, NEW M, NEW ms \in Seq(M)
  PROVE  AllIdsOnce(loadedIdQueue(ms))
<1> DEFINE Q == {q \in [ids : Seq(Ids), nameIds : [Names -> Ids \cup {NoId}]] : AllIdsOnce(q)}
           entered == FoldLeft(Entered, NewIdQueue, userEntries)
<1>1. \A q : q \in Q <=> AllIdsOnce(q)
  BY DEF AllIdsOnce
<1> HIDE DEF Q
<1>2. NewIdQueue \in Q
  BY <1>1, NewIdQueueOk
<1>3. \A q \in Q, e \in UserEntry : Entered(q, e) \in Q
  BY <1>1, SetIdForNameOk, ClientsAreIds DEF Entered, UserEntry
<1>4. \A q \in Q, m \in M : Freed(q, m) \in Q
  BY <1>1, ReserveIdOk DEF Freed
<1>5. userEntries \in Seq(UserEntry)
  BY DEF QueueInv
<1>6. entered \in Q
  BY <1>2, <1>3, <1>5, EnteredKept
<1> HIDE DEF entered
<1>7. FoldLeft(Freed, entered, ms) \in Q
  BY <1>4, <1>6, FreedKept
<1> QED BY <1>1, <1>7 DEF loadedIdQueue, entered

LEMMA RestartQueue ==
  ASSUME RecoverableInv, QueueInv, Restart
  PROVE  QueueInv'
<1> DEFINE name == Last(journal)
           ms   == ScannedMessages(files[name])
<1>1. userEntries' = userEntries /\ joining' = joining /\ AllRecordings(files)
  BY DEF Restart, RecoverableInv
<1>2. CASE UNCHANGED idQueue
  BY <1>1, <1>2 DEF QueueInv, JoiningType, AllIdsOnce
<1>3. CASE /\ name \in DOMAIN files
           /\ \E bye \in Farewells(UsersLeftIn(ms)) : idQueue' = loadedIdQueue(ms \o bye)
  <2>1. PICK bye \in Farewells(UsersLeftIn(ms)) : idQueue' = loadedIdQueue(ms \o bye)
    BY <1>3
  <2>2. ms \in Seq(Cell) /\ bye \in Seq(Cell)
    BY <1>1, <1>3, ScannedType, FarewellsType DEF AllRecordings
  <2> HIDE DEF ms
  <2>3. ms \o bye \in Seq(Cell)
    BY <2>2
  <2>4. AllIdsOnce(loadedIdQueue(ms \o bye))
    BY <2>3, LoadedQueueOk
  <2> QED BY <1>1, <2>1, <2>4 DEF QueueInv, JoiningType, AllIdsOnce
<1> QED BY <1>2, <1>3 DEF Restart

----------------------------------------------------------------------------
(* The theorem.                                                            *)

LEMMA InitRecoverable == StoredInit => RecoverableInv
<1> SUFFICES ASSUME StoredInit PROVE RecoverableInv
  OBVIOUS
<1> DEFINE name == <<1, 0>>
           none == [n \in {} |-> << >>]
<1>1. /\ files = WithNew(none, name) /\ journal = <<name>>
      /\ fh = NewFiledHistory(name, 1) /\ call = NoCall /\ server = "up" /\ clients = << >>
  BY DEF StoredInit, FiledInit
<1>2. name \in FileName /\ name \notin DOMAIN none /\ AllRecordings(none)
  BY DEF FileName, AllRecordings
<1> HIDE DEF name, none
<1>3. AllRecordings(files) /\ Open(files, openRecording(name)) /\ openRecording(name).name = name
  BY <1>1, <1>2, NewOpen
<1>4. /\ DOMAIN fh = Fields /\ fh.recording = openRecording(name) /\ fh.streamRecording = NoFile
      /\ fh.resetStreamState = "None" /\ fh.fileCount = 1 /\ fh.forkPos = 0
  BY <1>1 DEF NewFiledHistory, Fields
<1>5. FilesOpen(files, fh)
  BY <1>3, <1>4 DEF FilesOpen
<1>6. journal \in Seq(FileName) /\ journal # << >> /\ Last(journal) = name
  BY <1>1, <1>2 DEF Last
<1>7. Named(journal, fh, call)
  BY <1>1, <1>3, <1>4, <1>6 DEF Named, NoCall
<1>8. name \in DOMAIN files
  BY <1>3 DEF Open
<1>9. << >> \in ClientsType /\ NoCall.messages \in Seq(Cell)
      /\ DOMAIN NoCall = {"at", "old", "messages"}
  BY DEF ClientsType, NoCall
<1> QED BY <1>1, <1>3, <1>5, <1>6, <1>7, <1>8, <1>9 DEF RecoverableInv, ClientsType

LEMMA NextRecoverable == RecoverableInv /\ [Next]_vars => RecoverableInv'
<1> SUFFICES ASSUME RecoverableInv, [Next]_vars PROVE RecoverableInv'
  OBVIOUS
<1>1. CASE SessionNext
  <2>1. CASE \E name \in Names, id \in Clients : Join(name, id)
    BY <2>1, JoinStep
  <2>2. CASE \E i \in DOMAIN clients : Rejoin(i) \/ removeUser(i)
    BY <2>2, RejoinStep, RemoveUserStep
  <2>3. CASE \E id \in Present : \/ Draw(id) \/ StreamStart(id) \/ StreamData(id)
                                 \/ StreamAbort(id) \/ StreamFinish(id)
    BY <2>3, PresentType, DrawStep, StreamStartStep, StreamDataStep, StreamAbortStep,
       StreamFinishStep
  <2>4. CASE FullReset
    BY <2>4, FullResetStep
  <2>5. CASE StreamResolve
    BY <2>5, StreamResolveStep
  <2> QED BY <1>1, <2>1, <2>2, <2>3, <2>4, <2>5 DEF SessionNext
<1>2. CASE Proceed
  BY <1>2, ProceedStep
<1>3. CASE Flush \/ Fetch \/ CleanUp
  BY <1>3, FlushStep, FetchStep, CleanUpStep
<1>4. CASE Fail \/ Stop \/ End
  BY <1>4, FailStep, StopStep, EndStep
<1>5. CASE Restart
  BY <1>5, RestartStep
<1>6. CASE UNCHANGED vars \/ Enter
  BY <1>6 DEF vars, Enter, RecoverableInv
<1> QED BY <1>1, <1>2, <1>3, <1>4, <1>5, <1>6 DEF Next

(* The journal never names a recording that is not there or has no header: *)
(* wherever the server is stopped, load() finds a file to read             *)
(* (filedhistory.cpp, historyReset, resolveResetStream and load).          *)
THEOREM AlwaysRecoverable == StoredSpec => []Recoverable
<1>1. StoredInit => RecoverableInv
  BY InitRecoverable
<1>2. RecoverableInv /\ [Next]_vars => RecoverableInv'
  BY NextRecoverable
<1>3. RecoverableInv => Recoverable
  BY InvImpliesRecoverable
<1> QED BY <1>1, <1>2, <1>3, PTL DEF StoredSpec

LEMMA NextTyped == StoredTypeInv /\ [Next]_vars => StoredTypeInv'
<1> SUFFICES ASSUME RecoverableInv, QueueInv, [Next]_vars PROVE QueueInv'
  BY NextRecoverable DEF StoredTypeInv
<1>1. CASE SessionNext
  <2>1. CASE \E name \in Names, id \in Clients : Join(name, id)
    BY <2>1, JoinQueue
  <2>2. CASE \E i \in DOMAIN clients : Rejoin(i) \/ removeUser(i)
    BY <2>2, RejoinQueue, RemoveUserQueue
  <2>3. CASE \E id \in Present : \/ Draw(id) \/ StreamStart(id) \/ StreamData(id)
                                 \/ StreamAbort(id) \/ StreamFinish(id)
    BY <2>3 DEF Draw, StreamStart, StreamData, StreamAbort, StreamFinish, QueueInv, JoiningType
  <2>4. CASE FullReset \/ StreamResolve
    BY <2>4 DEF FullReset, StreamResolve, QueueInv, JoiningType
  <2> QED BY <1>1, <2>1, <2>2, <2>3, <2>4 DEF SessionNext
<1>2. CASE Proceed \/ Flush \/ Fetch \/ CleanUp
  BY <1>2 DEF Proceed, Flush, Fetch, CleanUp, QueueInv, JoiningType
<1>3. CASE Fail \/ Stop \/ End
  BY <1>3, NoOneLeftQueue
<1>4. CASE Restart
  BY <1>4, RestartQueue
<1>5. CASE Enter
  BY <1>5, EnterQueue
<1>6. CASE UNCHANGED vars
  BY <1>6 DEF vars, QueueInv, JoiningType
<1> QED BY <1>1, <1>2, <1>3, <1>4, <1>5, <1>6 DEF Next

LEMMA InvImpliesTypeOK == StoredTypeInv => StoredTypeOK
<1> SUFFICES ASSUME RecoverableInv, QueueInv PROVE StoredTypeOK
  BY DEF StoredTypeInv
<1>1. server \in {"up", "down", "gone"}
  BY DEF RecoverableInv
<1>2. call.at \in {"none", "copied", "journalled", "opened", "named"}
  BY DEF RecoverableInv, Named, NoCall
<1>3. fh.resetStreamState \in {"None", "Streaming", "Prepared"}
  BY DEF RecoverableInv, FilesOpen, NoHistory, NewFiledHistory
<1>4. Present \subseteq Clients
  BY PresentType
<1>5. ToSet(idQueue.ids) = Clients /\ Len(idQueue.ids) = MaxId
  BY ClientsAreIds DEF QueueInv, AllIdsOnce
<1> QED BY <1>1, <1>2, <1>3, <1>4, <1>5 DEF StoredTypeOK

(* The server, its history and a reset in progress are in a known state,   *)
(* whoever is in the session has one of the ids, and the queue holds every *)
(* id once: none is lost or doubled by joins, leaves, crashes or loading   *)
(* (idqueue.cpp, filedhistory.cpp).                                        *)
THEOREM StoredTyped == StoredSpec => []StoredTypeOK
<1>1. StoredInit => StoredTypeInv
  BY InitRecoverable, NewIdQueueOk DEF StoredTypeInv, QueueInv, JoiningType, StoredInit
<1>2. StoredTypeInv /\ [Next]_vars => StoredTypeInv'
  BY NextTyped
<1>3. StoredTypeInv => StoredTypeOK
  BY InvImpliesTypeOK
<1> QED BY <1>1, <1>2, <1>3, PTL DEF StoredSpec
=============================================================================
