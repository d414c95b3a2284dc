-------------------------------- MODULE IdQueue --------------------------------
(***************************************************************************)
(* The ids a session has for its users (idqueue.cpp): a queue of all ids,  *)
(* in which those given out last come last, and the id each name last had. *)
(***************************************************************************)
EXTENDS Naturals, SequencesExt

CONSTANTS
  MaxId,   \* LAST_ID; FIRST_ID is 1
  Names    \* names of users

ASSUME IdQueueAssumption == MaxId \in Nat \ {0}

NoId == 0

NewIdQueue == [ids |-> [i \in 1..MaxId |-> i], nameIds |-> [n \in Names |-> NoId]]

(* Mutant: the id goes to the front of the queue.                          *)
reserveId_front(q, id) ==
  IF id \in ToSet(q.ids) THEN [q EXCEPT !.ids = <<id>> \o RemoveFirst(@, id)] ELSE q

(* Mutant: the id is not taken from where it was.                          *)
reserveId_twice(q, id) ==
  IF id \in ToSet(q.ids) THEN [q EXCEPT !.ids = Append(@, id)] ELSE q

reserveId(q, id) ==
  IF id \in ToSet(q.ids) THEN [q EXCEPT !.ids = Append(RemoveFirst(@, id), id)] ELSE q

setIdForName(q, id, name) == reserveId([q EXCEPT !.nameIds[name] = id], id)

getIdForName(q, name) == q.nameIds[name]

(* The queue after the ids up to the k-th have been taken in turn.         *)
Rotated(q, k) ==
  [q EXCEPT !.ids = SubSeq(@, k + 1, Len(@)) \o SubSeq(@, 1, k)]

(* Session::assignId: the id the name last had, and while that is taken the*)
(* next of the queue.                                                      *)
assignId(q, name, taken) ==
  LET id == getIdForName(q, name)
      k  == CHOOSE k \in DOMAIN q.ids : q.ids[k] \notin taken /\ \A j \in 1..(k - 1) : q.ids[j] \in taken
  IN IF id # NoId /\ id \notin taken THEN [id |-> id, queue |-> q]
     ELSE [id |-> q.ids[k], queue |-> Rotated(q, k)]
=============================================================================
