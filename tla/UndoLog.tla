------------------------------ MODULE UndoLog -------------------------------
(***************************************************************************)
(* What undo and redo promise a session, without save points, truncation   *)
(* or local forks: one log of commands in the server's order that never    *)
(* forgets, each command done, undone or gone.  The canvas is what the     *)
(* done commands draw, in order.                                           *)
(***************************************************************************)
EXTENDS Naturals, Sequences, FiniteSets

CONSTANT Users

VARIABLES
  log,        \* the commands so far: [undo, msg]
  limit,      \* how many undo points back an undo may reach
  markUndone  \* the next command arrives undone

vars == <<log, limit, markUndone>>

Init == Len(log) = 1 /\ log[1].undo = "Done" /\ ~markUndone

IsUndoPoint(i) == log[i].msg.type = "UndoPoint"

WithinLimit(i) == Cardinality({j \in i .. Len(log) : IsUndoPoint(j)}) <= limit

By(user, i) == log[i].msg.user = user

Mark(from, to, D) ==
  log' = [i \in DOMAIN log |->
            IF i \in D /\ log[i].undo = from THEN [log[i] EXCEPT !.undo = to] ELSE log[i]]

(* Commands join the log, done or undone.                                  *)
Join(k, undo) ==
  /\ Len(log') = Len(log) + k
  /\ \A i \in Len(log) + 1 .. Len(log') : log'[i].undo = undo
  /\ UNCHANGED limit

Command ==
  /\ ~markUndone /\ UNCHANGED markUndone
  /\ Len(log') > Len(log) /\ Join(Len(log') - Len(log), "Done")
  /\ SubSeq(log', 1, Len(log)) = log
  /\ \A i \in Len(log) + 1 .. Len(log') : log'[i].msg.type = "Draw"

(* A user who starts something new gives up what they had undone.          *)
UndoPoint ==
  /\ ~markUndone /\ Join(1, "Done") /\ UNCHANGED markUndone
  /\ log'[Len(log')].msg.type = "UndoPoint"
  /\ \A i \in DOMAIN log :
       LET mine == log[i].msg.user = log'[Len(log')].msg.user
           reach == Cardinality({j \in i + 1 .. Len(log) : IsUndoPoint(j)}) + 1 < limit
       IN log'[i] = IF mine /\ reach /\ log[i].undo = "Undone"
                    THEN [log[i] EXCEPT !.undo = "Gone"] ELSE log[i]

(* An undo takes back everything the user did since their last undo point  *)
(* that is still done.                                                     *)
Undo(user) ==
  \E i \in DOMAIN log :
    /\ IsUndoPoint(i) /\ By(user, i) /\ log[i].undo = "Done" /\ WithinLimit(i)
    /\ \A j \in i + 1 .. Len(log) :
         ~(IsUndoPoint(j) /\ By(user, j) /\ log[j].undo = "Done")
    /\ Mark("Done", "Undone", {j \in i .. Len(log) : By(user, j)})
    /\ UNCHANGED <<limit, markUndone>>

(* A redo brings back the oldest thing the user has undone within reach,   *)
(* unless the user has something done after it.                            *)
DoneBetween(user, i, j) ==
  \E k \in i + 1 .. j : IsUndoPoint(k) /\ By(user, k) /\ log[k].undo = "Done"

Redo(user) ==
  \E i \in DOMAIN log :
    /\ IsUndoPoint(i) /\ By(user, i) /\ log[i].undo = "Undone" /\ WithinLimit(i)
    /\ ~DoneBetween(user, i, Len(log))
    /\ \A j \in 1 .. i - 1 :
         IsUndoPoint(j) /\ By(user, j) /\ log[j].undo = "Undone" /\ WithinLimit(j)
           => DoneBetween(user, j, i)
    /\ Mark("Undone", "Done",
            {j \in i .. Len(log) : By(user, j) /\
               ~\E k \in i + 1 .. j : IsUndoPoint(k) /\ By(user, k) /\ log[k].undo # "Gone"})
    /\ UNCHANGED <<limit, markUndone>>

MarkNext == markUndone' = TRUE /\ UNCHANGED <<log, limit>>

CommandUndone ==
  /\ markUndone /\ Join(1, "Undone") /\ markUndone' = FALSE
  /\ SubSeq(log', 1, Len(log)) = log

(* A reset starts a new log, with a new depth limit perhaps.               *)
Rebase == Len(log') = 1 /\ log'[1].undo = "Done" /\ markUndone' = FALSE

Next ==
  \/ Command \/ UndoPoint \/ MarkNext \/ CommandUndone \/ Rebase
  \/ \E user \in Users : Undo(user) \/ Redo(user)

Spec == Init /\ [][Next]_vars
=============================================================================
