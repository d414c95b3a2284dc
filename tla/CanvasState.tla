---------------------------- MODULE CanvasState -----------------------------
(***************************************************************************)
(* The canvas as the undo history sees it: a value that commands are       *)
(* applied to.  Pixels, layers and brushes are abstracted to what tells    *)
(* two canvases apart when only the ORDER of commands can differ: the      *)
(* commands applied, and for each two that are not concurrent, which came  *)
(* first.  A command applied twice is ordered before itself, so it shows.  *)
(***************************************************************************)
EXTENDS AffectedArea, Sequences

CONSTANTS
  Users,   \* the users of a session
  Nobody   \* user 0: no user of a session has that id

ASSUME NobodyAssumption == Nobody \notin Users

(* n tells the payloads of a user's drawing commands apart; override is the *)
(* user an undo acts for when it is not its sender.                        *)
Message == [type     : {"UndoPoint", "Undo", "Redo", "Draw"},
            user     : Users \cup {Nobody},
            override : Users \cup {Nobody},
            n        : Nat,
            area     : Area]

IsDraw(m) == m.type = "Draw"
IsUndo(m) == m.type \in {"Undo", "Redo"}

Canvas == [applied : SUBSET Message, order : SUBSET (Message \X Message)]

BlankCanvas == [applied |-> {}, order |-> {}]

MustStayOrdered(x, y) == ~DP_affected_area_concurrent_with(x.area, y.area)

(* cs after the commands msgs[i], i \in D, in increasing order of i.       *)
Draw(cs, msgs, D) ==
  LET before == {{<<x, msgs[i]>> : x \in {y \in cs.applied : MustStayOrdered(y, msgs[i])}} :
                 i \in D}
      among  == {{<<msgs[i], msgs[j]>> : i \in {k \in D :
                                   k < j /\ MustStayOrdered(msgs[k], msgs[j])}} :
                 j \in D}
  IN [applied |-> cs.applied \cup {msgs[i] : i \in D},
      order   |-> cs.order \cup UNION (before \cup among)]

(* DP_canvas_state_handle: one command.                                    *)
DrawOne(cs, m) == Draw(cs, <<m>>, {1})
=============================================================================
