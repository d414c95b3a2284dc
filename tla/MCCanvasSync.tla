---------------------------- MODULE MCCanvasSync ----------------------------
(***************************************************************************)
(* Values for the constants of CanvasSync.  Layer 1 is the only layer; a   *)
(* canvas has a left and a right pixel.                                    *)
(***************************************************************************)
EXTENDS CanvasSync

OnPixels(px) == [domain |-> "Pixels", id |-> 1, bounds |-> px]

Left  == OnPixels({"left"})
Right == OnPixels({"right"})
Both  == OnPixels({"left", "right"})

EverythingArea == Everything(0)

(* The bytes of a stack address, which name no domain but by accident.     *)
Stray == {[domain |-> StrayDomain, id |-> 0, bounds |-> {}]}

NoAreas      == {}
LeftOnly     == {Left}
RightOnly    == {Right}
LeftOrAll    == {Left, EverythingArea}
RightOrBoth  == {Right, Both}

StrokeTraffic   == {"Undo", "Override", "Disconnect"}
RollbackTraffic == {"Drawing", "Filter", "Multidab"}
FollowTraffic   == {"Undo", "Redo", "Override", "Undone"}
SessionTraffic  == {"Snapshot", "Filter", "SoftReset", "UndoDepth", "Reset", "Disconnect"}
PlainTraffic    == {}
LongForks       == {"LongFork"}
RedoAndFilter   == {"Undo", "Redo", "Filter"}
=============================================================================
