---------------------------- MODULE AffectedArea ----------------------------
(***************************************************************************)
(* What part of a canvas a drawing command touches, and when two commands  *)
(* may be applied in either order (affected_area.c).  The rectangle of a   *)
(* pixel area is abstracted to the set of pixels it covers, so two         *)
(* rectangles intersect exactly when the sets do.                          *)
(***************************************************************************)
EXTENDS Integers

CONSTANTS
  Ids,     \* layer, annotation, field, track and selection ids
  ALL_IDS, \* the id that stands for every id of a domain
  Pixels   \* the pixels of a canvas

Domains == {"UserAttrs", "LayerAttrs", "Annotations", "Pixels",
            "CanvasBackground", "DocumentMetadata", "Timeline",
            "Selections", "Everything"}

(* StrayDomain is any value of the enumeration's integer type that names no *)
(* domain.  DP_affected_area_make never returns it; a stray read may.      *)
StrayDomain == "Stray"

Area == [domain : Domains \cup {StrayDomain},
         id     : Ids \cup {ALL_IDS},
         bounds : SUBSET Pixels]

(* Undo points and undos touch nothing that is shared.                     *)
UserAttrs(anyId) == [domain |-> "UserAttrs", id |-> anyId, bounds |-> {}]

(* What no rule of DP_affected_area_make narrows down.                     *)
Everything(anyId) == [domain |-> "Everything", id |-> anyId, bounds |-> {}]

domains_conflict(a, b) ==
  \/ "Everything" \in {a, b}
  \/ {a, b} = {"LayerAttrs", "Timeline"}

affected_ids_differ(a, b) == a # b /\ a # ALL_IDS /\ b # ALL_IDS

DP_affected_area_concurrent_with(a, b) ==
  /\ ~domains_conflict(a.domain, b.domain)
  /\ \/ a.domain = "UserAttrs"
     \/ a.domain # b.domain
     \/ affected_ids_differ(a.id, b.id)
     \/ a.domain = "Pixels" /\ a.bounds \cap b.bounds = {}
=============================================================================
