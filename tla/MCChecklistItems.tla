-------------------------- MODULE MCChecklistItems --------------------------
(***************************************************************************)
(* A small instance of ChecklistItems for TLC: a unit in its last two      *)
(* stages before it is active, and a template file with one item, which    *)
(* requires a photo.                                                       *)
(***************************************************************************)
EXTENDS ChecklistItems, TLC

CONSTANTS t1, t2, i1, i2, i3, r1, r2

Hot == [stage |-> "HOT_COMMISSION", text |-> "rated power", mandatory |-> TRUE,
        photo |-> TRUE]

\* What the panel makes of the first: another stage, no photo.
Moved == {[Hot EXCEPT !.stage = "FINAL_ACCEPTANCE", !.photo = FALSE]}

TemplateFiles == {{Hot}}

Alike ==
    Permutations({t1, t2}) \cup Permutations({i1, i2, i3}) \cup Permutations({r1, r2})
=============================================================================
