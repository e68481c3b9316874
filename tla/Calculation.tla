---------------------------- MODULE Calculation ----------------------------
(***************************************************************************)
(* What the DistanceMeasure screen promises: the user asks, the button     *)
(* stays disabled until one answer fills every label at once, and an       *)
(* answer always comes.                                                    *)
(***************************************************************************)
CONSTANTS Slots, Values

VARIABLES ready, shown

vars == <<ready, shown>>

Init == ready = TRUE /\ shown \in [Slots -> Values]

Ask == ready /\ ready' = FALSE /\ UNCHANGED shown

Answer == ~ready /\ ready' = TRUE /\ shown' \in [Slots -> Values]

Spec == Init /\ [][Ask \/ Answer]_vars /\ WF_vars(Answer)
============================================================================
