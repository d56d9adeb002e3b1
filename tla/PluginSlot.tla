------------------------------ MODULE PluginSlot ------------------------------
(***************************************************************************)
(* What the lifecycle of a plugin promises (docs/reference/                *)
(* PLUGIN_API_V1.md, "Lifecycle crash recovery"): the installed tree and   *)
(* its provenance change together, at one decision point, and what was     *)
(* installed before is whole until then.                                   *)
(***************************************************************************)
CONSTANTS Tree, NoTree

VARIABLES tree,       \* the installed tree, or the one a recovery brings back
          provenance  \* the tree that the managed record describes

slotVars == <<tree, provenance>>

SlotInit == tree = NoTree /\ provenance = NoTree

\* A tree from a tracked source has a record; one from a directory has none.
Install(t) == tree' = t /\ provenance' \in {t, NoTree}

Uninstall == tree' = NoTree /\ provenance' = NoTree

SlotNext == (\E t \in Tree : Install(t)) \/ Uninstall

SlotSpec == SlotInit /\ [][SlotNext]_slotVars
==============================================================================
