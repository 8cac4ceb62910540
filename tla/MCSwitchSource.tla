--------------------------- MODULE MCSwitchSource ---------------------------
(***************************************************************************)
(* SwitchSource for TLC: two shows, so that one's id may be in the other's *)
(* way, and ids that are all alike.                                        *)
(***************************************************************************)
EXTENDS SwitchSource, TLC

Symmetry == Permutations(Show) \cup Permutations(Id)
=============================================================================
