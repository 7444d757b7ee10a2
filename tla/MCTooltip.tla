------------------------------ MODULE MCTooltip ------------------------------
(***************************************************************************)
(* Three interchangeable tips: one pinned, one hovered and one that a      *)
(* rendering replaces.                                                     *)
(***************************************************************************)
EXTENDS Tooltip, TLC

Symmetry == Permutations(Tips)
=============================================================================
