------------------------------ MODULE MCTreasury ------------------------------
(***************************************************************************)
(* Two advances that are collected and one of a withdrawal.                *)
(***************************************************************************)
EXTENDS Treasury

CONSTANTS a1, a2, w1

MCAdvances == {a1, a2, w1}
MCBypass == {w1}
MCGaps == {0, 2}

=============================================================================
