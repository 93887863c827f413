---------------------------- MODULE MCAccountAuth ----------------------------
(* AccountAuth with windows that grow: one tick, then two.                 *)
EXTENDS AccountAuth

MCWindow == <<1, 2>>
=============================================================================
