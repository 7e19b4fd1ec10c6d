------------------------------ MODULE MCGameLoop ------------------------------
(* Two slots instead of eight.  MCKeySets: ENTER; DOWN with ENTER, which the   *)
(* menus treat as DOWN and the load screen as both; UP with LEFT and RIGHT,   *)
(* each of which reaches every line or slot going round.                     *)
EXTENDS GameLoop

MCKeySets == {{}, {"enter"}, {"down", "enter"}, {"up", "left"}, {"right"}}
=============================================================================
