---------------------------- MODULE MCLiveState -----------------------------
(* A game with few packets and subscribers with short channels. *)
EXTENDS LiveState
=============================================================================
