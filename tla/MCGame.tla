------------------------------- MODULE MCGame -------------------------------
(***************************************************************************)
(* A small game for TLC: four agents, and days whose phases hold every     *)
(* action the engine knows, an unknown one, an action that runs twice and  *)
(* phases that are skipped on some days.                                   *)
(***************************************************************************)
EXTENDS Game

Always(actions) == [actions |-> actions, onlyDay |-> NoDay, exceptDay |-> NoDay]
NotFirst(actions) == [actions |-> actions, onlyDay |-> NoDay, exceptDay |-> 0]
OnlyFirst(actions) == [actions |-> actions, onlyDay |-> 0, exceptDay |-> NoDay]

Cast == <<"WEREWOLF", "BODYGUARD", "SEER", "VILLAGER">>

DayTalk == <<OnlyFirst(<<"whisper">>), Always(<<"talk">>)>>
NightHunt ==
  <<NotFirst(<<"guard", "execution", "rest", "attack">>), NotFirst(<<"divine", "attack">>)>>
=============================================================================
