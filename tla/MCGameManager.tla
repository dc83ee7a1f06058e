--------------------------- MODULE MCGameManager ----------------------------
(***************************************************************************)
(* A few clients of three teams for TLC.  Three are in the room from the   *)
(* beginning and all get agents without profiles, or four of them are and  *)
(* get agents that have some.                                              *)
(***************************************************************************)
EXTENDS GameManager

Some  == {"a1", "a2", "b1", "b2", "c1"}
Of    == [a1 |-> "a", a2 |-> "a", b1 |-> "b", b2 |-> "b", c1 |-> "c"]
Num   == [r \in {"WEREWOLF", "VILLAGER"} |-> 1]
Lists == {<<>>, <<"x", "y">>}

Entered(queues, others) ==
  /\ room = [t \in Teams |-> IF t \in DOMAIN queues THEN queues[t] ELSE <<>>]
  /\ at = [c \in Some |-> IF \E t \in DOMAIN queues : c \in Range(queues[t])
                          THEN "matching" ELSE others]
  /\ roster = [c \in Some |-> {}]
  /\ games = {} /\ game = [c \in Some |-> "none"]
  /\ shuttingDown = FALSE /\ trap = "armed"

MCInit ==
  /\ CreationInit /\ selfMatch \in BOOLEAN
  /\ \/ /\ custom = "off" /\ profiles = <<>>
        /\ Entered([a |-> <<"a1", "a2">>, b |-> <<"b1">>], "new")
     \/ /\ custom # "off" /\ ~selfMatch
        /\ Entered([a |-> <<"a1", "a2">>, b |-> <<"b1", "b2">>], "refused")

MCSpec ==
  /\ MCInit /\ [][Next]_vars /\ WF_vars(Trap)
  /\ \A c \in Connections : WF_vars(Serve(c)) /\ WF_vars(Play(c))
=============================================================================
