--------------------------- MODULE MCTalkHistory ----------------------------
(* The order of sessions of the default configurations of 9 and 13 agents. *)
EXTENDS TalkHistory

DefaultFirst  == [day |-> <<"whisper", "talk">>, night |-> <<"whisper", "other">>]
DefaultOthers == [day |-> <<"talk">>, night |-> <<"other", "whisper", "attack">>]
=============================================================================
