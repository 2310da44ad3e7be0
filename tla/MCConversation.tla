----------------------------- MODULE MCConversation -----------------------------
(* Instance of Conversation for TLC: the clients are interchangeable.      *)
EXTENDS Conversation, TLC

MCSymmetry == Permutations(Client)
===============================================================================
