----------------------------- MODULE MCChatFront -----------------------------
(* One chat and three messages: one in the LLM call, one in the pending slot *)
(* and one more that displaces it. Two chats share no state, so a second one *)
(* would only multiply the interleavings.                                    *)
EXTENDS ChatFront

CONSTANT group

MCChatOf == [m \in Messages |-> group]
=============================================================================
