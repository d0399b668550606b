--------------------------- MODULE MCConversation ---------------------------
(* Model-checking root of the conversation.                                *)
EXTENDS ConversationTurns
==============================================================================
