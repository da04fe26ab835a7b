-------------------------- MODULE MCConversations --------------------------
EXTENDS Conversations, TLC
=============================================================================
