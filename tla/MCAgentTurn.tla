---------------------------- MODULE MCAgentTurn ----------------------------
EXTENDS AgentTurn
=============================================================================
