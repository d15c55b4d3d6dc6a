---- MODULE MCAgentTurns ----
EXTENDS AgentTurns
====
