---------------------------- MODULE MCAgentTurn -----------------------------
(* Three turns of a worktree and three processes: an agent with two helpers, *)
(* two agents and a helper of either, or three agents and no helper.         *)
EXTENDS AgentTurn
CONSTANTS a1, a2, a3
MCProcess == {a1, a2, a3}
=============================================================================
