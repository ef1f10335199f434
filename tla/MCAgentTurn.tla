---------------------------- MODULE MCAgentTurn ----------------------------
(* Finite instances of AgentTurn for TLC.                                  *)
EXTENDS AgentTurn, TLC

ChatSymmetry == Permutations(Chats)

\* "Strasze" stands for the spelling with a sharp s, which casefold() alone
\* turns into "strasse".
Lower == [n \in Names |-> CASE n = "Food"    -> "food"
                            [] n = "Strasze" -> "strasze"
                            [] OTHER         -> n]

Casefold == [n \in Names |-> IF n = "Strasze" THEN "strasse" ELSE Lower[n]]
=============================================================================
