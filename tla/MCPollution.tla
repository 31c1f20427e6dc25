------------------------------ MODULE MCPollution ------------------------------
(* Instance of Pollution: a cat with a name, told or asked about; a game. *)
EXTENDS Pollution

WordsMC == [f \in Facts |-> CASE f = "cat" -> {"cat", "name", "red"} [] f = "game" -> {"game"}]
ContainsMC ==
    [m \in Messages |-> CASE m = "tell cat" -> {"cat", "name"} [] m = "name it" -> {"name"}
                          [] m = "ask game" -> {"game"}]
================================================================================
