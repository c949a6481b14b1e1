---------------------------- MODULE MCPalOsLock ----------------------------
(* PalOsLock for the two tasks of the example that call the host library,  *)
(* with the priorities they are created with, and a third below them.      *)
EXTENDS PalOsLock

MCContexts == {"lower", "app", "daemon"}

MCPriority == [c \in MCContexts |->
                 CASE c = "lower" -> 5 [] c = "app" -> 12 [] c = "daemon" -> 14]
=============================================================================
