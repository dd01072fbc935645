--------------------------- MODULE MCAgentFanOut ---------------------------
(* AgentFanOut on small instances; the constants are in the .cfg files.    *)
EXTENDS AgentFanOut

NeverRemoved == {{}}
=============================================================================
