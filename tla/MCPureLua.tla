------------------------------ MODULE MCPureLua ------------------------------
\* TLC instances of PureLua.
EXTENDS PureLuaRefinement
CONSTANTS x
OnePayload == {<<x>>}
TwoPayloads == {<<>>, <<x>>}
=============================================================================
