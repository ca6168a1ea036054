--------------------------- MODULE MCErrorOrigin ---------------------------
\* The TLC instance of ErrorOrigin.
EXTENDS ErrorOrigin
CONSTANTS x, a, b
OnePayload == {<<x>>}
=============================================================================
