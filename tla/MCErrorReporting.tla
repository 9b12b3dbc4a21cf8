--------------------------- MODULE MCErrorReporting ---------------------------
EXTENDS ErrorReporting
=============================================================================
