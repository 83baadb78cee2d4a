--------------------------- MODULE MCServerCalls ---------------------------
EXTENDS ServerCalls

CONSTANTS ui, maker, reporter
=============================================================================
