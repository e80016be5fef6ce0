------------------------------ MODULE MCTerminal ------------------------------
EXTENDS Terminal
=============================================================================
