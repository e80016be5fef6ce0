-------------------------- MODULE MCSecurityControls --------------------------
EXTENDS SecurityControls
=============================================================================
