------------------------ MODULE MCSessionCoordinator ------------------------
EXTENDS SessionContract
=============================================================================
