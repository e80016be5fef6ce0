--------------------------- MODULE MCDevicePairing ---------------------------
EXTENDS DevicePairing, TLC

CONSTANTS controller, controlled, view, input, file

DeviceSymmetry == Permutations(Device)
MCScope == {view, input, file}
\* A user who lets the peer watch, and one who refuses everything or nothing.
WatchGrant == {{view}}
AllOrNothing == {{}, MCScope}
=============================================================================
