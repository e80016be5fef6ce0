--------------------------- MODULE MCKeyboardRouting ---------------------------
EXTENDS KeyboardRouting
MCRelease == [mods |-> {"ctrl"}, key |-> "r"]
MCFullscreen == [mods |-> {"ctrl"}, key |-> "f"]
=============================================================================
