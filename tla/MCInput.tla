-------------------------------- MODULE MCInput --------------------------------
(***************************************************************************)
(* The mouse, the keyboard and the clipboard of a session.  They share no  *)
(* state: each is checked on its own, from the value of part on.           *)
(***************************************************************************)
EXTENDS RemoteInput, MCKeyboardRouting, ClipboardSync

VARIABLE part

MCInit ==
    /\ part \in {"mouse", "keyboard", "clipboard"}
    /\ Init /\ KeyboardInit /\ ClipboardInit

MCNext ==
    /\ UNCHANGED part
    /\ \/ part = "mouse" /\ Next /\ UNCHANGED <<keyboardVars, clipboardVars>>
       \/ part = "keyboard" /\ KeyboardNext /\ UNCHANGED <<vars, clipboardVars>>
       \/ part = "clipboard" /\ ClipboardNext /\ UNCHANGED <<vars, keyboardVars>>

MCSpec == MCInit /\ [][MCNext]_<<vars, keyboardVars, clipboardVars, part>>
=============================================================================
