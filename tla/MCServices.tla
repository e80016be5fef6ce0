------------------------------ MODULE MCServices ------------------------------
(***************************************************************************)
(* The parts of the program that share no state with the session, or only  *)
(* its interruptions: the file system adapter, the codecs of the messages, *)
(* the channel they go over, the panes of the file transfer window, and    *)
(* the three stages of the video: the controlled computer's threads, the   *)
(* encoder above its codec and the controller's way to the screen.         *)
(* Each is checked on its own, from the value of part on.                  *)
(***************************************************************************)
EXTENDS MCFileSystemAdapter, ProtocolCodecs, PeerChannels, FilePanes,
        VideoSending, VideoDisplay

VARIABLE part

ServicesInit ==
    /\ part \in {"files", "codecs", "channels", "panes", "host", "encoder", "display"}
    /\ Init /\ CodecInit /\ PeerInit /\ PaneInit /\ VideoInit /\ EncodeInit /\ DisplayInit
    /\ part # "files" => <<Dir>> \in DOMAIN disk
    /\ part # "host" => pathMode = "auto"

ServicesNext ==
    /\ UNCHANGED part
    /\ IF part = "files" THEN Next ELSE UNCHANGED vars
    /\ IF part = "codecs" THEN CodecNext ELSE UNCHANGED codec
    /\ IF part = "channels" THEN PeerNext ELSE UNCHANGED peerVars
    /\ IF part = "panes" THEN PaneNext ELSE UNCHANGED paneVars
    /\ IF part = "host" THEN VideoNext ELSE UNCHANGED videoVars
    /\ IF part = "encoder" THEN EncodeNext ELSE UNCHANGED encodeVars
    /\ IF part = "display" THEN DisplayNext ELSE UNCHANGED displayVars

servicesVars == <<vars, codec, peerVars, paneVars, videoVars, encodeVars, displayVars, part>>

ServicesSpec == ServicesInit /\ [][ServicesNext]_servicesVars
=============================================================================
