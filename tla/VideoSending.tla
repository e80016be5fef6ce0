---------------------------- MODULE VideoSending ----------------------------
(***************************************************************************)
(* The controlled computer's side of the video: the threads that carry a   *)
(* captured frame to the encoder, and the encoder above its codec.  They   *)
(* share no state but the frame of a call of Encode, which VideoHost's     *)
(* HostEncode and VideoEncoder's EncodeFrame see from the two ends.        *)
(***************************************************************************)
EXTENDS VideoHost, VideoEncoder

SendingSpec == VideoSpec /\ EncodeSpec

(* Invariant of the controlled computer's video, from the buffers of the    *)
(* capture thread to the images WebRTC is offered: a picture stays what it   *)
(* was while anybody holds it, goes to its own session, in order, and its    *)
(* image begins with a key frame and carries the time stamps it was made of. *)
VideoIsSent == VideoIsTrue /\ ImagesAreTrue
=============================================================================
