---------------------------- MODULE VideoEncoder ----------------------------
(***************************************************************************)
(* KWebRtcH264Encoder above its codec: which images WebRTC is offered, with *)
(* which time stamps, and when they begin with a key frame.  A codec keeps  *)
(* the last images back, so an image comes out in a later call of Encode    *)
(* than the one its picture went in with, and a call may fail with images   *)
(* still inside.  Which picture the n-th frame shows is left out: it is n.  *)
(***************************************************************************)
EXTENDS Integers, Sequences, FiniteSets

CONSTANTS
    MaxEncodes,   \* bound: frames one opened codec is given
    MaxOpens,     \* bound: calls of InitEncode
    MaxDelay      \* images a codec keeps back

VARIABLES
    opens,    \* calls of InitEncode
    state,    \* "closed", "open" or "latched" by a level error
    needKey,  \* m_bNeedKeyFrame
    given,    \* the frames given to the codec since InitEncode
    inside,   \* the images the codec keeps back: a key frame or not
    pending,  \* m_pendingFrames: the time stamps, by presentation time
    images    \* what WebRTC was offered since InitEncode

encodeVars == <<opens, state, needKey, given, inside, pending, images>>

EncodeInit ==
    /\ opens = 0 /\ state = "closed" /\ needKey = TRUE
    /\ given = 0 /\ inside = <<>> /\ pending = {} /\ images = <<>>

\* Fault: a codec opened again is not asked for a key frame.
InitWithoutKey ==
    /\ opens < MaxOpens
    /\ \E fits, works \in BOOLEAN : state' = IF fits /\ works THEN "open" ELSE "closed"
    /\ opens' = opens + 1
    /\ given' = 0 /\ inside' = <<>> /\ pending' = {} /\ images' = <<>>
    /\ UNCHANGED needKey

\* Opening fails when the size or the rate fits no level that was negotiated,
\* or when none of the codecs opens.
InitEncode ==
    /\ opens < MaxOpens
    /\ \E fits, works \in BOOLEAN : state' = IF fits /\ works THEN "open" ELSE "closed"
    /\ opens' = opens + 1
    /\ needKey' = TRUE
    /\ given' = 0 /\ inside' = <<>> /\ pending' = {} /\ images' = <<>>

Release ==
    /\ state # "closed"
    /\ state' = "closed" /\ needKey' = TRUE
    /\ inside' = <<>> /\ pending' = {}
    /\ UNCHANGED <<opens, given, images>>

\* A rate the level does not cover stops the encoder until InitEncode.
SetRates ==
    /\ state = "open"
    /\ state' = "latched"
    /\ UNCHANGED <<opens, needKey, given, inside, pending, images>>

\* Fault: an image is given the time stamps that have waited longest.
DescribingOldest(known, pts) == {p \in known : \A q \in known : p.stamps <= q.stamps}

Describing(known, pts) == {p \in known : p.pts = pts}

Image(known, packet) ==
    [pts |-> packet.pts, key |-> packet.key,
     stamps |-> (CHOOSE p \in Describing(known, packet.pts) : TRUE).stamps]

(* emitPackets: the packets are offered in order, up to one that nothing     *)
(* describes, that cannot be read, whose level is not allowed or that WebRTC *)
(* refuses; then all descriptions are dropped.                               *)
EmitPackets(packets, known) ==
    \E offered \in 0..Len(packets) : \E refused, forbidden \in BOOLEAN :
      /\ \A i \in 1..offered : Describing(known, packets[i].pts) # {}
      /\ refused => offered > 0
      /\ forbidden => ~refused /\ offered < Len(packets)
                      /\ Describing(known, packets[offered + 1].pts) # {}
      /\ images' = images \o [i \in 1..offered |-> Image(known, packets[i])]
      /\ pending' = IF refused \/ offered < Len(packets) THEN {}
                    ELSE known \ UNION {Describing(known, packets[i].pts) : i \in 1..offered}
      /\ needKey' = (needKey /\ \A i \in 1..offered : ~packets[i].key)
      /\ state' = IF forbidden THEN "latched" ELSE state

(* A key frame is forced until one was offered, and when the receiver asks;  *)
(* the codec may make one by itself.                                         *)
Submitted == given + 1
WithFrame(key) == Append(inside, [pts |-> Submitted, key |-> key])

EncodeFrame ==
    /\ state = "open" /\ given < MaxEncodes
    /\ given' = Submitted
    /\ \E key \in {needKey, TRUE} : \E out \in 0..Len(WithFrame(key)) :
         /\ Len(WithFrame(key)) - out <= MaxDelay
         /\ inside' = SubSeq(WithFrame(key), out + 1, Len(WithFrame(key)))
         /\ EmitPackets(SubSeq(WithFrame(key), 1, out),
                        pending \cup {[pts |-> Submitted, stamps |-> Submitted]})
    /\ UNCHANGED opens

\* The codec fails before it takes the image, or while its packets are read:
\* those that came out are lost with the descriptions of all.
EncodeFails ==
    /\ state = "open" /\ given < MaxEncodes
    /\ given' = Submitted
    /\ \E now \in {inside, WithFrame(needKey)} : \E lost \in 0..Len(now) :
         /\ Len(now) - lost <= MaxDelay
         /\ inside' = SubSeq(now, lost + 1, Len(now))
    /\ pending' = {}
    /\ UNCHANGED <<opens, state, needKey, images>>

EncodeNext == InitEncode \/ Release \/ SetRates \/ EncodeFrame \/ EncodeFails

EncodeSpec == EncodeInit /\ [][EncodeNext]_encodeVars

------------------------------------------------------------------------------
(* The images of an opened codec begin with a key frame, go forward and       *)
(* carry the time stamps of the frames they were made of, however many the    *)
(* codec keeps back and whichever of its calls fails.                         *)
ImagesAreTrue ==
    /\ images # <<>> => images[1].key
    /\ \A i \in DOMAIN images : images[i].stamps = images[i].pts
    /\ \A i, j \in DOMAIN images : i < j => images[i].pts < images[j].pts
==============================================================================
