------------------------------ MODULE VideoHost ------------------------------
(***************************************************************************)
(* The controlled computer's video: the capture thread, which copies the   *)
(* desktop into buffers of two small pools; the session thread, which keeps *)
(* the newest of the frames posted to it; and WebRTC's encoder thread.  The *)
(* three share the buffers, freed by their use counts, and the choice of   *)
(* the path, which either side may still change.                           *)
(*                                                                         *)
(* A picture is the number of the desktop's content, a buffer the identity *)
(* of a texture or of I420 planes.  Sizes, times and colours are left out. *)
(* WebRTC itself is external: it keeps one frame for the encoder and asks  *)
(* for InitEncode when it likes.                                           *)
(***************************************************************************)
EXTENDS Integers, Sequences, FiniteSets

CONSTANTS
    PathModes,    \* the frame path modes the program may be started with
    PoolSize,     \* kMaximumFramePoolSize, and the capacity of m_nativeFrames
    MaxPictures,  \* bound: changes of the desktop
    MaxSessions,  \* bound: sessions
    MaxStarts,    \* bound: starts of the capture
    MaxFrames,    \* bound: frames one worker captures, but for a pointer's
    MaxRepeats,   \* kInitialFrameRetryMaxCount
    MaxInits      \* bound: calls of InitEncode

VARIABLES
    pathMode,  \* m_mode of the path's state
    path,      \* KVideoFramePathState::m_snapshot
    desktop,   \* the newest picture of the screen that was looked at
    worker,    \* the capture thread and its source
    pools,     \* the buffers each pool owns
    store,     \* what each buffer contains
    sink,      \* m_lastVideoFrame, and how often it was repeated
    service,   \* KCaptureService on the session thread
    posted,    \* the events the session thread has yet to run
    encoder    \* KWebRtcH264Encoder of the session's peer

videoVars == <<pathMode, path, desktop, worker, pools, store, sink, service,
               posted, encoder>>

\* A frame: where it is, what it shows, the generation it is marked with and
\* the one its source was initialized in.
NoFrame == [kind |-> "none"]
Frame(kind, buffer, picture, tag, from) ==
    [kind |-> kind, buffer |-> buffer, picture |-> picture, tag |-> tag, from |-> from]

------------------------------------------------------------------------------
(* The choice of the path. *)

NewPath(generation) ==
    [generation |-> generation, decision |-> IF pathMode = "cpu" THEN "cpu" ELSE "undecided",
     separate |-> FALSE]

FallenBack(generation) ==
    IF path.generation # generation \/ path.decision \in {"cpu", "failed"} THEN path
    ELSE [path EXCEPT !.decision = IF pathMode = "gpu" \/ @ = "gpu" THEN "failed" ELSE "cpu"]

FailedPath(generation) ==
    IF path.generation = generation THEN [path EXCEPT !.decision = "failed"] ELSE path

GpuSelected(generation) ==
    IF path.generation = generation /\ path.decision = "undecided"
    THEN [path EXCEPT !.decision = "gpu"] ELSE path

------------------------------------------------------------------------------
(* The buffers: a pool may use again one that only itself refers to. *)

InEvents == {posted[i].frame : i \in 1..Len(posted)}
Frames == InEvents \cup {worker.frame, sink.last, service.latest, encoder.queue, encoder.frame}
HeldIn(frames) == {f.buffer : f \in {g \in frames : g.kind \in {"native", "cpu"}}}
Held == HeldIn(Frames)

BuffersInUse == Held \cup pools.native \cup pools.cpu
NewBuffer == CHOOSE b \in 1..Cardinality(BuffersInUse) + 1 : b \notin BuffersInUse

\* What nobody refers to any more is gone.
Refilled(buffer, picture) ==
    [b \in BuffersInUse \cup {buffer} |-> IF b = buffer THEN picture ELSE store[b]]

\* Fault: any buffer of the pool is taken, whoever still refers to it.
AcquiredAny(pool, frames) ==
    IF pool # {} THEN {CHOOSE b \in pool : TRUE}
    ELSE {NewBuffer}

Acquired(pool, frames) ==
    LET released == pool \ HeldIn(frames)
    IN IF released # {} THEN {CHOOSE b \in released : TRUE}
       ELSE IF Cardinality(pool) < PoolSize THEN {NewBuffer} ELSE {}

------------------------------------------------------------------------------
IdleWorker(at) == [at |-> at, running |-> FALSE, source |-> 0, native |-> FALSE, separate |-> FALSE,
             clean |-> 0, count |-> 0, frame |-> NoFrame]
ClosedEncoder(generation) ==
    [at |-> "closed", generation |-> generation, queue |-> NoFrame, frame |-> NoFrame,
     gpu |-> FALSE, tried |-> FALSE, used |-> FALSE, inits |-> 0, shown |-> 0]

VideoInit ==
    /\ pathMode \in PathModes
    /\ path = NewPath(0)
    /\ desktop = 1
    /\ worker = IdleWorker("none")
    /\ pools = [native |-> {}, cpu |-> {}]
    /\ store = <<>>
    /\ sink = [last |-> NoFrame, repeats |-> 0]
    /\ service = [generation |-> 0, accepts |-> FALSE, latest |-> NoFrame, flushing |-> FALSE,
                  starting |-> FALSE, starts |-> 0]
    /\ posted = <<>>
    /\ encoder = ClosedEncoder(0)

Event(what, frame) == [what |-> what, frame |-> frame]

------------------------------------------------------------------------------
(* The session: a new one begins a path of its own, with the cursor apart   *)
(* when the peers agreed on that, and has a new peer.  A capture that was   *)
(* asked to stop may still be at its last frame.                            *)

BeginSession(separate) ==
    /\ path.generation < MaxSessions
    /\ ~service.accepts
    /\ encoder.at \notin {"enabling", "encoding"}
    /\ path' = [NewPath(path.generation + 1) EXCEPT !.separate = separate]
    /\ encoder' = ClosedEncoder(path.generation + 1)
    /\ UNCHANGED <<pathMode, desktop, worker, pools, store, sink, service, posted>>

Started == IdleWorker("starting")

\* Fault: frames are taken before it is known that no worker is left.
StartTakesFrames ==
    /\ path.generation > 0 /\ service.starts < MaxStarts
    /\ ~service.accepts
    /\ service' = [service EXCEPT !.generation = path.generation, !.starts = @ + 1, !.accepts = TRUE,
                                  !.starting = worker.at # "none"]
    /\ worker' = IF worker.at = "none" THEN Started ELSE worker
    /\ UNCHANGED <<pathMode, path, desktop, pools, store, sink, posted, encoder>>

StartCapture ==
    /\ path.generation > 0 /\ service.starts < MaxStarts
    /\ \/ /\ worker.at = "none"
          /\ service' = [service EXCEPT !.generation = path.generation, !.starts = @ + 1, !.accepts = TRUE,
                                        !.latest = NoFrame, !.flushing = FALSE]
          /\ worker' = Started
       \/ /\ worker.at # "none"
          /\ ~service.accepts
          /\ service' = [service EXCEPT !.generation = path.generation, !.starts = @ + 1,
                                        !.starting = TRUE]
          /\ UNCHANGED worker
    /\ UNCHANGED <<pathMode, path, desktop, pools, store, sink, posted, encoder>>

RequestStopCapture ==
    /\ worker.at # "none"
    /\ service' = [service EXCEPT !.accepts = FALSE, !.starting = FALSE, !.latest = NoFrame,
                                  !.flushing = FALSE]
    /\ worker' = [worker EXCEPT !.running = FALSE]
    /\ UNCHANGED <<pathMode, path, desktop, pools, store, sink, posted, encoder>>

ClearWorker ==
    /\ posted # <<>> /\ Head(posted).what = "finished"
    /\ posted' = Tail(posted)
    /\ service' = [service EXCEPT !.accepts = service.starting, !.starting = FALSE,
                                  !.latest = NoFrame, !.flushing = FALSE]
    /\ worker' = IF service.starting THEN Started ELSE IdleWorker("none")
    /\ UNCHANGED <<pathMode, path, desktop, pools, store, sink, encoder>>

EnqueueWebRtcFrame ==
    /\ posted # <<>> /\ Head(posted).what = "frame"
    /\ LET flush == service.accepts /\ ~service.flushing
       IN /\ posted' = Tail(posted) \o (IF flush THEN <<Event("flush", NoFrame)>> ELSE <<>>)
          /\ service' = IF service.accepts
                        THEN [service EXCEPT !.flushing = TRUE, !.latest = Head(posted).frame]
                        ELSE service
    /\ UNCHANGED <<pathMode, path, desktop, worker, pools, store, sink, encoder>>

\* The frame goes to the peer of the session, and WebRTC keeps it for the
\* encoder in place of one it has not taken yet.
PushFrame(frame) ==
    \/ /\ service.generation = path.generation
       /\ frame.kind = "native" => frame.tag = path.generation
       /\ encoder' = [encoder EXCEPT !.queue = frame]
    \/ UNCHANGED encoder   \* the session may not send video, or WebRTC has no sink

FlushLatestWebRtcFrame ==
    /\ posted # <<>> /\ Head(posted).what = "flush"
    /\ posted' = Tail(posted)
    /\ service' = [service EXCEPT !.latest = NoFrame, !.flushing = FALSE]
    /\ IF service.accepts /\ service.latest # NoFrame THEN PushFrame(service.latest)
       ELSE UNCHANGED encoder
    /\ UNCHANGED <<pathMode, path, desktop, worker, pools, store, sink>>

------------------------------------------------------------------------------
(* The capture thread. *)

EndWork ==
    /\ worker' = [IdleWorker("ended") EXCEPT !.source = worker.source]
    /\ sink' = [last |-> NoFrame, repeats |-> 0]
    /\ pools' = [native |-> {}, cpu |-> {}]
    /\ posted' = Append(posted, Event("finished", NoFrame))

\* Without a cursor of its own the picture cannot stay on the GPU.
StartWork ==
    /\ worker.at = "starting"
    /\ \E fails \in BOOLEAN :
         LET source == path.generation
             falls == pathMode # "cpu" /\ ~path.separate
         IN /\ path' = IF falls THEN FallenBack(source) ELSE path
            /\ IF fails \/ (falls /\ path'.decision = "failed") THEN EndWork
               ELSE /\ worker' = [worker EXCEPT !.at = "looping", !.running = TRUE, !.source = source]
                    /\ UNCHANGED <<sink, pools, posted>>
    /\ UNCHANGED <<pathMode, desktop, store, service, encoder>>

\* The last frame again, in case the desktop does not change any more and the
\* receiver joined after it; not for ever, and not after the first second.
HandleCaptureTimeout ==
    \/ /\ sink.last # NoFrame /\ sink.repeats < MaxRepeats
       /\ sink' = [sink EXCEPT !.repeats = @ + 1]
       /\ posted' = Append(posted, Event("frame", sink.last))
    \/ UNCHANGED <<sink, posted>>

Looping == [worker EXCEPT !.at = "looping", !.frame = NoFrame, !.native = FALSE, !.separate = FALSE]

CaptureBegins ==
    /\ worker.at = "looping"
    /\ IF ~worker.running \/ (path.generation = worker.source /\ path.decision = "failed")
       THEN EndWork
       ELSE /\ UNCHANGED pools
            /\ IF path.generation # worker.source
               THEN worker' = Looping /\ HandleCaptureTimeout
               ELSE /\ worker' = [Looping EXCEPT !.at = "waiting", !.separate = path.separate,
                        !.native = pathMode # "cpu" /\ path.decision # "cpu" /\ path.separate]
                    /\ UNCHANGED <<sink, posted>>
    /\ UNCHANGED <<pathMode, path, desktop, store, service, encoder>>

\* Fault: the clean copy is made once.
CapturesOnce(frame, picture) ==
    worker' = [worker EXCEPT !.at = "captured", !.count = @ + 1, !.frame = frame, !.native = FALSE,
        !.separate = FALSE, !.clean = IF worker.separate \/ @ # 0 THEN @ ELSE picture]

\* The frame is captured; a clean copy of the desktop is kept for the pointer.
Captures(frame, picture) ==
    worker' = [worker EXCEPT !.at = "captured", !.count = @ + 1, !.frame = frame, !.native = FALSE,
        !.separate = FALSE, !.clean = IF worker.separate THEN @ ELSE picture]

BgraFrame(picture) == Frame("bgra", 0, picture, 0, worker.source)

\* AcquireNextFrame's wait is over, with nothing new.  A first frame is then
\* taken from GDI, unless it could stay on the GPU.
NothingNew(picture) ==
    /\ worker.at = "waiting"
    /\ IF worker.count = 0 /\ ~worker.native
       THEN /\ worker' = [worker EXCEPT !.at = "captured", !.count = 1, !.frame = BgraFrame(picture),
                                        !.separate = FALSE]
            /\ desktop' = picture
            /\ UNCHANGED <<sink, posted>>
       ELSE worker' = Looping /\ HandleCaptureTimeout /\ UNCHANGED desktop
    /\ UNCHANGED <<pathMode, path, pools, store, service, encoder>>

\* Only the pointer moved: it is drawn into the clean copy of the desktop.
PointerMoved ==
    /\ worker.at = "waiting"
    /\ IF worker.separate \/ worker.clean = 0
       THEN worker' = Looping /\ HandleCaptureTimeout
       ELSE /\ worker.count <= MaxFrames
            /\ worker' = [worker EXCEPT !.at = "captured", !.count = @ + 1,
                                        !.frame = BgraFrame(worker.clean)]
            /\ UNCHANGED <<sink, posted>>
    /\ UNCHANGED <<pathMode, path, desktop, pools, store, service, encoder>>

CanCopy(picture) ==
    /\ worker.at = "waiting" /\ worker.count < MaxFrames
    /\ desktop' = picture

CopiedToBgra(picture) ==
    /\ CanCopy(picture) /\ ~worker.native
    /\ Captures(BgraFrame(picture), picture)
    /\ UNCHANGED <<pathMode, path, pools, store, sink, service, posted, encoder>>

\* copyTextureToNativeFrame looks at the path once more, so the frame gets
\* the generation of that moment; buffers of another generation are dropped.
CopiedToNative(picture) ==
    /\ CanCopy(picture) /\ worker.native
    /\ LET pool == {b \in pools.native : worker.source = path.generation}
           taken == Acquired(pool, Frames)
       IN \/ \E b \in taken :
                /\ pools' = [pools EXCEPT !.native = pool \cup {b}]
                /\ store' = Refilled(b, picture)
                /\ Captures(Frame("native", b, picture, path.generation, worker.source), picture)
                /\ UNCHANGED <<sink, posted>>
          \/ /\ taken = {}
             /\ worker' = Looping
             /\ HandleCaptureTimeout
             /\ UNCHANGED <<pools, store>>
    /\ UNCHANGED <<pathMode, path, service, encoder>>

\* A picture that cannot stay on the GPU is copied the other way at once: a
\* desktop that does not change would give no other first frame.
NativeCopyFails(picture) ==
    /\ CanCopy(picture) /\ worker.native
    /\ \E lost \in BOOLEAN : path' = IF lost THEN path ELSE FallenBack(path.generation)
    /\ IF path'.decision = "cpu"
       THEN Captures(BgraFrame(picture), picture) /\ UNCHANGED <<sink, posted, pools>>
       ELSE EndWork
    /\ UNCHANGED <<pathMode, store, service, encoder>>

SourceLost ==
    /\ worker.at = "waiting"
    /\ EndWork
    /\ UNCHANGED <<pathMode, path, desktop, store, service, encoder>>

\* The sink posts the frame and keeps it as its last.  The last one is let go
\* when no buffer is free, before the pool grows.  A failed conversion ends the
\* work.
ProcessFrame ==
    /\ worker.at = "captured"
    /\ LET needed == worker.frame.kind = "bgra"
           others == InEvents \cup {service.latest, encoder.queue, encoder.frame}
           taken == Acquired(pools.cpu, IF pools.cpu \subseteq HeldIn(Frames) THEN others ELSE Frames)
           Posts(frame) == /\ posted' = Append(posted, Event("frame", frame))
                           /\ sink' = [sink EXCEPT !.last = frame]
       IN \/ /\ ~needed
             /\ Posts(worker.frame)
             /\ worker' = [worker EXCEPT !.at = "looping"]
             /\ UNCHANGED <<pools, store>>
          \/ /\ needed
             /\ \E b \in taken :
                  /\ pools' = [pools EXCEPT !.cpu = @ \cup {b}]
                  /\ store' = Refilled(b, worker.frame.picture)
                  /\ Posts([worker.frame EXCEPT !.kind = "cpu", !.buffer = b])
             /\ worker' = Looping
          \/ /\ needed /\ taken = {}
             /\ sink' = [sink EXCEPT !.last = NoFrame]
             /\ worker' = Looping
             /\ UNCHANGED <<pools, store, posted>>
          \/ EndWork /\ UNCHANGED store
    /\ UNCHANGED <<pathMode, path, desktop, service, encoder>>

------------------------------------------------------------------------------
(* The encoder thread. *)

HostInitEncode ==
    /\ encoder.at \in {"closed", "idle"} /\ encoder.generation > 0 /\ encoder.inits < MaxInits
    /\ encoder' = [encoder EXCEPT !.at = "idle", !.gpu = FALSE, !.tried = FALSE, !.used = FALSE,
                                  !.inits = @ + 1]
    /\ UNCHANGED <<pathMode, path, desktop, worker, pools, store, sink, service, posted>>

EncoderOnly == UNCHANGED <<pathMode, desktop, worker, pools, store, sink, service, posted>>
Done == [encoder EXCEPT !.at = "idle", !.frame = NoFrame]

\* The first GPU frame decides whether the codec is opened again for those.
TakeFrame ==
    LET frame == encoder.queue
        taken == [encoder EXCEPT !.queue = NoFrame]
        native == frame.kind = "native"
    IN /\ encoder.at = "idle" /\ frame # NoFrame
       /\ encoder' =
            IF native /\ frame.tag # path.generation THEN taken
            ELSE IF native /\ ~encoder.tried /\ path.decision # "cpu"
            THEN [taken EXCEPT !.at = "enabling", !.tried = TRUE, !.frame = frame]
            ELSE IF native /\ path.decision = "failed" THEN taken
            ELSE [taken EXCEPT !.at = "encoding", !.frame = frame]
       /\ UNCHANGED path /\ EncoderOnly

\* It takes long, and the capture thread may fall back meanwhile.
EnableGpuFrames ==
    /\ encoder.at = "enabling"
    /\ \E works \in {FALSE, ~encoder.used} :
         /\ path' = IF works THEN GpuSelected(encoder.frame.tag) ELSE FallenBack(encoder.frame.tag)
         /\ encoder' = IF path'.decision = "failed" THEN [Done EXCEPT !.gpu = works]
                       ELSE [encoder EXCEPT !.at = "encoding", !.gpu = works]
    /\ EncoderOnly

\* WebRTC wants a GPU frame in another shape: it is dropped, and the path with it.
CropAndScale ==
    /\ encoder.at = "idle" /\ encoder.queue.kind = "native"
    /\ path' = FallenBack(encoder.queue.tag)
    /\ encoder' = [encoder EXCEPT !.queue = NoFrame]
    /\ EncoderOnly

OnGpu == encoder.frame.kind = "native" /\ encoder.gpu

\* No surface of the codec is free, there is no I420 of the frame, or the
\* codec that takes GPU frames is given another.
HostEncodeSkips ==
    /\ encoder.at = "encoding"
    /\ encoder.frame.kind = "native" \/ encoder.gpu
    /\ encoder' = Done
    /\ path' = IF encoder.frame.kind = "native" /\ ~OnGpu THEN FallenBack(encoder.frame.tag) ELSE path
    /\ EncoderOnly

\* The codec fails; a codec that takes GPU frames fails the path with it.
HostEncodeFails ==
    /\ encoder.at = "encoding" /\ OnGpu = encoder.gpu
    /\ encoder' = [Done EXCEPT !.used = TRUE]
    /\ path' = IF OnGpu THEN FailedPath(encoder.frame.tag) ELSE path
    /\ EncoderOnly

HostEncode ==
    /\ encoder.at = "encoding" /\ OnGpu = encoder.gpu
    /\ encoder' = [Done EXCEPT !.used = TRUE, !.shown = store[encoder.frame.buffer]]
    /\ UNCHANGED path /\ EncoderOnly

VideoNext ==
    \/ \E separate \in BOOLEAN : BeginSession(separate)
    \/ StartCapture \/ RequestStopCapture \/ ClearWorker
    \/ EnqueueWebRtcFrame \/ FlushLatestWebRtcFrame
    \/ StartWork \/ CaptureBegins \/ PointerMoved \/ SourceLost \/ ProcessFrame
    \/ \E picture \in {desktop, desktop + 1} :
         picture <= MaxPictures /\ (NothingNew(picture) \/ CopiedToBgra(picture)
                                      \/ CopiedToNative(picture) \/ NativeCopyFails(picture))
    \/ HostInitEncode \/ TakeFrame \/ EnableGpuFrames \/ CropAndScale
    \/ HostEncodeSkips \/ HostEncodeFails \/ HostEncode

VideoSpec == VideoInit /\ [][VideoNext]_videoVars

------------------------------------------------------------------------------
(* Whoever holds a frame holds the picture that was captured into it: no    *)
(* buffer is filled again while a queued event, the sink's last frame or    *)
(* the encoder still refers to it.                                          *)
BuffersAreKept ==
    \A f \in Frames : f.kind \in {"native", "cpu"} => store[f.buffer] = f.picture

(* A session shows its own capture: no frame of the worker of an earlier    *)
(* session reaches the peer of this one, although the old worker may still  *)
(* be posting frames when the new session starts.                           *)
FramesStayInTheirSession ==
    \A f \in {encoder.queue, encoder.frame} : f # NoFrame => f.from = encoder.generation

(* The encoder is never given an older picture after a newer one, although  *)
(* the last frame is repeated, the pointer drawn into a copy of the desktop  *)
(* and the first frame taken another way.                                    *)
PicturesGoForward ==
    /\ service.latest # NoFrame /\ encoder.queue # NoFrame
          => encoder.queue.picture <= service.latest.picture
    /\ encoder.frame # NoFrame => encoder.shown <= encoder.frame.picture

(* Invariant of the threads of the controlled computer's video. *)
VideoIsTrue == BuffersAreKept /\ FramesStayInTheirSession /\ PicturesGoForward
=============================================================================
