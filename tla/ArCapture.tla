------------------------------ MODULE ArCapture ------------------------------
(***************************************************************************)
(* src/mobile/native/src/ar_capture.cpp with the parts it starts and stops *)
(* (capture/android, encode, sensors/android) and the one script that      *)
(* calls it (scripts/Main.gd): the life of a capture on the phone.         *)
(*                                                                         *)
(* start_capture, stop_capture and set_preview_enabled run on Godot's main *)
(* thread, one component at a time; a step is what they do to one of them. *)
(* Three threads run meanwhile and call back: the encoder's drain thread,  *)
(* ARCore's render thread and the sensor thread.  Each tests sink_ and     *)
(* then calls it, without a lock.                                          *)
(***************************************************************************)
EXTENDS Integers, Sequences

CONSTANTS
    SensorOrientation,  \* what query_back_camera_sensor_orientation returns
    Overrides,          \* values debug.arstream.capture_backend may have
    Availabilities,     \* answers ARCore's availability check may give
    Failing             \* components whose start may fail

ASSUME CaptureAssumption ==
    /\ SensorOrientation \in {0, 90, 180, 270}
    /\ Overrides \subseteq {"auto", "camera2", "arcore"}
    /\ Availabilities \subseteq {"SUPPORTED_INSTALLED", "other"}
    /\ Failing \subseteq {"encoder", "sink", "arcore", "camera", "sampler"}

Threads == {"drain", "render", "sampler"}

VARIABLES
    pc,                  \* where the main thread is, "idle" in Godot's loop
    capturing_,
    sensor_orientation_,
    preview_was_enabled,
    override,            \* the system property, read at every start
    g_cached_result,     \* arcore_availability: "" until the check answers
    controller,          \* capture_controller_ and its session
    encoder,             \* does encoder_ exist, with its drain thread?
    codec,               \* what AMediaCodec has put out: "silent", "config"
    fed,                 \* has the camera been feeding this encoder?
    sink,                \* sink_: "none", "new", "open", "closed"
    sink_kind,           \* "save" or "stream"
    thread,              \* of each thread: "off", "running", "calling"
    argument,            \* rotation of the config, -1 for a chunk, being written
    rotation,            \* rotation of the VIDEO_CONFIG the sink has, or -1
    chunks,              \* has the sink been given a frame?
    config_when,         \* history: when the codec gave its config
    pressed,             \* preview_button.button_pressed
    is_capturing,        \* _is_capturing of Main.gd
    failed               \* history: a start has failed since preview agreed

mainVars == <<pc, capturing_, preview_was_enabled>>
sinkVars == <<sink, sink_kind>>
outputVars == <<argument, rotation, chunks, codec, fed, config_when>>
uiVars == <<pressed, is_capturing>>
phoneVars == <<override, g_cached_result>>
captureVars == <<mainVars, sensor_orientation_, controller, encoder, sinkVars, thread,
                 outputVars, uiVars, failed>>
vars == <<captureVars, phoneVars>>

Backends == {"arcore", "camera2"}

NoController == [backend |-> "none", encoding |-> FALSE, preview |-> FALSE]
Controllers == [backend : Backends, encoding : BOOLEAN, preview : BOOLEAN] \cup {NoController}

Init ==
    /\ override \in Overrides /\ g_cached_result = ""
    /\ pc = "idle" /\ capturing_ = FALSE /\ preview_was_enabled = FALSE
    /\ sensor_orientation_ = 0
    /\ controller = NoController /\ encoder = FALSE
    /\ sink = "none" /\ sink_kind = "save"
    /\ thread = [t \in Threads |-> "off"]
    /\ argument = -1 /\ rotation = -1 /\ chunks = FALSE
    /\ codec = "silent" /\ fed = FALSE /\ config_when = "none"
    /\ pressed = FALSE /\ is_capturing = FALSE /\ failed = FALSE

-----------------------------------------------------------------------------
(* What the main thread does to its components.                            *)

(* A thread is joined once its callback has returned.                      *)
Join(t) == thread[t] # "calling" /\ thread' = [thread EXCEPT ![t] = "off"]

(* Only ARCore has a thread of ours; Camera2 feeds the encoder by itself.  *)
RenderThread(backend) == IF backend = "arcore" THEN "running" ELSE "off"

(* CaptureController::start.  ARCore is tried when it is forced, or when it *)
(* is not ruled out and the availability check has found it installed.     *)
WantArcore == \/ override = "arcore"
              \/ override # "camera2" /\ g_cached_result = "SUPPORTED_INSTALLED"

(* ARCore draws into the encoder's surface: bind_window fails without one. *)
ArcoreMayFail(encoding) == WantArcore /\ (~encoding \/ "arcore" \in Failing)

(* Camera2 follows when ARCore is not wanted or fails without being forced.*)
Camera2IsTried(encoding) ==
    \/ ~WantArcore
    \/ ArcoreMayFail(encoding) /\ override # "arcore"

ComesUp(encoding) ==
    {b \in Backends : IF b = "arcore" THEN WantArcore /\ encoding ELSE Camera2IsTried(encoding)}

ControllerStarts(encoding, preview) ==
    \E b \in ComesUp(encoding) :
        /\ controller' = [backend |-> b, encoding |-> encoding, preview |-> preview]
        /\ thread' = [thread EXCEPT !["render"] = RenderThread(b)]

ControllerStops == controller' = NoController /\ Join("render")

EncoderStops == encoder' = FALSE /\ Join("drain")

(* Faulty variant: turns the wrong way.                                    *)
QueriedCounterClockwise == (360 - SensorOrientation) % 360
(* query_back_camera_sensor_orientation; 0 also when the query fails.      *)
QueriedOrientation == SensorOrientation

(* Faulty variant: ARCore's image is turned as well.                       *)
OrientationAsQueried(backend, queried) == queried
(* ARCore turns the image itself.                                          *)
OrientationFor(backend, queried) == IF backend = "arcore" THEN 0 ELSE queried

Fails(component) == component \in Failing /\ failed' = TRUE

(* A forced ARCore has no fallback.  Camera2 fails without a camera, a     *)
(* permission or one of its session's parts: what was opened is closed.    *)
CameraFails(encoding) ==
    /\ \/ override = "arcore" /\ ArcoreMayFail(encoding)
       \/ Camera2IsTried(encoding) /\ "camera" \in Failing
    /\ failed' = TRUE

(* Preview without a capture: a session of its own, with no encoder.  Its  *)
(* callbacks find no sink_, so opening it is one step.                     *)
OpenPreview ==
    \/ /\ ControllerStarts(FALSE, TRUE)
       /\ sensor_orientation_' = OrientationFor(controller'.backend, QueriedOrientation)
       /\ UNCHANGED failed
    \/ /\ CameraFails(FALSE)
       /\ sensor_orientation_' = QueriedOrientation
       /\ UNCHANGED <<controller, thread>>

-----------------------------------------------------------------------------
(* start_capture.                                                          *)

(* The capture button.  The preview's session is closed first.             *)
StartCapture(mode) ==
    /\ pc = "idle" /\ ~is_capturing /\ ~capturing_
    /\ preview_was_enabled' = controller.preview
    /\ ControllerStops
    /\ sensor_orientation_' = QueriedOrientation
    /\ sink_kind' = mode
    /\ pc' = "start_encoder"
    /\ UNCHANGED <<capturing_, encoder, sink, outputVars, uiVars, failed>>

StartEncoder ==
    /\ pc = "start_encoder"
    /\ \/ /\ encoder' = TRUE /\ thread' = [thread EXCEPT !["drain"] = "running"]
          /\ codec' = "silent" /\ fed' = FALSE /\ config_when' = "none"
          /\ pc' = "new_sink" /\ UNCHANGED failed
       \/ /\ Fails("encoder")
          /\ pc' = "idle" /\ UNCHANGED <<encoder, thread, codec, fed, config_when>>
    /\ UNCHANGED <<capturing_, preview_was_enabled, sensor_orientation_, controller,
                   sinkVars, argument, rotation, chunks, uiVars>>

NewSink ==
    /\ pc = "new_sink"
    /\ sink' = "new" /\ rotation' = -1 /\ chunks' = FALSE
    /\ pc' = "open_sink"
    /\ UNCHANGED <<capturing_, preview_was_enabled, sensor_orientation_, controller,
                   encoder, sink_kind, thread, argument, codec, fed, config_when, uiVars, failed>>

OpenSink ==
    /\ pc = "open_sink"
    /\ \/ sink' = "open" /\ pc' = "start_camera" /\ UNCHANGED failed
       \/ Fails("sink") /\ pc' = "undo_open" /\ UNCHANGED sink
    /\ UNCHANGED <<capturing_, preview_was_enabled, sensor_orientation_, controller,
                   encoder, sink_kind, thread, outputVars, uiVars>>

(* The sink did not open: the encoder goes, then the sink.                 *)
UndoOpen ==
    /\ pc = "undo_open"
    /\ EncoderStops
    /\ sink' = "none"
    /\ pc' = "idle"
    /\ UNCHANGED <<capturing_, preview_was_enabled, sensor_orientation_, controller,
                   sink_kind, outputVars, uiVars, failed>>

StartCamera ==
    /\ pc = "start_camera"
    /\ \/ ControllerStarts(TRUE, FALSE) /\ fed' = TRUE /\ pc' = "orient" /\ UNCHANGED failed
       \/ CameraFails(TRUE) /\ pc' = "undo_close" /\ UNCHANGED <<controller, thread, fed>>
    /\ UNCHANGED <<capturing_, preview_was_enabled, sensor_orientation_, encoder, sinkVars,
                   argument, rotation, chunks, codec, config_when, uiVars>>

(* The camera did not start: the sink is closed and deleted while the      *)
(* encoder's drain thread still runs, then the encoder is stopped.         *)
UndoClose ==
    /\ pc = "undo_close"
    /\ sink' = "closed" /\ pc' = "undo_reset"
    /\ UNCHANGED <<capturing_, preview_was_enabled, sensor_orientation_, controller,
                   encoder, sink_kind, thread, outputVars, uiVars, failed>>

UndoReset ==
    /\ pc = "undo_reset"
    /\ sink' = "none" /\ pc' = "undo_encoder"
    /\ UNCHANGED <<capturing_, preview_was_enabled, sensor_orientation_, controller,
                   encoder, sink_kind, thread, outputVars, uiVars, failed>>

UndoEncoder ==
    /\ pc = "undo_encoder"
    /\ EncoderStops
    /\ pc' = "idle"
    /\ UNCHANGED <<capturing_, preview_was_enabled, sensor_orientation_, controller,
                   sinkVars, outputVars, uiVars, failed>>

(* Faulty variant: the new session's preview stays off.                    *)
PreviewOff == FALSE
PreviewRestored == preview_was_enabled

(* The backend is known.                                                   *)
Orient ==
    /\ pc = "orient"
    /\ sensor_orientation_' = OrientationFor(controller.backend, sensor_orientation_)
    /\ controller' = [controller EXCEPT !.preview = PreviewRestored]
    /\ pc' = "start_sampler"
    /\ UNCHANGED <<capturing_, preview_was_enabled, encoder, sinkVars, thread,
                   outputVars, uiVars, failed>>

(* Without sensors the capture goes on.  capture_started reaches Main.gd.  *)
StartSampler ==
    /\ pc = "start_sampler"
    /\ \/ thread' = [thread EXCEPT !["sampler"] = "running"]
       \/ "sampler" \in Failing /\ UNCHANGED thread
    /\ capturing_' = TRUE /\ is_capturing' = TRUE
    /\ pc' = "idle"
    /\ UNCHANGED <<preview_was_enabled, sensor_orientation_, controller, encoder,
                   sinkVars, outputVars, pressed, failed>>

-----------------------------------------------------------------------------
(* stop_capture: everything that calls the sink goes before the sink.      *)

(* Faulty variant: the sink goes before the encoder.                       *)
StopOrderSinkFirst == <<"stop_sampler", "stop_camera", "close_sink", "stop_encoder", "stopped">>
(* Faulty variant: the encoder is forgotten.                               *)
StopOrderShort == <<"stop_sampler", "stop_camera", "close_sink", "stopped">>
StopOrder == <<"stop_sampler", "stop_camera", "stop_encoder", "close_sink", "stopped">>

NextStop ==
    \E i \in 1 .. Len(StopOrder) - 1 : pc = StopOrder[i] /\ pc' = StopOrder[i + 1]

StopCapture ==
    /\ pc = "idle" /\ is_capturing /\ capturing_
    /\ capturing_' = FALSE
    /\ pc' = StopOrder[1]
    /\ UNCHANGED <<preview_was_enabled, sensor_orientation_, controller, encoder,
                   sinkVars, thread, outputVars, uiVars, failed>>

StopComponent ==
    /\ NextStop
    /\ \/ pc = "stop_sampler" /\ Join("sampler") /\ UNCHANGED <<controller, encoder, sink>>
       \/ pc = "stop_camera" /\ ControllerStops /\ UNCHANGED <<encoder, sink>>
       \/ pc = "stop_encoder" /\ EncoderStops /\ UNCHANGED <<controller, sink>>
       \/ pc = "close_sink" /\ sink' = "none" /\ UNCHANGED <<controller, encoder, thread>>
    /\ UNCHANGED <<capturing_, preview_was_enabled, sensor_orientation_, sink_kind,
                   outputVars, uiVars, failed>>

(* capture_stopped reaches Main.gd, which reopens the preview.             *)
Stopped ==
    /\ pc = "stopped"
    /\ is_capturing' = FALSE
    /\ IF pressed
       THEN OpenPreview
       ELSE UNCHANGED <<controller, thread, sensor_orientation_, failed>>
    /\ pc' = "idle"
    /\ UNCHANGED <<capturing_, preview_was_enabled, encoder, sinkVars, outputVars, pressed>>

-----------------------------------------------------------------------------
(* set_preview_enabled, from the preview button.                           *)

TogglePreview ==
    /\ pc = "idle"
    /\ pressed' = ~pressed
    /\ \/ /\ capturing_ \/ (pressed' /\ controller # NoController)
          /\ controller' = [controller EXCEPT !.preview = pressed']
          /\ UNCHANGED <<thread, sensor_orientation_, failed>>
       \/ /\ ~capturing_ /\ ~pressed'
          /\ ControllerStops /\ failed' = FALSE
          /\ UNCHANGED sensor_orientation_
       \/ /\ ~capturing_ /\ pressed' /\ controller = NoController
          /\ OpenPreview
    /\ UNCHANGED <<mainVars, encoder, sinkVars, outputVars, is_capturing>>

-----------------------------------------------------------------------------
(* The callbacks.                                                          *)

(* if (sink_): the call begins, or there is nothing to call.               *)
Calls(t) ==
    /\ thread[t] = "running"
    /\ thread' = IF sink # "none" THEN [thread EXCEPT ![t] = "calling"] ELSE thread

(* Three moments for the codec to give its config: before the sink is      *)
(* open, before the orientation is settled, and later.                     *)
Moment ==
    IF sink # "open" THEN "early" ELSE IF pc \in {"start_camera", "orient"} THEN "racing" ELSE "late"

(* on_encoder_config.  The codec's first output; camera2_capture_session.h *)
(* expects that it may come before the camera session does.                *)
DrainConfig ==
    /\ codec = "silent"
    /\ Calls("drain")
    /\ codec' = "config" /\ config_when' = Moment
    /\ argument' = sensor_orientation_
    /\ UNCHANGED <<mainVars, sensor_orientation_, controller, encoder, sinkVars,
                   rotation, chunks, fed, uiVars, failed>>

(* on_encoded_chunk.  Frames need a camera, and may outlast it a little.   *)
DrainChunk ==
    /\ codec = "config" /\ fed
    /\ Calls("drain")
    /\ argument' = -1
    /\ UNCHANGED <<mainVars, sensor_orientation_, controller, encoder, sinkVars,
                   rotation, chunks, codec, fed, config_when, uiVars, failed>>

(* The sink's write_video_config or write_chunk.  A FileSink has no file   *)
(* before open(); a StreamSink keeps the config from before it.            *)
DrainReturns ==
    /\ thread["drain"] = "calling"
    /\ thread' = [thread EXCEPT !["drain"] = "running"]
    /\ IF sink = "open" \/ (sink = "new" /\ sink_kind = "stream")
       THEN /\ rotation' = IF argument = -1 THEN rotation ELSE argument
            /\ chunks' = (chunks \/ argument = -1)
       ELSE UNCHANGED <<rotation, chunks>>
    /\ argument' = -1
    /\ UNCHANGED <<mainVars, sensor_orientation_, controller, encoder, sinkVars,
                   codec, fed, config_when, uiVars, failed>>

(* The render loop: pose, point cloud and intrinsics of each ARCore frame. *)
RenderWrite ==
    /\ Calls("render")
    /\ UNCHANGED <<mainVars, sensor_orientation_, controller, encoder, sinkVars,
                   outputVars, uiVars, failed>>

(* The sampler's loop: a batch of sensor events.                           *)
SamplerWrite ==
    /\ Calls("sampler")
    /\ UNCHANGED <<mainVars, sensor_orientation_, controller, encoder, sinkVars,
                   outputVars, uiVars, failed>>

WriteReturns ==
    /\ \E t \in {"render", "sampler"} :
          thread[t] = "calling" /\ thread' = [thread EXCEPT ![t] = "running"]
    /\ UNCHANGED <<mainVars, sensor_orientation_, controller, encoder, sinkVars,
                   outputVars, uiVars, failed>>

(* on_availability_result, on Android's UI thread: the check made once at  *)
(* start-up answers.  Without an activity it is not made, nothing cached.  *)
AvailabilityKnown ==
    /\ g_cached_result = ""
    /\ g_cached_result' \in Availabilities
    /\ UNCHANGED <<captureVars, override>>

-----------------------------------------------------------------------------
User ==
    \/ \E mode \in {"save", "stream"} : StartCapture(mode)
    \/ StopCapture \/ TogglePreview

Main ==
    \/ StartEncoder \/ NewSink \/ OpenSink \/ UndoOpen
    \/ StartCamera \/ UndoClose \/ UndoReset \/ UndoEncoder
    \/ Orient \/ StartSampler
    \/ StopComponent \/ Stopped

Callbacks ==
    \/ DrainConfig \/ DrainChunk \/ DrainReturns
    \/ RenderWrite \/ SamplerWrite \/ WriteReturns

Next == \/ (User \/ Main \/ Callbacks) /\ UNCHANGED phoneVars
        \/ AvailabilityKnown

Spec == Init /\ [][Next]_vars

-----------------------------------------------------------------------------
(* Types of the capture's members, its threads and the two buttons.        *)
TypeOK ==
    /\ pc \in {"idle", "start_encoder", "new_sink", "open_sink", "undo_open",
               "start_camera", "undo_close", "undo_reset", "undo_encoder", "orient",
               "start_sampler", "stop_sampler", "stop_camera", "stop_encoder",
               "close_sink", "stopped"}
    /\ capturing_ \in BOOLEAN /\ preview_was_enabled \in BOOLEAN
    /\ sensor_orientation_ \in {0, SensorOrientation}
    /\ override \in Overrides /\ g_cached_result \in Availabilities \cup {""}
    /\ controller \in Controllers /\ encoder \in BOOLEAN
    /\ codec \in {"silent", "config"} /\ fed \in BOOLEAN
    /\ sink \in {"none", "new", "open", "closed"} /\ sink_kind \in {"save", "stream"}
    /\ thread \in [Threads -> {"off", "running", "calling"}]
    /\ argument \in {-1, 0, SensorOrientation} /\ rotation \in {-1, 0, SensorOrientation}
    /\ chunks \in BOOLEAN /\ config_when \in {"none", "early", "racing", "late"}
    /\ pressed \in BOOLEAN /\ is_capturing \in BOOLEAN /\ failed \in BOOLEAN

(* Between two commands of the user the components are all there or all    *)
(* gone, whichever of them failed to start, and Main.gd knows which.       *)
AllOrNothing ==
    pc = "idle" =>
        /\ capturing_ = is_capturing
        /\ IF capturing_
           THEN encoder /\ sink = "open" /\ controller.encoding
           ELSE ~encoder /\ sink = "none" /\ ~controller.encoding
        /\ (thread["drain"] # "off") = encoder
        /\ (thread["render"] # "off") = (controller.backend = "arcore")
        /\ thread["sampler"] # "off" => capturing_

(* No thread is inside a sink that is closed or deleted: they are stopped  *)
(* before it.  Except where a camera that did not start is undone.         *)
CallsFindAnOpenSink ==
    (\E t \in Threads : thread[t] = "calling") =>
        sink \in {"new", "open"} \/ pc \in {"undo_reset", "undo_encoder"}

(* A config that comes when the sink is open reaches it before the frames  *)
(* do; its rotation is the one of the backend that took them, unless, with *)
(* ARCore, it comes before start_capture knows the backend.                *)
FramesHaveTheirConfig ==
    sink = "open" /\ chunks /\ config_when # "early" =>
        /\ rotation # -1
        /\ controller.backend = "camera2" => rotation = SensorOrientation
        /\ controller.backend = "arcore" /\ config_when = "late" => rotation = 0

PreviewIsOn == controller.preview

(* The preview is on exactly while its button is pressed, across the       *)
(* sessions that captures open and close, as long as nothing fails.        *)
PreviewSurvivesCaptures == pc = "idle" /\ ~failed => PreviewIsOn = pressed
=============================================================================
