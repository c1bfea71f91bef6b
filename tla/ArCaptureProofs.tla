-------------------------- MODULE ArCaptureProofs --------------------------
(* Theorems about ArCapture: its safety properties, for any orientation of *)
(* the sensor, any override and availability, and whichever components may *)
(* fail to start.                                                          *)
EXTENDS ArCapture, TLAPS

Starting == {"start_encoder", "new_sink", "open_sink", "start_camera", "orient"}
Undoing == {"undo_open", "undo_close", "undo_reset", "undo_encoder"}

(* A thread runs while the component it belongs to exists.                 *)
ThreadsInv ==
    /\ thread["drain"] # "off" <=> encoder
    /\ thread["render"] # "off" <=> controller.backend = "arcore"
    /\ thread["sampler"] # "off" => capturing_ \/ pc = "stop_sampler"

(* Which components exist at each point of start_capture and stop_capture. *)
Has(has_encoder, has_controller, in_sink) ==
    (encoder <=> has_encoder) /\ (controller.encoding <=> has_controller) /\ sink = in_sink

ComponentsInv ==
    /\ controller.encoding => controller.backend # "none"
    /\ pc # "idle" /\ ~controller.encoding => controller = NoController
    /\ pc = "idle" => /\ capturing_ <=> is_capturing
                      /\ capturing_ => Has(TRUE, TRUE, "open")
                      /\ ~capturing_ => Has(FALSE, FALSE, "none")
    /\ pc # "idle" => ~capturing_
    /\ pc \in Starting \cup Undoing \cup {"start_sampler"} => ~is_capturing
    /\ pc \in {"start_encoder", "stopped"} => Has(FALSE, FALSE, "none")
    /\ pc \in {"new_sink", "undo_encoder"} => Has(TRUE, FALSE, "none")
    /\ pc \in {"open_sink", "undo_open"} => Has(TRUE, FALSE, "new")
    /\ pc \in {"start_camera", "undo_close", "stop_encoder"} => Has(TRUE, FALSE, "open")
    /\ pc = "undo_reset" => Has(TRUE, FALSE, "closed")
    /\ pc \in {"orient", "start_sampler", "stop_sampler", "stop_camera"} => Has(TRUE, TRUE, "open")
    /\ pc = "close_sink" => Has(FALSE, FALSE, "open")

(* Where there is no sink there is no call, but for the undoing of a camera*)
(* that did not start.                                                     *)
CallsInv == sink = "none" /\ pc # "undo_encoder" => \A t \in Threads : thread[t] # "calling"

(* The orientation the components agree on, once there is a backend.       *)
OrientationInv ==
    /\ pc \in Starting => sensor_orientation_ = SensorOrientation
    /\ sink = "open" /\ controller.backend # "none" /\ pc # "orient" =>
          sensor_orientation_ = OrientationFor(controller.backend, SensorOrientation)

(* Is r a rotation FramesHaveTheirConfig allows, also for a camera that is *)
(* not yet started?                                                        *)
Right(r) ==
    /\ r # -1
    /\ config_when = "racing" => r = SensorOrientation
    /\ config_when = "late" /\ controller.backend # "none" =>
          r = OrientationFor(controller.backend, SensorOrientation)

(* The config of an open sink is with the drain thread, ahead of every     *)
(* frame, or in the sink.                                                  *)
ConfigInv ==
    /\ codec = "silent" <=> config_when = "none"
    /\ codec = "silent" => thread["drain"] # "calling"
    /\ codec = "silent" /\ sink \in {"new", "open"} => ~chunks
    /\ pc \in {"new_sink", "open_sink"} => config_when \in {"none", "early"}
    /\ pc \in {"start_camera", "orient"} => config_when # "late"
    /\ sink = "open" /\ config_when \in {"racing", "late"} =>
          \/ thread["drain"] = "calling" /\ ~chunks /\ Right(argument)
          \/ argument = -1 /\ Right(rotation)

(* The preview to be restored is the one its button asks for.              *)
PreviewInv ==
    /\ pc \in Undoing => failed
    /\ pc \in Starting /\ ~failed => preview_was_enabled = pressed
    /\ pc \in {"start_sampler", "idle"} /\ ~failed => controller.preview = pressed

IInv == /\ TypeOK /\ ThreadsInv /\ ComponentsInv /\ CallsInv
        /\ OrientationInv /\ ConfigInv /\ PreviewInv

(* TypeOK in three parts.                                                  *)
Flags ==
    /\ capturing_ \in BOOLEAN /\ preview_was_enabled \in BOOLEAN /\ encoder \in BOOLEAN
    /\ fed \in BOOLEAN /\ chunks \in BOOLEAN
    /\ pressed \in BOOLEAN /\ is_capturing \in BOOLEAN /\ failed \in BOOLEAN

Places ==
    /\ pc \in {"idle", "start_encoder", "new_sink", "open_sink", "undo_open",
               "start_camera", "undo_close", "undo_reset", "undo_encoder", "orient",
               "start_sampler", "stop_sampler", "stop_camera", "stop_encoder",
               "close_sink", "stopped"}
    /\ sensor_orientation_ \in {0, SensorOrientation}
    /\ controller \in Controllers
    /\ codec \in {"silent", "config"}
    /\ sink \in {"none", "new", "open", "closed"} /\ sink_kind \in {"save", "stream"}
    /\ thread \in [Threads -> {"off", "running", "calling"}]
    /\ argument \in {-1, 0, SensorOrientation} /\ rotation \in {-1, 0, SensorOrientation}
    /\ config_when \in {"none", "early", "racing", "late"}

Phone == override \in Overrides /\ g_cached_result \in Availabilities \cup {""}

-----------------------------------------------------------------------------
(* What the operators of ArCapture leave behind.                           *)

LEMMA TypeParts == TypeOK <=> Flags /\ Places /\ Phone
BY Zenon DEF TypeOK, Flags, Places, Phone

LEMMA ControllerFields ==
  /\ NoController \in Controllers
  /\ NoController.backend = "none" /\ ~NoController.encoding /\ ~NoController.preview
  /\ \A c \in Controllers :
        /\ c.backend \in Backends \cup {"none"} /\ c.encoding \in BOOLEAN /\ c.preview \in BOOLEAN
        /\ c.backend = "none" => c = NoController
<1>1. NoController \in Controllers
  BY DEF Controllers
<1>2. NoController.backend = "none" /\ ~NoController.encoding /\ ~NoController.preview
  BY DEF NoController
<1>3. ASSUME NEW c \in Controllers
      PROVE  /\ c.backend \in Backends \cup {"none"} /\ c.encoding \in BOOLEAN /\ c.preview \in BOOLEAN
             /\ c.backend = "none" => c = NoController
  <2>1. CASE c = NoController
    BY <2>1 DEF NoController
  <2>2. CASE c \in [backend : Backends, encoding : BOOLEAN, preview : BOOLEAN]
    BY <2>2 DEF Backends
  <2>. QED BY <2>1, <2>2 DEF Controllers
<1>. QED BY <1>1, <1>2, <1>3

LEMMA PreviewSet ==
  ASSUME NEW c \in Controllers, NEW p \in BOOLEAN, c # NoController
  PROVE  LET d == [c EXCEPT !.preview = p]
         IN  /\ d \in Controllers /\ d # NoController
             /\ d.backend = c.backend /\ d.encoding = c.encoding /\ d.preview = p
BY DEF Controllers, NoController, Backends

LEMMA StartsShape ==
  ASSUME NEW e \in BOOLEAN, NEW p \in BOOLEAN, ControllerStarts(e, p)
  PROVE  /\ controller' \in Controllers /\ controller' # NoController
         /\ controller'.backend \in Backends /\ controller'.encoding = e /\ controller'.preview = p
         /\ thread' = [thread EXCEPT !["render"] =
                          IF controller'.backend = "arcore" THEN "running" ELSE "off"]
<1>1. PICK b \in Backends :
         /\ controller' = [backend |-> b, encoding |-> e, preview |-> p]
         /\ thread' = [thread EXCEPT !["render"] = RenderThread(b)]
  BY DEF ControllerStarts, ComesUp
<1>2. controller'.backend = b /\ controller'.encoding = e /\ controller'.preview = p
  BY <1>1
<1>3. controller' \in Controllers /\ controller' # NoController
  BY <1>1 DEF Controllers, NoController, Backends
<1>. QED BY <1>1, <1>2, <1>3 DEF RenderThread

LEMMA StopSteps ==
  ASSUME NextStop
  PROVE  \/ pc = "stop_sampler" /\ pc' = "stop_camera"
         \/ pc = "stop_camera" /\ pc' = "stop_encoder"
         \/ pc = "stop_encoder" /\ pc' = "close_sink"
         \/ pc = "close_sink" /\ pc' = "stopped"
<1>1. /\ Len(StopOrder) = 5
      /\ StopOrder[1] = "stop_sampler" /\ StopOrder[2] = "stop_camera"
      /\ StopOrder[3] = "stop_encoder" /\ StopOrder[4] = "close_sink"
      /\ StopOrder[5] = "stopped"
  BY DEF StopOrder
<1>2. PICK i \in 1 .. 4 : pc = StopOrder[i] /\ pc' = StopOrder[i + 1]
  BY <1>1 DEF NextStop
<1>3. i = 1 \/ i = 2 \/ i = 3 \/ i = 4
  OBVIOUS
<1>. QED BY <1>1, <1>2, <1>3

LEMMA OrientationIsQueried ==
  ASSUME NEW b PROVE OrientationFor(b, SensorOrientation) \in {0, SensorOrientation}
BY DEF OrientationFor

(* The callbacks change no component, and call only a sink that exists.    *)
LEMMA CallbacksKeep ==
  ASSUME Callbacks
  PROVE  UNCHANGED <<mainVars, sensor_orientation_, controller, encoder, sinkVars, fed,
                     uiVars, failed>>
BY DEF Callbacks, DrainConfig, DrainChunk, DrainReturns, RenderWrite, SamplerWrite,
       WriteReturns, outputVars

LEMMA CallbacksRun ==
  ASSUME Places, Callbacks
  PROVE  /\ thread' \in [Threads -> {"off", "running", "calling"}]
         /\ \A t \in Threads : /\ thread'[t] = "off" <=> thread[t] = "off"
                               /\ thread'[t] = "calling" => thread[t] = "calling" \/ sink # "none"
BY DEF Places, Threads, Callbacks, Calls, DrainConfig, DrainChunk, DrainReturns,
       RenderWrite, SamplerWrite, WriteReturns

LEMMA PhoneStep == Phone /\ [Next]_vars => Phone'
<1>. SUFFICES ASSUME Phone, [Next]_vars
              PROVE  Phone'
  OBVIOUS
<1>1. CASE UNCHANGED phoneVars
  BY Zenon, <1>1 DEF Phone, phoneVars
<1>2. CASE AvailabilityKnown
  BY Zenon, <1>2 DEF Phone, AvailabilityKnown
<1>3. CASE UNCHANGED vars
  BY Zenon, <1>3 DEF Phone, vars, phoneVars
<1>. QED BY <1>1, <1>2, <1>3 DEF Next

(* Each part of the invariant, one step per action.                        *)
LEMMA FlagsStep ==
  Flags /\ Places /\ ComponentsInv /\ [Next]_vars => Flags'
<1>. SUFFICES ASSUME Flags /\ Places /\ ComponentsInv,
                     [Next]_vars
              PROVE  Flags'
  OBVIOUS
<1>. USE DEF Flags, mainVars, sinkVars, outputVars, uiVars, phoneVars
<1>1. ASSUME NEW mode \in {"save", "stream"}, StartCapture(mode)
      PROVE  Flags'
  <2>1. controller.preview \in BOOLEAN
    BY ControllerFields DEF Places
  <2>. QED BY Zenon, <1>1, <2>1 DEF StartCapture
<1>2. CASE StopCapture
  BY Zenon, <1>2 DEF StopCapture
<1>3. CASE TogglePreview
  BY Zenon, <1>3 DEF TogglePreview, OpenPreview, CameraFails
<1>4. CASE StartEncoder
  BY Zenon, <1>4 DEF StartEncoder, Fails
<1>5. CASE NewSink
  BY Zenon, <1>5 DEF NewSink
<1>6. CASE OpenSink
  BY Zenon, <1>6 DEF OpenSink, Fails
<1>7. CASE UndoOpen
  BY Zenon, <1>7 DEF UndoOpen, EncoderStops
<1>8. CASE StartCamera
  BY Zenon, <1>8 DEF StartCamera, CameraFails
<1>9. CASE UndoClose
  BY Zenon, <1>9 DEF UndoClose
<1>10. CASE UndoReset
  BY Zenon, <1>10 DEF UndoReset
<1>11. CASE UndoEncoder
  BY Zenon, <1>11 DEF UndoEncoder, EncoderStops
<1>12. CASE Orient
  BY Zenon, <1>12 DEF Orient
<1>13. CASE StartSampler
  BY Zenon, <1>13 DEF StartSampler
<1>14. CASE StopComponent
  BY Zenon, <1>14 DEF StopComponent, EncoderStops
<1>15. CASE Stopped
  BY Zenon, <1>15 DEF Stopped, OpenPreview, CameraFails
<1>16. CASE Callbacks
  <2>1. CASE DrainConfig BY Zenon, <2>1 DEF DrainConfig
  <2>2. CASE DrainChunk BY Zenon, <2>2 DEF DrainChunk
  <2>3. CASE DrainReturns BY Zenon, <2>3 DEF DrainReturns
  <2>4. CASE RenderWrite BY Zenon, <2>4 DEF RenderWrite
  <2>5. CASE SamplerWrite BY Zenon, <2>5 DEF SamplerWrite
  <2>6. CASE WriteReturns BY Zenon, <2>6 DEF WriteReturns
  <2>. QED BY <1>16, <2>1, <2>2, <2>3, <2>4, <2>5, <2>6 DEF Callbacks
<1>17. CASE AvailabilityKnown
  BY Zenon, <1>17 DEF AvailabilityKnown, captureVars
<1>18. CASE UNCHANGED vars
  BY Zenon, <1>18 DEF vars, captureVars, phoneVars
<1>. QED BY <1>1, <1>2, <1>3, <1>4, <1>5, <1>6, <1>7, <1>8, <1>9, <1>10, <1>11, <1>12,
            <1>13, <1>14, <1>15, <1>16, <1>17, <1>18 DEF Next, User, Main

LEMMA PlacesStep ==
  Flags /\ Places /\ ComponentsInv /\ [Next]_vars => Places'
<1>. SUFFICES ASSUME Flags /\ Places /\ ComponentsInv,
                     [Next]_vars
              PROVE  Places'
  OBVIOUS
<1>. USE DEF Places, Threads, mainVars, sinkVars, outputVars, uiVars, phoneVars
<1>1. ASSUME NEW mode \in {"save", "stream"}, StartCapture(mode)
      PROVE  Places'
  BY <1>1, ControllerFields DEF StartCapture, ControllerStops, Join, QueriedOrientation
<1>2. CASE StopCapture
  BY <1>2 DEF StopCapture, StopOrder
<1>3. CASE TogglePreview
  <2>1. CASE /\ capturing_ \/ (pressed' /\ controller # NoController)
             /\ controller' = [controller EXCEPT !.preview = pressed']
             /\ UNCHANGED <<thread, sensor_orientation_, failed>>
    <3>1. controller \in Controllers /\ pressed' \in BOOLEAN /\ controller # NoController
      BY <1>3, <2>1, ControllerFields DEF TogglePreview, Flags, Places, ComponentsInv, Has
    <3>2. /\ controller' \in Controllers /\ controller'.backend = controller.backend
          /\ controller'.preview = pressed'
      BY <2>1, <3>1, PreviewSet
    <3>3. pc = "idle" /\ UNCHANGED <<pc, capturing_, preview_was_enabled, encoder, sink, sink_kind,
                                      is_capturing>>
      BY <1>3 DEF TogglePreview
    <3>4. UNCHANGED <<argument, rotation, chunks, codec, fed, config_when>>
      BY <1>3 DEF TogglePreview
    <3>5. failed' <=> failed
      BY Zenon, <2>1
    <3>. QED BY <2>1, <3>1, <3>2, <3>3, <3>4, <3>5 DEF QueriedOrientation
  <2>2. CASE ~capturing_ /\ ~pressed' /\ ControllerStops
             /\ failed' = FALSE /\ UNCHANGED sensor_orientation_
    BY <1>3, <2>2, ControllerFields, OrientationIsQueried DEF TogglePreview,
       ControllerStops, Join, QueriedOrientation
  <2>3. CASE ~capturing_ /\ pressed' /\ controller = NoController /\ OpenPreview
    BY <1>3, <2>3, StartsShape, ControllerFields, OrientationIsQueried
       DEF TogglePreview, OpenPreview, QueriedOrientation
  <2>. QED BY <1>3, <2>1, <2>2, <2>3 DEF TogglePreview
<1>4. CASE StartEncoder
  BY <1>4 DEF StartEncoder
<1>5. CASE NewSink
  BY <1>5 DEF NewSink
<1>6. CASE OpenSink
  BY <1>6 DEF OpenSink
<1>7. CASE UndoOpen
  BY <1>7 DEF UndoOpen, EncoderStops, Join
<1>8. CASE StartCamera
  <2>1. CASE ControllerStarts(TRUE, FALSE)
    <3>1. /\ controller' \in Controllers
          /\ thread' = [thread EXCEPT !["render"] =
                           IF controller'.backend = "arcore" THEN "running" ELSE "off"]
      BY <2>1, StartsShape
    <3>2. thread' \in [Threads -> {"off", "running", "calling"}]
      BY <3>1
    <3>3. pc' \in {"orient", "undo_close"}
      BY <1>8 DEF StartCamera
    <3>. QED BY <1>8, <3>1, <3>2, <3>3 DEF StartCamera
  <2>. QED BY <1>8, <2>1 DEF StartCamera
<1>9. CASE UndoClose
  BY <1>9 DEF UndoClose
<1>10. CASE UndoReset
  BY <1>10 DEF UndoReset
<1>11. CASE UndoEncoder
  BY <1>11 DEF UndoEncoder, EncoderStops, Join
<1>12. CASE Orient
  <2>1. controller \in Controllers /\ preview_was_enabled \in BOOLEAN /\ controller # NoController
    BY <1>12, ControllerFields DEF Orient, Flags, ComponentsInv, Has, Starting, Undoing,
       mainVars, sinkVars, outputVars, uiVars, phoneVars
  <2>. QED BY <1>12, <2>1, PreviewSet, OrientationIsQueried DEF Orient, PreviewRestored,
              OrientationFor
<1>13. CASE StartSampler
  BY <1>13 DEF StartSampler
<1>14. CASE StopComponent
  BY <1>14, StopSteps, ControllerFields DEF StopComponent, ControllerStops, EncoderStops,
     Join
<1>15. CASE Stopped
  BY <1>15, StartsShape, ControllerFields, OrientationIsQueried
     DEF Stopped, OpenPreview, QueriedOrientation
<1>16. CASE Callbacks
  <2>. USE DEF Calls
  <2>1. CASE DrainConfig BY <2>1, <1>16 DEF DrainConfig, Moment
  <2>2. CASE DrainChunk BY <2>2, <1>16 DEF DrainChunk
  <2>3. CASE DrainReturns BY <2>3, <1>16 DEF DrainReturns
  <2>4. CASE RenderWrite BY <2>4, <1>16 DEF RenderWrite
  <2>5. CASE SamplerWrite BY <2>5, <1>16 DEF SamplerWrite
  <2>6. CASE WriteReturns BY <2>6, <1>16 DEF WriteReturns
  <2>. QED BY <1>16, <2>1, <2>2, <2>3, <2>4, <2>5, <2>6 DEF Callbacks
<1>17. CASE AvailabilityKnown
  <2>. UNCHANGED captureVars
    BY Zenon, <1>17 DEF AvailabilityKnown
  <2>. QED BY DEF captureVars
<1>18. CASE UNCHANGED vars
  BY <1>18 DEF vars, captureVars, phoneVars
<1>. QED BY <1>1, <1>2, <1>3, <1>4, <1>5, <1>6, <1>7, <1>8, <1>9, <1>10, <1>11, <1>12,
            <1>13, <1>14, <1>15, <1>16, <1>17, <1>18 DEF Next, User, Main

(* start_capture undoes in reverse what it did, stop_capture the rest.     *)
LEMMA ComponentsStep ==
  Flags /\ Places /\ ComponentsInv /\ [Next]_vars => ComponentsInv'
<1>. SUFFICES ASSUME Flags /\ Places /\ ComponentsInv,
                     [Next]_vars
              PROVE  ComponentsInv'
  OBVIOUS
<1>. USE DEF ComponentsInv, Has, Starting, Undoing, mainVars, sinkVars, outputVars, uiVars,
             phoneVars
<1>1. ASSUME NEW mode \in {"save", "stream"}, StartCapture(mode)
      PROVE  ComponentsInv'
  BY <1>1, ControllerFields DEF StartCapture, ControllerStops, Join
<1>2. CASE StopCapture
  BY <1>2 DEF StopCapture, StopOrder
<1>3. CASE TogglePreview
  <2>. /\ pc = "idle" /\ pc' = "idle" /\ capturing_' = capturing_ /\ is_capturing' = is_capturing
       /\ encoder' = encoder /\ sink' = sink
    BY <1>3 DEF TogglePreview
  <2>1. CASE /\ capturing_ \/ controller # NoController
             /\ controller' = [controller EXCEPT !.preview = pressed']
    <3>1. controller \in Controllers /\ pressed' \in BOOLEAN /\ controller # NoController
      BY <1>3, <2>1, ControllerFields DEF TogglePreview, Flags, Places
    <3>. QED BY <2>1, <3>1, PreviewSet
  <2>2. CASE ~capturing_ /\ ControllerStops
    BY <2>2, ControllerFields DEF ControllerStops
  <2>3. CASE ~capturing_ /\ controller = NoController /\ OpenPreview
    BY <2>3, StartsShape, ControllerFields DEF OpenPreview
  <2>. QED BY <1>3, <2>1, <2>2, <2>3 DEF TogglePreview
<1>4. CASE StartEncoder
  BY <1>4 DEF StartEncoder, Fails
<1>5. CASE NewSink
  BY <1>5 DEF NewSink
<1>6. CASE OpenSink
  BY <1>6 DEF OpenSink, Fails
<1>7. CASE UndoOpen
  BY <1>7 DEF UndoOpen, EncoderStops
<1>8. CASE StartCamera
  BY <1>8, StartsShape, ControllerFields DEF StartCamera, Backends
<1>9. CASE UndoClose
  BY <1>9 DEF UndoClose
<1>10. CASE UndoReset
  BY <1>10 DEF UndoReset
<1>11. CASE UndoEncoder
  BY <1>11 DEF UndoEncoder, EncoderStops
<1>12. CASE Orient
  <2>1. controller \in Controllers /\ preview_was_enabled \in BOOLEAN /\ controller # NoController
    BY <1>12, ControllerFields DEF Orient, Flags, Places
  <2>. QED BY <1>12, <2>1, PreviewSet DEF Orient, PreviewRestored
<1>13. CASE StartSampler
  BY <1>13 DEF StartSampler
<1>14. CASE StopComponent
  BY <1>14, StopSteps, ControllerFields DEF StopComponent, ControllerStops, EncoderStops
<1>15. CASE Stopped
  BY <1>15, StartsShape DEF Stopped, OpenPreview
<1>16. CASE Callbacks
  BY <1>16, CallbacksKeep
<1>17. CASE AvailabilityKnown
  BY <1>17 DEF AvailabilityKnown, captureVars
<1>18. CASE UNCHANGED vars
  BY <1>18 DEF vars, captureVars, phoneVars
<1>. QED BY <1>1, <1>2, <1>3, <1>4, <1>5, <1>6, <1>7, <1>8, <1>9, <1>10, <1>11, <1>12,
            <1>13, <1>14, <1>15, <1>16, <1>17, <1>18 DEF Next, User, Main

(* Join and RenderThread keep the threads with their components.           *)
LEMMA ThreadsStep ==
  Flags /\ Places /\ ComponentsInv /\ ThreadsInv /\ [Next]_vars => ThreadsInv'
<1>. SUFFICES ASSUME Flags /\ Places /\ ComponentsInv /\ ThreadsInv,
                     [Next]_vars
              PROVE  ThreadsInv'
  OBVIOUS
<1>. USE DEF ThreadsInv, ComponentsInv, Has, Threads, Starting, Undoing, mainVars,
             sinkVars, outputVars, uiVars, phoneVars
<1>1. ASSUME NEW mode \in {"save", "stream"}, StartCapture(mode)
      PROVE  ThreadsInv'
  BY <1>1, ControllerFields DEF StartCapture, ControllerStops, Join, Flags, Places
<1>2. CASE StopCapture
  BY <1>2 DEF StopCapture, StopOrder, Flags, Places
<1>3. CASE TogglePreview
  <2>1. CASE /\ capturing_ \/ (pressed' /\ controller # NoController)
             /\ controller' = [controller EXCEPT !.preview = pressed']
             /\ UNCHANGED <<thread, sensor_orientation_, failed>>
    <3>1. controller \in Controllers /\ pressed' \in BOOLEAN /\ controller # NoController
      BY <1>3, <2>1, ControllerFields DEF TogglePreview, Flags, Places, ComponentsInv, Has
    <3>2. /\ controller' \in Controllers /\ controller'.backend = controller.backend
          /\ controller'.preview = pressed'
      BY <2>1, <3>1, PreviewSet
    <3>3. pc = "idle" /\ UNCHANGED <<pc, capturing_, preview_was_enabled, encoder, sink, sink_kind,
                                      is_capturing>>
      BY <1>3 DEF TogglePreview
    <3>4. UNCHANGED <<argument, rotation, chunks, codec, fed, config_when>>
      BY <1>3 DEF TogglePreview
    <3>5. failed' <=> failed
      BY Zenon, <2>1
    <3>. QED BY <2>1, <3>1, <3>2, <3>3, <3>4, <3>5 DEF Flags, Places
  <2>2. CASE ~capturing_ /\ ~pressed' /\ ControllerStops
             /\ failed' = FALSE /\ UNCHANGED sensor_orientation_
    BY <1>3, <2>2, ControllerFields DEF TogglePreview, ControllerStops, Join, Flags, Places
  <2>3. CASE ~capturing_ /\ pressed' /\ controller = NoController /\ OpenPreview
    BY <1>3, <2>3, StartsShape, ControllerFields DEF TogglePreview, OpenPreview, Flags,
       Places
  <2>. QED BY <1>3, <2>1, <2>2, <2>3 DEF TogglePreview
<1>4. CASE StartEncoder
  BY <1>4 DEF StartEncoder, Flags, Places
<1>5. CASE NewSink
  BY <1>5 DEF NewSink
<1>6. CASE OpenSink
  BY <1>6 DEF OpenSink, Fails
<1>7. CASE UndoOpen
  BY <1>7 DEF UndoOpen, EncoderStops, Join, Flags, Places
<1>8. CASE StartCamera
  BY <1>8, StartsShape, ControllerFields DEF StartCamera, Flags, Places
<1>9. CASE UndoClose
  BY <1>9 DEF UndoClose
<1>10. CASE UndoReset
  BY <1>10 DEF UndoReset
<1>11. CASE UndoEncoder
  BY <1>11 DEF UndoEncoder, EncoderStops, Join, Flags, Places
<1>12. CASE Orient
  <2>1. controller \in Controllers /\ preview_was_enabled \in BOOLEAN /\ controller # NoController
    BY <1>12, ControllerFields DEF Orient, Flags, Places, ComponentsInv, Has
  <2>. QED BY <1>12, <2>1, PreviewSet DEF Orient, PreviewRestored, Flags, Places
<1>13. CASE StartSampler
  BY <1>13 DEF StartSampler, Flags, Places
<1>14. CASE StopComponent
  BY <1>14, StopSteps, ControllerFields DEF StopComponent, ControllerStops, EncoderStops,
     Join, Flags, Places
<1>15. CASE Stopped
  BY <1>15, StartsShape, ControllerFields DEF Stopped, OpenPreview, Flags, Places
<1>16. CASE Callbacks
  BY <1>16, CallbacksKeep, CallbacksRun
<1>17. CASE AvailabilityKnown
  BY <1>17 DEF AvailabilityKnown, captureVars
<1>18. CASE UNCHANGED vars
  BY <1>18 DEF vars, captureVars, phoneVars
<1>. QED BY <1>1, <1>2, <1>3, <1>4, <1>5, <1>6, <1>7, <1>8, <1>9, <1>10, <1>11, <1>12,
            <1>13, <1>14, <1>15, <1>16, <1>17, <1>18 DEF Next, User, Main

(* What deletes the sink has joined the threads before.                    *)
LEMMA CallsStep ==
  Flags /\ Places /\ ComponentsInv /\ ThreadsInv /\ CallsInv /\ [Next]_vars => CallsInv'
<1>. SUFFICES ASSUME Flags /\ Places /\ ComponentsInv /\ ThreadsInv /\ CallsInv,
                     [Next]_vars
              PROVE  CallsInv'
  OBVIOUS
<1>. USE DEF ThreadsInv, CallsInv, ComponentsInv, Has, Threads, Starting, Undoing,
             mainVars, sinkVars, outputVars, uiVars, phoneVars
<1>1. ASSUME NEW mode \in {"save", "stream"}, StartCapture(mode)
      PROVE  CallsInv'
  BY <1>1, ControllerFields DEF StartCapture, ControllerStops, Join, Flags, Places
<1>2. CASE StopCapture
  BY <1>2 DEF StopCapture, StopOrder, Flags, Places
<1>3. CASE TogglePreview
  <2>1. CASE /\ capturing_ \/ (pressed' /\ controller # NoController)
             /\ controller' = [controller EXCEPT !.preview = pressed']
             /\ UNCHANGED <<thread, sensor_orientation_, failed>>
    <3>1. controller \in Controllers /\ pressed' \in BOOLEAN /\ controller # NoController
      BY <1>3, <2>1, ControllerFields DEF TogglePreview, Flags, Places, ComponentsInv, Has
    <3>2. /\ controller' \in Controllers /\ controller'.backend = controller.backend
          /\ controller'.preview = pressed'
      BY <2>1, <3>1, PreviewSet
    <3>3. pc = "idle" /\ UNCHANGED <<pc, capturing_, preview_was_enabled, encoder, sink, sink_kind,
                                      is_capturing>>
      BY <1>3 DEF TogglePreview
    <3>4. UNCHANGED <<argument, rotation, chunks, codec, fed, config_when>>
      BY <1>3 DEF TogglePreview
    <3>5. failed' <=> failed
      BY Zenon, <2>1
    <3>. QED BY <2>1, <3>1, <3>2, <3>3, <3>4, <3>5 DEF Flags, Places
  <2>2. CASE ~capturing_ /\ ~pressed' /\ ControllerStops
             /\ failed' = FALSE /\ UNCHANGED sensor_orientation_
    BY <1>3, <2>2, ControllerFields DEF TogglePreview, ControllerStops, Join, Flags, Places
  <2>3. CASE ~capturing_ /\ pressed' /\ controller = NoController /\ OpenPreview
    BY <1>3, <2>3, StartsShape, ControllerFields DEF TogglePreview, OpenPreview, Flags,
       Places
  <2>. QED BY <1>3, <2>1, <2>2, <2>3 DEF TogglePreview
<1>4. CASE StartEncoder
  BY <1>4 DEF StartEncoder, Flags, Places
<1>5. CASE NewSink
  BY <1>5 DEF NewSink
<1>6. CASE OpenSink
  BY <1>6 DEF OpenSink, Fails
<1>7. CASE UndoOpen
  BY <1>7, ControllerFields DEF UndoOpen, EncoderStops, Join, Flags, Places
<1>8. CASE StartCamera
  BY <1>8, StartsShape, ControllerFields DEF StartCamera, Flags, Places
<1>9. CASE UndoClose
  BY <1>9 DEF UndoClose
<1>10. CASE UndoReset
  BY <1>10 DEF UndoReset
<1>11. CASE UndoEncoder
  BY <1>11, ControllerFields DEF UndoEncoder, EncoderStops, Join, Flags, Places
<1>12. CASE Orient
  <2>1. controller \in Controllers /\ preview_was_enabled \in BOOLEAN /\ controller # NoController
    BY <1>12, ControllerFields DEF Orient, Flags, Places, ComponentsInv, Has
  <2>. QED BY <1>12, <2>1, PreviewSet DEF Orient, PreviewRestored, Flags, Places
<1>13. CASE StartSampler
  BY <1>13 DEF StartSampler, Flags, Places
<1>14. CASE StopComponent
  BY <1>14, StopSteps, ControllerFields DEF StopComponent, ControllerStops, EncoderStops,
     Join, Flags, Places
<1>15. CASE Stopped
  BY <1>15, StartsShape, ControllerFields DEF Stopped, OpenPreview, Flags, Places
<1>16. CASE Callbacks
  BY <1>16, CallbacksKeep, CallbacksRun
<1>17. CASE AvailabilityKnown
  BY <1>17 DEF AvailabilityKnown, captureVars
<1>18. CASE UNCHANGED vars
  BY <1>18 DEF vars, captureVars, phoneVars
<1>. QED BY <1>1, <1>2, <1>3, <1>4, <1>5, <1>6, <1>7, <1>8, <1>9, <1>10, <1>11, <1>12,
            <1>13, <1>14, <1>15, <1>16, <1>17, <1>18 DEF Next, User, Main

LEMMA OrientationStep ==
  Flags /\ Places /\ ComponentsInv /\ OrientationInv /\ [Next]_vars => OrientationInv'
<1>. SUFFICES ASSUME Flags /\ Places /\ ComponentsInv /\ OrientationInv,
                     [Next]_vars
              PROVE  OrientationInv'
  OBVIOUS
<1>. USE DEF OrientationInv, ComponentsInv, Has, Starting, Undoing, mainVars, sinkVars,
             outputVars, uiVars, phoneVars
<1>1. ASSUME NEW mode \in {"save", "stream"}, StartCapture(mode)
      PROVE  OrientationInv'
  BY <1>1, ControllerFields DEF StartCapture, ControllerStops, QueriedOrientation
<1>2. CASE StopCapture
  BY <1>2 DEF StopCapture, StopOrder
<1>3. CASE TogglePreview
  <2>1. CASE /\ capturing_ \/ (pressed' /\ controller # NoController)
             /\ controller' = [controller EXCEPT !.preview = pressed']
             /\ UNCHANGED <<thread, sensor_orientation_, failed>>
    <3>1. controller \in Controllers /\ pressed' \in BOOLEAN /\ controller # NoController
      BY <1>3, <2>1, ControllerFields DEF TogglePreview, Flags, Places, ComponentsInv, Has
    <3>2. /\ controller' \in Controllers /\ controller'.backend = controller.backend
          /\ controller'.preview = pressed'
      BY <2>1, <3>1, PreviewSet
    <3>3. pc = "idle" /\ UNCHANGED <<pc, capturing_, preview_was_enabled, encoder, sink, sink_kind,
                                      is_capturing>>
      BY <1>3 DEF TogglePreview
    <3>4. UNCHANGED <<argument, rotation, chunks, codec, fed, config_when>>
      BY <1>3 DEF TogglePreview
    <3>5. failed' <=> failed
      BY Zenon, <2>1
    <3>. QED BY <2>1, <3>1, <3>2, <3>3, <3>4, <3>5 DEF QueriedOrientation
  <2>2. CASE ~capturing_ /\ ~pressed' /\ ControllerStops
             /\ failed' = FALSE /\ UNCHANGED sensor_orientation_
    BY <1>3, <2>2, ControllerFields DEF TogglePreview, ControllerStops, Join,
       QueriedOrientation
  <2>3. CASE ~capturing_ /\ pressed' /\ controller = NoController /\ OpenPreview
    BY <1>3, <2>3, StartsShape, ControllerFields DEF TogglePreview, OpenPreview,
       QueriedOrientation
  <2>. QED BY <1>3, <2>1, <2>2, <2>3 DEF TogglePreview
<1>4. CASE StartEncoder
  BY <1>4 DEF StartEncoder
<1>5. CASE NewSink
  BY <1>5 DEF NewSink
<1>6. CASE OpenSink
  BY <1>6, ControllerFields DEF OpenSink
<1>7. CASE UndoOpen
  BY <1>7 DEF UndoOpen, EncoderStops
<1>8. CASE StartCamera
  BY <1>8, StartsShape, ControllerFields DEF StartCamera
<1>9. CASE UndoClose
  BY <1>9 DEF UndoClose
<1>10. CASE UndoReset
  BY <1>10 DEF UndoReset
<1>11. CASE UndoEncoder
  BY <1>11 DEF UndoEncoder, EncoderStops
<1>12. CASE Orient
  <2>1. controller \in Controllers /\ preview_was_enabled \in BOOLEAN /\ controller # NoController
    BY <1>12, ControllerFields DEF Orient, Flags, Places, ComponentsInv, Has
  <2>. QED BY <1>12, <2>1, PreviewSet DEF Orient, PreviewRestored, Flags, Places,
              OrientationFor
<1>13. CASE StartSampler
  BY <1>13 DEF StartSampler
<1>14. CASE StopComponent
  BY <1>14, StopSteps, ControllerFields DEF StopComponent, ControllerStops, EncoderStops
<1>15. CASE Stopped
  BY <1>15, StartsShape, ControllerFields DEF Stopped, OpenPreview, QueriedOrientation
<1>16. CASE Callbacks
  BY <1>16, CallbacksKeep
<1>17. CASE AvailabilityKnown
  BY <1>17 DEF AvailabilityKnown, captureVars
<1>18. CASE UNCHANGED vars
  BY <1>18 DEF vars, captureVars, phoneVars
<1>. QED BY <1>1, <1>2, <1>3, <1>4, <1>5, <1>6, <1>7, <1>8, <1>9, <1>10, <1>11, <1>12,
            <1>13, <1>14, <1>15, <1>16, <1>17, <1>18 DEF Next, User, Main

(* The drain thread is one thread: its config goes ahead of its frames.    *)
LEMMA ConfigStep ==
  Flags /\ Places /\ ComponentsInv /\ ThreadsInv /\ OrientationInv /\ ConfigInv /\ [Next]_vars => ConfigInv'
<1>. SUFFICES ASSUME Flags /\ Places /\ ComponentsInv /\ ThreadsInv /\ OrientationInv /\ ConfigInv,
                     [Next]_vars
              PROVE  ConfigInv'
  OBVIOUS
<1>. USE DEF ConfigInv, Right, OrientationInv, ComponentsInv, Has, Starting, Undoing,
             mainVars, sinkVars, outputVars, uiVars, phoneVars
<1>1. ASSUME NEW mode \in {"save", "stream"}, StartCapture(mode)
      PROVE  ConfigInv'
  BY <1>1, ControllerFields DEF StartCapture, ControllerStops, Join
<1>2. CASE StopCapture
  BY <1>2 DEF StopCapture, StopOrder
<1>3. CASE TogglePreview
  <2>1. CASE /\ capturing_ \/ (pressed' /\ controller # NoController)
             /\ controller' = [controller EXCEPT !.preview = pressed']
             /\ UNCHANGED <<thread, sensor_orientation_, failed>>
    <3>1. controller \in Controllers /\ pressed' \in BOOLEAN /\ controller # NoController
      BY <1>3, <2>1, ControllerFields DEF TogglePreview, Flags, Places, ComponentsInv, Has
    <3>2. /\ controller' \in Controllers /\ controller'.backend = controller.backend
          /\ controller'.preview = pressed'
      BY <2>1, <3>1, PreviewSet
    <3>3. pc = "idle" /\ UNCHANGED <<pc, capturing_, preview_was_enabled, encoder, sink, sink_kind,
                                      is_capturing>>
      BY <1>3 DEF TogglePreview
    <3>4. UNCHANGED <<argument, rotation, chunks, codec, fed, config_when>>
      BY <1>3 DEF TogglePreview
    <3>5. failed' <=> failed
      BY Zenon, <2>1
    <3>. QED BY <2>1, <3>1, <3>2, <3>3, <3>4, <3>5 DEF Places, Threads
  <2>2. CASE ~capturing_ /\ ~pressed' /\ ControllerStops
             /\ failed' = FALSE /\ UNCHANGED sensor_orientation_
    BY <1>3, <2>2, ControllerFields DEF TogglePreview, ControllerStops, Join, Places,
       Threads
  <2>3. CASE ~capturing_ /\ pressed' /\ controller = NoController /\ OpenPreview
    BY <1>3, <2>3, StartsShape, ControllerFields DEF TogglePreview, OpenPreview, Places,
       Threads
  <2>. QED BY <1>3, <2>1, <2>2, <2>3 DEF TogglePreview
<1>4. CASE StartEncoder
  BY <1>4 DEF StartEncoder, Places, Threads
<1>5. CASE NewSink
  BY <1>5 DEF NewSink
<1>6. CASE OpenSink
  BY <1>6 DEF OpenSink, Places
<1>7. CASE UndoOpen
  BY <1>7 DEF UndoOpen, EncoderStops, Join, Places, Threads
<1>8. CASE StartCamera
  BY <1>8, StartsShape, ControllerFields DEF StartCamera, Places, Threads
<1>9. CASE UndoClose
  BY <1>9 DEF UndoClose
<1>10. CASE UndoReset
  BY <1>10 DEF UndoReset
<1>11. CASE UndoEncoder
  BY <1>11 DEF UndoEncoder, EncoderStops, Join, Places, Threads
<1>12. CASE Orient
  <2>1. controller \in Controllers /\ preview_was_enabled \in BOOLEAN /\ controller # NoController
    BY <1>12, ControllerFields DEF Orient, Flags, Places, ComponentsInv, Has
  <2>. QED BY <1>12, <2>1, PreviewSet DEF Orient, PreviewRestored, Flags, Places
<1>13. CASE StartSampler
  BY <1>13 DEF StartSampler, Places, Threads
<1>14. CASE StopComponent
  BY <1>14, StopSteps, ControllerFields DEF StopComponent, ControllerStops, EncoderStops,
     Join, Places, Threads
<1>15. CASE Stopped
  BY <1>15, StartsShape, ControllerFields DEF Stopped, OpenPreview, Places, Threads
<1>16. CASE Callbacks
  <2>. USE DEF Calls, Places, Threads
  <2>1. CASE DrainConfig
    <3>1. sensor_orientation_ # -1
      BY CaptureAssumption
    <3>. QED BY <2>1, <3>1 DEF DrainConfig, Moment
  <2>2. CASE DrainChunk BY <2>2 DEF DrainChunk
  <2>3. CASE DrainReturns BY <2>3 DEF DrainReturns
  <2>4. CASE RenderWrite BY <2>4 DEF RenderWrite
  <2>5. CASE SamplerWrite BY <2>5 DEF SamplerWrite
  <2>6. CASE WriteReturns BY <2>6 DEF WriteReturns
  <2>. QED BY <1>16, <2>1, <2>2, <2>3, <2>4, <2>5, <2>6 DEF Callbacks
<1>17. CASE AvailabilityKnown
  BY <1>17 DEF AvailabilityKnown, captureVars
<1>18. CASE UNCHANGED vars
  BY <1>18 DEF vars, captureVars, phoneVars
<1>. QED BY <1>1, <1>2, <1>3, <1>4, <1>5, <1>6, <1>7, <1>8, <1>9, <1>10, <1>11, <1>12,
            <1>13, <1>14, <1>15, <1>16, <1>17, <1>18 DEF Next, User, Main

LEMMA PreviewStep ==
  Flags /\ Places /\ ComponentsInv /\ PreviewInv /\ [Next]_vars => PreviewInv'
<1>. SUFFICES ASSUME Flags /\ Places /\ ComponentsInv /\ PreviewInv,
                     [Next]_vars
              PROVE  PreviewInv'
  OBVIOUS
<1>. USE DEF PreviewInv, ComponentsInv, Has, Starting, Undoing, mainVars, sinkVars,
             outputVars, uiVars, phoneVars
<1>1. ASSUME NEW mode \in {"save", "stream"}, StartCapture(mode)
      PROVE  PreviewInv'
  BY <1>1, ControllerFields DEF StartCapture, ControllerStops
<1>2. CASE StopCapture
  BY <1>2 DEF StopCapture, StopOrder
<1>3. CASE TogglePreview
  <2>1. CASE /\ capturing_ \/ (pressed' /\ controller # NoController)
             /\ controller' = [controller EXCEPT !.preview = pressed']
             /\ UNCHANGED <<thread, sensor_orientation_, failed>>
    <3>1. controller \in Controllers /\ pressed' \in BOOLEAN /\ controller # NoController
      BY <1>3, <2>1, ControllerFields DEF TogglePreview, Flags, Places, ComponentsInv, Has
    <3>2. /\ controller' \in Controllers /\ controller'.backend = controller.backend
          /\ controller'.preview = pressed'
      BY <2>1, <3>1, PreviewSet
    <3>3. pc = "idle" /\ UNCHANGED <<pc, capturing_, preview_was_enabled, encoder, sink, sink_kind,
                                      is_capturing>>
      BY <1>3 DEF TogglePreview
    <3>4. UNCHANGED <<argument, rotation, chunks, codec, fed, config_when>>
      BY <1>3 DEF TogglePreview
    <3>5. failed' <=> failed
      BY Zenon, <2>1
    <3>. QED BY <2>1, <3>1, <3>2, <3>3, <3>4, <3>5 DEF CameraFails, Flags
  <2>2. CASE ~capturing_ /\ ~pressed' /\ ControllerStops
             /\ failed' = FALSE /\ UNCHANGED sensor_orientation_
    BY <1>3, <2>2, ControllerFields DEF TogglePreview, ControllerStops, Join, CameraFails,
       Flags
  <2>3. CASE ~capturing_ /\ pressed' /\ controller = NoController /\ OpenPreview
    BY <1>3, <2>3, StartsShape, ControllerFields DEF TogglePreview, OpenPreview,
       CameraFails, Flags
  <2>. QED BY <1>3, <2>1, <2>2, <2>3 DEF TogglePreview
<1>4. CASE StartEncoder
  BY <1>4 DEF StartEncoder, Fails
<1>5. CASE NewSink
  BY <1>5 DEF NewSink
<1>6. CASE OpenSink
  BY <1>6 DEF OpenSink, Fails
<1>7. CASE UndoOpen
  BY <1>7 DEF UndoOpen, EncoderStops
<1>8. CASE StartCamera
  BY <1>8, StartsShape, ControllerFields DEF StartCamera, CameraFails
<1>9. CASE UndoClose
  BY <1>9 DEF UndoClose
<1>10. CASE UndoReset
  BY <1>10 DEF UndoReset
<1>11. CASE UndoEncoder
  BY <1>11 DEF UndoEncoder, EncoderStops
<1>12. CASE Orient
  <2>1. controller \in Controllers /\ preview_was_enabled \in BOOLEAN /\ controller # NoController
    BY <1>12, ControllerFields DEF Orient, Flags, Places, ComponentsInv, Has
  <2>. QED BY <1>12, <2>1, PreviewSet DEF Orient, PreviewRestored, Flags
<1>13. CASE StartSampler
  BY <1>13 DEF StartSampler
<1>14. CASE StopComponent
  BY <1>14, StopSteps, ControllerFields DEF StopComponent, ControllerStops, EncoderStops
<1>15. CASE Stopped
  BY <1>15, StartsShape, ControllerFields DEF Stopped, OpenPreview, CameraFails, Flags
<1>16. CASE Callbacks
  BY <1>16, CallbacksKeep
<1>17. CASE AvailabilityKnown
  BY <1>17 DEF AvailabilityKnown, captureVars
<1>18. CASE UNCHANGED vars
  BY <1>18 DEF vars, captureVars, phoneVars
<1>. QED BY <1>1, <1>2, <1>3, <1>4, <1>5, <1>6, <1>7, <1>8, <1>9, <1>10, <1>11, <1>12,
            <1>13, <1>14, <1>15, <1>16, <1>17, <1>18 DEF Next, User, Main

-----------------------------------------------------------------------------
LEMMA IInvInit == Init => IInv
<1>. SUFFICES ASSUME Init PROVE IInv
  OBVIOUS
<1>1. Flags
  BY Zenon DEF Init, Flags
<1>2. Places
  BY ControllerFields DEF Init, Places, Threads
<1>3. Phone
  BY Zenon DEF Init, Phone
<1>4. ThreadsInv
  BY ControllerFields DEF Init, ThreadsInv, Threads
<1>5. ComponentsInv
  BY ControllerFields DEF Init, ComponentsInv, Has, Starting, Undoing
<1>6. CallsInv
  BY DEF Init, CallsInv
<1>7. OrientationInv /\ ConfigInv
  BY DEF Init, OrientationInv, ConfigInv, Starting, Threads
<1>8. PreviewInv
  BY ControllerFields DEF Init, PreviewInv, Starting, Undoing
<1>. QED BY <1>1, <1>2, <1>3, <1>4, <1>5, <1>6, <1>7, <1>8, TypeParts DEF IInv

LEMMA IInvStep == IInv /\ [Next]_vars => IInv'
<1>. SUFFICES ASSUME IInv, [Next]_vars PROVE IInv'
  OBVIOUS
<1>1. Flags /\ Places /\ Phone
  BY TypeParts DEF IInv
<1>2. Flags' /\ Places' /\ Phone'
  BY <1>1, FlagsStep, PlacesStep, PhoneStep DEF IInv
<1>3. TypeOK'
  BY Zenon, <1>2 DEF TypeOK, Flags, Places, Phone
<1>. QED BY <1>1, <1>3, ComponentsStep, ThreadsStep, CallsStep, OrientationStep, ConfigStep,
            PreviewStep DEF IInv

LEMMA Inductive == Spec => []IInv
<1>1. IInv /\ [Next]_vars => IInv'
  BY IInvStep
<1>. QED BY <1>1, IInvInit, PTL DEF Spec

-----------------------------------------------------------------------------
(* Every member of the capture, every thread and every button has its type,*)
(* whichever components may fail.                                          *)
THEOREM CaptureTypeCorrect == Spec => []TypeOK
<1>1. IInv => TypeOK
  BY DEF IInv
<1>. QED BY <1>1, Inductive, PTL

(* Between two commands the components of a capture are all there or all   *)
(* gone and Main.gd knows which: start_capture undoes what it had started  *)
(* wherever it fails, and stop_capture forgets nothing.                    *)
THEOREM CaptureIsAllOrNothing == Spec => []AllOrNothing
<1>1. IInv => AllOrNothing
  <2>. SUFFICES ASSUME IInv, pc = "idle"
                PROVE  AllOrNothing
    BY DEF AllOrNothing
  <2>. USE DEF IInv, TypeOK, ComponentsInv, Has, ThreadsInv
  <2>1. capturing_ = is_capturing
    <3>1. capturing_ \in BOOLEAN /\ is_capturing \in BOOLEAN /\ (capturing_ <=> is_capturing)
      BY Zenon
    <3>2. CASE capturing_ = TRUE /\ is_capturing = TRUE
      BY <3>2
    <3>3. CASE capturing_ = FALSE /\ is_capturing = FALSE
      BY <3>3
    <3>. QED BY ONLY <3>1, <3>2, <3>3
  <2>2. (thread["drain"] # "off") = encoder
    BY Zenon
  <2>3. (thread["render"] # "off") = (controller.backend = "arcore")
    BY Zenon
  <2>4. /\ capturing_ => encoder /\ sink = "open" /\ controller.encoding
        /\ ~capturing_ => ~encoder /\ sink = "none" /\ ~controller.encoding
        /\ thread["sampler"] # "off" => capturing_
    BY Zenon
  <2>. QED BY Zenon, <2>1, <2>2, <2>3, <2>4 DEF AllOrNothing
<1>. QED BY <1>1, Inductive, PTL

(* The drain, render and sensor threads test sink_ and call it without a   *)
(* lock; stop_capture joins each of them before it deletes the sink, so    *)
(* that none is ever inside a sink that is closed or gone, but for the     *)
(* undoing of a camera that did not start.                                 *)
THEOREM ThreadsCallAnOpenSink == Spec => []CallsFindAnOpenSink
<1>1. IInv => CallsFindAnOpenSink
  <2>. SUFFICES ASSUME IInv, NEW t \in Threads, thread[t] = "calling",
                       pc \notin {"undo_reset", "undo_encoder"}
                PROVE  sink \in {"new", "open"}
    BY DEF CallsFindAnOpenSink
  <2>1. sink \in {"none", "new", "open", "closed"} /\ sink # "none"
    BY TypeParts DEF IInv, Places, CallsInv
  <2>2. sink # "closed"
    BY TypeParts DEF IInv, Places, ComponentsInv, Has, Starting, Undoing
  <2>. QED BY <2>1, <2>2
<1>. QED BY <1>1, Inductive, PTL

(* on_encoder_config and on_encoded_chunk come from one thread: a config   *)
(* given to an open sink is there before any frame, with the rotation of   *)
(* the backend that takes the frames.                                      *)
THEOREM ConfigPrecedesItsFrames == Spec => []FramesHaveTheirConfig
<1>1. IInv => FramesHaveTheirConfig
  <2>. SUFFICES ASSUME IInv, sink = "open", chunks, config_when # "early"
                PROVE  /\ rotation # -1
                       /\ controller.backend = "camera2" => rotation = SensorOrientation
                       /\ controller.backend = "arcore" /\ config_when = "late" => rotation = 0
    BY DEF FramesHaveTheirConfig
  <2>1. config_when \in {"racing", "late"}
    BY TypeParts DEF IInv, Places, ConfigInv
  <2>2. Right(rotation)
    BY <2>1 DEF IInv, ConfigInv
  <2>. QED BY <2>1, <2>2 DEF Right, OrientationFor
<1>. QED BY <1>1, Inductive, PTL

(* The preview is on while its button is pressed, through every capture    *)
(* and every toggle, as long as nothing fails to start.                    *)
THEOREM PreviewFollowsItsButton == Spec => []PreviewSurvivesCaptures
<1>1. IInv => PreviewSurvivesCaptures
  BY Zenon DEF IInv, PreviewInv, PreviewSurvivesCaptures, PreviewIsOn
<1>. QED BY <1>1, Inductive, PTL
=============================================================================
