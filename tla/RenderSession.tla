--------------------------- MODULE RenderSession ----------------------------
(***************************************************************************)
(* The ARCore backend of a capture: CaptureController's choice and fall    *)
(* back, ArCoreCaptureSession with its render thread, and the EGL objects  *)
(* of its GlBlitRenderer (src/mobile/native/src/capture/android/).         *)
(*                                                                         *)
(* Two threads: main, which starts and stops, and the render thread, on    *)
(* which the camera image is drawn to the encoder's Surface.  An EGL       *)
(* context is current on one thread at a time; a Surface takes the images  *)
(* of one producer.  The end of a thread releases its context, and an      *)
(* eglMakeCurrent that fails leaves what was current (external).  Whether  *)
(* the EGL display stays initialized, and what becomes of a drawn frame    *)
(* when eglSwapBuffers fails, is left out.                                 *)
(***************************************************************************)
EXTENDS Naturals

CONSTANT Failing    \* which may fail; "switch": eglMakeCurrent in the loop
ASSUME FailingAssumption ==
    Failing \subseteq {"session", "gl", "window", "resume", "fbo", "switch", "camera2"}

VARIABLES
    main,               \* where start, stop or the destructor is
    override,           \* debug.arstream.capture_backend
    surface,            \* is encoder_surface given?  A preview has none.
    arcore_session_,    \* does the ArCoreCaptureSession exist?
    camera2_session_,
    session_,           \* "null", "created", "resumed"
    frame_,             \* is it non-null?
    running_,
    preview_enabled_,
    intrinsics_reported_,
    render,             \* where render_loop is
    init_result,        \* the promise: "unset", "ok", "error"
    egl,                \* the EGL objects that exist
    current,            \* the thread that has the context, and its surface
    fbo,                \* "none", or what its last check found
    slips               \* history: failures since the window was last current, up to 2

controllerVars == <<override, surface, arcore_session_, camera2_session_>>
sessionVars == <<session_, frame_, running_, intrinsics_reported_>>
glVars == <<egl, current, fbo, slips>>
vars == <<main, controllerVars, sessionVars, preview_enabled_, render, init_result, glVars>>

EglObjects == {"context", "pbuffer", "window"}
Released == [thread |-> "none", surface |-> "none"]
OnRender(s) == [thread |-> "render", surface |-> s]

Init ==
    /\ main = "idle" /\ override = "" /\ surface = FALSE
    /\ arcore_session_ = FALSE /\ camera2_session_ = FALSE
    /\ session_ = "null" /\ frame_ = FALSE /\ running_ = FALSE
    /\ preview_enabled_ = FALSE /\ intrinsics_reported_ = FALSE
    /\ render = "none" /\ init_result = "unset"
    /\ egl = {} /\ current = Released /\ fbo = "none" /\ slips = 0

-----------------------------------------------------------------------------
(* The main thread: CaptureController::start and ArCoreCaptureSession::    *)
(* start, which waits for the render thread's set-up.                      *)

(* Without an override ARCore is wanted where it is installed.             *)
Start(chosen, given) ==
    /\ main = "idle" /\ ~arcore_session_ /\ ~camera2_session_
    /\ override' = chosen /\ surface' = given
    /\ \/ chosen # "camera2" /\ arcore_session_' = TRUE /\ main' = "create"
       \/ chosen # "arcore" /\ arcore_session_' = FALSE /\ main' = "camera2"
    /\ preview_enabled_' = FALSE
    /\ UNCHANGED <<camera2_session_, sessionVars, render, init_result, glVars>>

CreateSession ==
    /\ main = "create"
    /\ session_' = "created" /\ frame_' = TRUE
    /\ running_' = TRUE /\ intrinsics_reported_' = FALSE
    /\ init_result' = "unset" /\ render' = "init"
    /\ main' = "await"
    /\ UNCHANGED <<controllerVars, preview_enabled_, glVars>>

(* Session creation or configuration fails; nothing is kept.               *)
CreateFails ==
    /\ main = "create" /\ "session" \in Failing
    /\ main' = "fall_back"
    /\ UNCHANGED <<controllerVars, sessionVars, preview_enabled_, render, init_result, glVars>>

Started ==
    /\ main = "await" /\ init_result = "ok"
    /\ main' = "idle"
    /\ UNCHANGED <<controllerVars, sessionVars, preview_enabled_, render, init_result, glVars>>

NotStarted ==
    /\ main = "await" /\ init_result = "error"
    /\ running_' = FALSE
    /\ main' = "undo"
    /\ UNCHANGED <<controllerVars, session_, frame_, intrinsics_reported_, preview_enabled_,
                   render, init_result, glVars>>

Joined == render \in {"none", "ended"}

Undo ==
    /\ main = "undo" /\ Joined
    /\ frame_' = FALSE /\ session_' = "null"
    /\ main' = "fall_back"
    /\ UNCHANGED <<controllerVars, running_, intrinsics_reported_, preview_enabled_,
                   render, init_result, glVars>>

(* unbind_window, on the thread that calls it.                             *)
WindowUnbound ==
    IF "window" \in egl
    THEN [egl |-> egl \ {"window"},
          current |-> IF "context" \in egl THEN [thread |-> "main", surface |-> "pbuffer"]
                      ELSE current]
    ELSE [egl |-> egl, current |-> current]

(* Faulty variant: the destructor leaves the window to stop().             *)
RendererGoneButWindow == egl \cap {"window"}
(* ~GlBlitRenderer: the window, the pbuffer and the context.               *)
RendererGone == {}

(* The session's destructor: stop(), which finds no thread and no session, *)
(* and then the renderer's.                                                *)
Destroy ==
    /\ arcore_session_' = FALSE
    /\ running_' = FALSE /\ render' = "none"
    /\ egl' = RendererGone /\ current' = Released /\ fbo' = "none" /\ slips' = 0

(* Faulty variant: the failed session is kept until stop().                *)
FallBackKeeps ==
    UNCHANGED <<arcore_session_, running_, render, egl, current, fbo, slips>>
(* arcore_session_.reset()                                                 *)
FallBackDestroys == Destroy

FallBack ==
    /\ main = "fall_back"
    /\ FallBackDestroys
    /\ main' = IF override = "arcore" THEN "idle" ELSE "camera2"
    /\ UNCHANGED <<override, surface, camera2_session_, session_, frame_,
                   intrinsics_reported_, preview_enabled_, init_result>>

StartCamera2 ==
    /\ main = "camera2"
    /\ camera2_session_' \in {TRUE} \cup (IF "camera2" \in Failing THEN {FALSE} ELSE {})
    /\ main' = "idle"
    /\ UNCHANGED <<override, surface, arcore_session_, sessionVars, preview_enabled_,
                   render, init_result, glVars>>

(* set_preview_enabled, from the main thread.                              *)
TogglePreview ==
    /\ main = "idle" /\ arcore_session_
    /\ preview_enabled_' = ~preview_enabled_
    /\ UNCHANGED <<main, controllerVars, sessionVars, render, init_result, glVars>>

-----------------------------------------------------------------------------
(* The main thread: CaptureController::stop.                               *)

Stop ==
    /\ main = "idle" /\ arcore_session_
    /\ running_' = FALSE
    /\ main' = "join"
    /\ UNCHANGED <<controllerVars, session_, frame_, intrinsics_reported_, preview_enabled_,
                   render, init_result, glVars>>

(* Faulty variant: stop() does not wait for the render thread.             *)
MayRelease == TRUE
(* render_thread_.join()                                                   *)
StopReleases == Joined

ReleaseSession ==
    /\ main = "join" /\ StopReleases
    /\ session_' = "null" /\ frame_' = FALSE
    /\ egl' = WindowUnbound.egl /\ current' = WindowUnbound.current
    /\ main' = "destroy"
    /\ UNCHANGED <<controllerVars, running_, intrinsics_reported_, preview_enabled_, render,
                   init_result, fbo, slips>>

DestroySession ==
    /\ main = "destroy"
    /\ Destroy
    /\ main' = "idle"
    /\ UNCHANGED <<override, surface, camera2_session_, session_, frame_,
                   intrinsics_reported_, preview_enabled_, init_result>>

StopCamera2 ==
    /\ main = "idle" /\ camera2_session_
    /\ camera2_session_' = FALSE
    /\ UNCHANGED <<main, override, surface, arcore_session_, sessionVars, preview_enabled_,
                   render, init_result, glVars>>

-----------------------------------------------------------------------------
(* The render thread: render_loop.                                         *)

(* Faulty variant: the caller is not told of a failure.                    *)
FailQuietly == init_result' = init_result
(* init_result.set_value(error)                                            *)
FailAloud == init_result' = "error"

(* The thread returns; its context is released.                            *)
Return ==
    /\ render' = "ended"
    /\ current' = IF current.thread = "render" THEN Released ELSE current

SetUpFails ==
    /\ FailAloud
    /\ render' = "ended" /\ current' = Released
    /\ UNCHANGED <<main, controllerVars, sessionVars, preview_enabled_, fbo, slips>>

InitRenderer ==
    /\ render = "init"
    /\ egl' = {"context", "pbuffer"} /\ current' = OnRender("pbuffer")
    /\ render' = "bind"
    /\ UNCHANGED <<main, controllerVars, sessionVars, preview_enabled_, init_result, fbo, slips>>

(* The display or the context, the pbuffer, or the shaders.                *)
InitFails ==
    /\ render = "init" /\ "gl" \in Failing
    /\ egl' \in {{}, {"context"}, {"context", "pbuffer"}}
    /\ SetUpFails

BindWindow ==
    /\ render = "bind" /\ surface
    /\ egl' = egl \cup {"window"} /\ current' = OnRender("window") /\ slips' = 0
    /\ render' = "resume"
    /\ UNCHANGED <<main, controllerVars, sessionVars, preview_enabled_, init_result, fbo>>

(* A preview has no Surface to draw to; or the window surface cannot be    *)
(* created, or made current.                                               *)
BindFails ==
    /\ render = "bind"
    /\ \/ ~surface /\ UNCHANGED egl
       \/ surface /\ "window" \in Failing /\ egl' \in {egl, egl \cup {"window"}}
    /\ SetUpFails

Resume ==
    /\ render = "resume"
    /\ session_' = "resumed"
    /\ init_result' = "ok"
    /\ render' = "update"
    /\ UNCHANGED <<main, controllerVars, frame_, running_, intrinsics_reported_,
                   preview_enabled_, glVars>>

ResumeFails ==
    /\ render = "resume" /\ "resume" \in Failing
    /\ SetUpFails /\ UNCHANGED egl

(* An image of the camera.  If ArSession_update fails, or there is no image*)
(* yet, the loop goes round.                                               *)
Update ==
    /\ render = "update" /\ running_
    /\ render' = "blit"
    /\ UNCHANGED <<main, controllerVars, sessionVars, preview_enabled_, init_result, glVars>>

LoopEnds ==
    /\ render = "update" /\ ~running_
    /\ Return
    /\ UNCHANGED <<main, controllerVars, sessionVars, preview_enabled_, init_result, egl,
                   fbo, slips>>

(* Did eglMakeCurrent work?  In the loop nobody asks.                      *)
Switched == IF "switch" \in Failing THEN BOOLEAN ELSE {TRUE}

(* A call that should have left s current has failed, or has not.          *)
Slips(s, failed) ==
    IF s.surface = "window" THEN 0
    ELSE IF failed /\ slips < 2 THEN slips + 1 ELSE slips

(* Faulty variant: what is current is drawn to.                            *)
DrawsToCurrent == current
(* eglMakeCurrent(window_surface_)                                         *)
DrawsTo == OnRender("window")

(* The frame is drawn to whatever is current then.                         *)
BlitToWindow ==
    /\ render = "blit"
    /\ IF "window" \in egl
       THEN \E ok \in Switched :
               /\ current' = IF ok THEN DrawsTo ELSE current
               /\ slips' = Slips(current', ~ok)
       ELSE UNCHANGED <<current, slips>>
    /\ render' = "preview"
    /\ UNCHANGED <<main, controllerVars, sessionVars, preview_enabled_, init_result, egl, fbo>>

(* blit_to_rgba_buffer, on the pbuffer.  A framebuffer is checked when it  *)
(* is made, and kept whatever the check said; after a failed one the       *)
(* window is not made current again.                                       *)
Preview ==
    /\ render = "preview"
    /\ \/ ~preview_enabled_ /\ UNCHANGED <<fbo, current, slips>>
       \/ /\ preview_enabled_
          /\ \E ok \in Switched :
                LET on == IF ok THEN OnRender("pbuffer") ELSE current IN
                \/ /\ fbo = "none" /\ "fbo" \in Failing
                   /\ fbo' = "incomplete" /\ current' = on
                   /\ slips' = Slips(current', TRUE)
                \/ /\ fbo' = IF fbo = "none" THEN "complete" ELSE fbo
                   /\ \E back \in Switched :
                         /\ current' = IF back /\ "window" \in egl THEN OnRender("window")
                                       ELSE on
                         /\ slips' = Slips(current', ~back)
    /\ render' = "extract"
    /\ UNCHANGED <<main, controllerVars, sessionVars, preview_enabled_, init_result, egl>>

(* Pose, point cloud, and the intrinsics until they are valid.             *)
Extract ==
    /\ render = "extract"
    /\ intrinsics_reported_' \in {TRUE, intrinsics_reported_}
    /\ render' = "update"
    /\ UNCHANGED <<main, controllerVars, session_, frame_, running_, preview_enabled_,
                   init_result, glVars>>

-----------------------------------------------------------------------------
Calls ==
    \/ \E chosen \in {"arcore", "camera2", ""}, given \in BOOLEAN : Start(chosen, given)
    \/ TogglePreview \/ Stop \/ StopCamera2
Main ==
    \/ CreateSession \/ CreateFails \/ Started \/ NotStarted \/ Undo \/ FallBack
    \/ StartCamera2 \/ ReleaseSession \/ DestroySession
RenderLoop ==
    \/ InitRenderer \/ InitFails \/ BindWindow \/ BindFails \/ Resume \/ ResumeFails
    \/ Update \/ LoopEnds \/ BlitToWindow \/ Preview \/ Extract

Next == Calls \/ Main \/ RenderLoop

Spec == Init /\ [][Next]_vars

(* Both threads are scheduled.                                             *)
FairSpec == Spec /\ WF_vars(Main) /\ WF_vars(RenderLoop)

-----------------------------------------------------------------------------
(* Properties.                                                             *)

(* Types of the session's members and of the EGL state; the controller owns*)
(* at most one backend, and only what exists is current.                   *)
TypeOK ==
    /\ main \in {"idle", "create", "await", "undo", "fall_back", "camera2", "join", "destroy"}
    /\ override \in {"arcore", "camera2", ""} /\ surface \in BOOLEAN
    /\ arcore_session_ \in BOOLEAN /\ camera2_session_ \in BOOLEAN
    /\ session_ \in {"null", "created", "resumed"} /\ frame_ \in BOOLEAN
    /\ running_ \in BOOLEAN /\ preview_enabled_ \in BOOLEAN
    /\ intrinsics_reported_ \in BOOLEAN
    /\ render \in {"none", "init", "bind", "resume", "update", "blit", "preview",
                   "extract", "ended"}
    /\ init_result \in {"unset", "ok", "error"}
    /\ ~(arcore_session_ /\ camera2_session_)
    /\ egl \subseteq EglObjects /\ current.surface \in egl \cup {"none"}
    /\ current.thread \in {"none", "main", "render"}
    /\ fbo \in {"none", "complete", "incomplete"} /\ slips \in 0 .. 2

(* The encoder's Surface never has two producers: when an ARCore session   *)
(* that got as far as its window fails, the window is gone before Camera2  *)
(* is given the Surface.                                                   *)
OneProducer == "window" \in egl => ~camera2_session_ /\ main # "camera2"

(* Whatever main does, the loop has what it works on: a resumed session    *)
(* and a frame until it is joined, and the context on its own thread.      *)
LoopKeepsItsSession ==
    render \in {"update", "blit", "preview", "extract"} =>
        /\ session_ = "resumed" /\ frame_
        /\ "window" \in egl
        /\ current.thread = "render"

(* No single failure costs the encoder a frame: the preview makes the      *)
(* window current again, and so does the drawing of the next frame, which  *)
(* makes up for a preview that gave up half-way and for one whose own call *)
(* failed.  A frame just drawn is on the window, or two calls have failed. *)
OneFailureLosesNoFrame ==
    render = "preview" => current.surface = "window" \/ slips = 2

(* Once a start has failed or a stop has returned, nothing is left of the  *)
(* session, the window and the context, and the render thread is joined.   *)
EverythingReleased ==
    main = "idle" /\ ~arcore_session_ =>
        /\ session_ = "null" /\ ~frame_ /\ Joined
        /\ egl = {} /\ current = Released

(* start and stop return: the promise is always kept, and the loop ends.   *)
CallsReturn == main # "idle" ~> main = "idle"
=============================================================================
