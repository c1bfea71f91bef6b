------------------------ MODULE RenderSessionProofs ------------------------
(* Theorems about RenderSession: its safety properties, whichever of its   *)
(* steps may fail.                                                         *)
EXTENDS RenderSession, TLAPS

Looping == {"update", "blit", "preview", "extract"}
SettingUp == {"init", "bind", "resume"}

(* Where the two threads are, and what they branch on.                     *)
ControlType ==
    /\ main \in {"idle", "create", "await", "undo", "fall_back", "camera2", "join", "destroy"}
    /\ render \in {"none", "ended"} \cup SettingUp \cup Looping
    /\ arcore_session_ \in BOOLEAN /\ camera2_session_ \in BOOLEAN
    /\ ~(arcore_session_ /\ camera2_session_)
    /\ frame_ \in BOOLEAN /\ running_ \in BOOLEAN

(* Which backend exists while main is in a call.                           *)
OwnerInv ==
    /\ camera2_session_ => main = "idle"
    /\ main \in {"create", "await", "undo", "fall_back", "join", "destroy"} => arcore_session_
    /\ main = "camera2" => ~arcore_session_

(* Nothing is left outside a session.                                      *)
NothingLeft == session_ = "null" /\ ~frame_ /\ render = "none" /\ egl = {} /\ current = Released
OutsideInv ==
    main \in {"create", "camera2"} \/ (main = "idle" /\ ~arcore_session_) => NothingLeft

(* The set-up on the render thread: main waits, the promise is unset.      *)
SetUpInv ==
    render \in SettingUp =>
        /\ main = "await" /\ init_result = "unset" /\ session_ = "created" /\ frame_
        /\ render = "init" => egl = {} /\ current = Released
        /\ render = "bind" => egl = {"context", "pbuffer"} /\ current = OnRender("pbuffer")
        /\ render = "resume" => egl = EglObjects /\ current = OnRender("window")

(* The loop: the promise was kept, and it has all it works on.             *)
LoopInv ==
    render \in Looping =>
        /\ main \in {"await", "idle", "join"} /\ init_result = "ok"
        /\ session_ = "resumed" /\ frame_ /\ egl = EglObjects
        /\ current \in {OnRender("window"), OnRender("pbuffer")}

(* After the loop, or after a set-up that failed.                          *)
EndedInv ==
    render = "ended" =>
        /\ main \in {"await", "undo", "fall_back", "join", "destroy"}
        /\ main # "destroy" => current = Released
        /\ main = "await" => init_result = "error"

(* What main knows of the render thread at each point of its calls.        *)
MainInv ==
    /\ main = "await" => render # "none" /\ running_
    /\ main \in {"undo", "destroy"} => render = "ended"
    /\ main \in {"fall_back", "destroy"} => session_ = "null" /\ ~frame_
    /\ main = "fall_back" => render \in {"none", "ended"}
    /\ main = "join" => render \in Looping \cup {"ended"} /\ egl = EglObjects
    /\ main = "idle" /\ arcore_session_ => render \in Looping /\ running_

ThreadsInv ==
    ControlType /\ OwnerInv /\ OutsideInv /\ SetUpInv /\ LoopInv /\ EndedInv /\ MainInv

(* The members that only one thread looks at.                              *)
MembersType ==
    /\ override \in {"arcore", "camera2", ""} /\ surface \in BOOLEAN
    /\ session_ \in {"null", "created", "resumed"}
    /\ preview_enabled_ \in BOOLEAN /\ intrinsics_reported_ \in BOOLEAN
    /\ init_result \in {"unset", "ok", "error"}

(* A failure has left the loop on the pbuffer; by the next frame that is   *)
(* drawn there, a second one.                                              *)
SlipInv ==
    /\ render \in Looping /\ current.surface # "window" => slips >= 1
    /\ render = "preview" /\ current.surface # "window" => slips = 2

(* The EGL state: only what exists is current; the framebuffer, and the    *)
(* failures since the window was current.                                  *)
GlInv ==
    /\ egl \subseteq EglObjects
    /\ current.surface \in egl \cup {"none"}
    /\ current.thread \in {"none", "main", "render"}
    /\ fbo \in {"none", "complete", "incomplete"}
    /\ slips \in 0 .. 2
    /\ SlipInv

-----------------------------------------------------------------------------
(* The states of the context.                                              *)
LEMMA ContextStates ==
  /\ Released.thread = "none" /\ Released.surface = "none"
  /\ \A s : OnRender(s).thread = "render" /\ OnRender(s).surface = s
BY DEF Released, OnRender

(* Initially there is no session.                                          *)
LEMMA ThreadsInit == Init => ThreadsInv /\ MembersType /\ GlInv
<1>1. Init => ThreadsInv
  BY DEF Init, ThreadsInv, ControlType, OwnerInv, OutsideInv, NothingLeft, SetUpInv, LoopInv,
         EndedInv, MainInv, SettingUp, Looping
<1>2. Init => MembersType
  BY DEF Init, MembersType
<1>3. Init => GlInv
  <2>1. Init => slips \in 0 .. 2
    <3>1. Init => slips = 0
      BY Zenon DEF Init
    <3>2. 0 \in 0 .. 2
      OBVIOUS
    <3>. QED BY <3>1, <3>2, Zenon
  <2>2. Init => SlipInv
    BY DEF Init, SlipInv, Looping
  <2>. QED BY <2>1, <2>2, ContextStates DEF Init, GlInv
<1>. QED BY <1>1, <1>2, <1>3

(* Each step of either thread finds the other where it may be.             *)
LEMMA ThreadsStep == ThreadsInv /\ [Next]_vars => ThreadsInv'
<1>. SUFFICES ASSUME ThreadsInv, [Next]_vars
              PROVE  ThreadsInv'
  OBVIOUS
<1>. USE DEF ThreadsInv, ControlType, OwnerInv, OutsideInv, NothingLeft, SetUpInv, LoopInv,
             EndedInv, MainInv, SettingUp, Looping, controllerVars, sessionVars, glVars
<1>1. ASSUME NEW chosen \in {"arcore", "camera2", ""}, NEW given \in BOOLEAN,
             Start(chosen, given)
      PROVE  ThreadsInv'
  BY <1>1 DEF Start
<1>2. CASE TogglePreview
  BY <1>2 DEF TogglePreview
<1>3. CASE Stop
  BY <1>3 DEF Stop
<1>4. CASE StopCamera2
  BY <1>4 DEF StopCamera2
<1>5. CASE CreateSession
  BY <1>5 DEF CreateSession
<1>6. CASE CreateFails
  BY <1>6 DEF CreateFails
<1>7. CASE Started
  BY <1>7 DEF Started
<1>8. CASE NotStarted
  BY <1>8 DEF NotStarted
<1>9. CASE Undo
  BY <1>9 DEF Undo, Joined
<1>10. CASE FallBack
  BY <1>10 DEF FallBack, FallBackDestroys, Destroy, RendererGone
<1>11. CASE StartCamera2
  BY <1>11 DEF StartCamera2
<1>12. CASE ReleaseSession
  BY <1>12 DEF ReleaseSession, StopReleases, Joined, WindowUnbound
<1>13. CASE DestroySession
  BY <1>13 DEF DestroySession, Destroy, RendererGone
<1>14. CASE InitRenderer
  BY <1>14 DEF InitRenderer
<1>15. CASE InitFails
  BY <1>15 DEF InitFails, SetUpFails, FailAloud
<1>16. CASE BindWindow
  <2>1. {"context", "pbuffer"} \cup {"window"} = EglObjects
    BY DEF EglObjects
  <2>. QED BY <1>16, <2>1 DEF BindWindow
<1>17. CASE BindFails
  BY <1>17 DEF BindFails, SetUpFails, FailAloud
<1>18. CASE Resume
  BY <1>18 DEF Resume
<1>19. CASE ResumeFails
  BY <1>19 DEF ResumeFails, SetUpFails, FailAloud
<1>20. CASE Update
  BY <1>20 DEF Update
<1>21. CASE LoopEnds
  BY <1>21, ContextStates DEF LoopEnds, Return
<1>22. CASE BlitToWindow
  BY <1>22 DEF BlitToWindow, DrawsTo
<1>23. CASE Preview
  BY <1>23 DEF Preview
<1>24. CASE Extract
  BY <1>24 DEF Extract
<1>25. CASE UNCHANGED vars
  BY <1>25 DEF vars
<1>. QED BY <1>1, <1>2, <1>3, <1>4, <1>5, <1>6, <1>7, <1>8, <1>9, <1>10, <1>11, <1>12, <1>13, <1>14,
            <1>15, <1>16, <1>17, <1>18, <1>19, <1>20, <1>21, <1>22, <1>23, <1>24, <1>25
         DEF Next, Calls, Main, RenderLoop

(* Each step keeps the types of the members.                               *)
LEMMA MembersStep == MembersType /\ [Next]_vars => MembersType'
<1>. SUFFICES ASSUME MembersType, [Next]_vars
              PROVE  MembersType'
  OBVIOUS
<1>. USE DEF MembersType, controllerVars, sessionVars
<1>1. ASSUME NEW chosen \in {"arcore", "camera2", ""}, NEW given \in BOOLEAN,
             Start(chosen, given)
      PROVE  MembersType'
  BY <1>1 DEF Start
<1>2. CASE TogglePreview
  BY <1>2 DEF TogglePreview
<1>3. CASE Stop
  BY <1>3 DEF Stop
<1>4. CASE StopCamera2
  BY <1>4 DEF StopCamera2
<1>5. CASE CreateSession
  BY <1>5 DEF CreateSession
<1>6. CASE CreateFails
  BY <1>6 DEF CreateFails
<1>7. CASE Started
  BY <1>7 DEF Started
<1>8. CASE NotStarted
  BY <1>8 DEF NotStarted
<1>9. CASE Undo
  BY <1>9 DEF Undo
<1>10. CASE FallBack
  BY <1>10 DEF FallBack
<1>11. CASE StartCamera2
  BY <1>11 DEF StartCamera2
<1>12. CASE ReleaseSession
  BY <1>12 DEF ReleaseSession
<1>13. CASE DestroySession
  BY <1>13 DEF DestroySession
<1>14. CASE InitRenderer
  BY <1>14 DEF InitRenderer
<1>15. CASE InitFails
  BY <1>15 DEF InitFails, SetUpFails, FailAloud
<1>16. CASE BindWindow
  BY <1>16 DEF BindWindow
<1>17. CASE BindFails
  BY <1>17 DEF BindFails, SetUpFails, FailAloud
<1>18. CASE Resume
  BY <1>18 DEF Resume
<1>19. CASE ResumeFails
  BY <1>19 DEF ResumeFails, SetUpFails, FailAloud
<1>20. CASE Update
  BY <1>20 DEF Update
<1>21. CASE LoopEnds
  BY <1>21 DEF LoopEnds
<1>22. CASE BlitToWindow
  BY <1>22 DEF BlitToWindow
<1>23. CASE Preview
  BY <1>23 DEF Preview
<1>24. CASE Extract
  BY <1>24 DEF Extract
<1>25. CASE UNCHANGED vars
  BY <1>25 DEF vars
<1>. QED BY <1>1, <1>2, <1>3, <1>4, <1>5, <1>6, <1>7, <1>8, <1>9, <1>10, <1>11, <1>12, <1>13, <1>14,
            <1>15, <1>16, <1>17, <1>18, <1>19, <1>20, <1>21, <1>22, <1>23, <1>24, <1>25
         DEF Next, Calls, Main, RenderLoop

(* Each step leaves only what exists current, and on the pbuffer only after*)
(* a failure.                                                              *)
LEMMA GlStep == ThreadsInv /\ GlInv /\ [Next]_vars => GlInv'
<1>. SUFFICES ASSUME ThreadsInv, GlInv, [Next]_vars
              PROVE  GlInv'
  OBVIOUS
<1>. USE DEF GlInv, SlipInv, Looping, glVars
<1>1. ASSUME NEW chosen \in {"arcore", "camera2", ""}, NEW given \in BOOLEAN,
             Start(chosen, given)
      PROVE  GlInv'
  BY <1>1 DEF Start
<1>2. CASE TogglePreview
  BY <1>2 DEF TogglePreview
<1>3. CASE Stop
  BY <1>3 DEF Stop
<1>4. CASE StopCamera2
  BY <1>4 DEF StopCamera2
<1>5. CASE CreateSession
  BY <1>5 DEF CreateSession
<1>6. CASE CreateFails
  BY <1>6 DEF CreateFails
<1>7. CASE Started
  BY <1>7 DEF Started
<1>8. CASE NotStarted
  BY <1>8 DEF NotStarted
<1>9. CASE Undo
  BY <1>9 DEF Undo, Joined
<1>10. CASE FallBack
  BY <1>10, ContextStates DEF FallBack, FallBackDestroys, Destroy, RendererGone
<1>11. CASE StartCamera2
  BY <1>11 DEF StartCamera2
<1>12. CASE ReleaseSession
  BY <1>12
  DEF ReleaseSession, StopReleases, Joined, WindowUnbound, ThreadsInv, MainInv, EglObjects
<1>13. CASE DestroySession
  BY <1>13, ContextStates DEF DestroySession, Destroy, RendererGone
<1>14. CASE InitRenderer
  BY <1>14, ContextStates DEF InitRenderer, EglObjects
<1>15. CASE InitFails
  BY <1>15, ContextStates DEF InitFails, SetUpFails, EglObjects
<1>16. CASE BindWindow
  BY <1>16, ContextStates DEF BindWindow, EglObjects
<1>17. CASE BindFails
  BY <1>17, ContextStates DEF BindFails, SetUpFails, EglObjects
<1>18. CASE Resume
  BY <1>18, ContextStates DEF Resume, ThreadsInv, SetUpInv, SettingUp, EglObjects
<1>19. CASE ResumeFails
  BY <1>19, ContextStates DEF ResumeFails, SetUpFails
<1>20. CASE Update
  BY <1>20 DEF Update
<1>21. CASE LoopEnds
  BY <1>21, ContextStates DEF LoopEnds, Return
<1>22. CASE BlitToWindow
  <2>1. egl = EglObjects
    BY <1>22 DEF BlitToWindow, ThreadsInv, LoopInv
  <2>2. PICK ok \in BOOLEAN : /\ current' = IF ok THEN OnRender("window") ELSE current
                             /\ slips' = Slips(current', ~ok)
    BY <1>22, <2>1 DEF BlitToWindow, DrawsTo, Switched, EglObjects
  <2>3. render = "blit" /\ render' = "preview" /\ egl' = egl /\ fbo' = fbo
    BY <1>22 DEF BlitToWindow
  <2>. QED BY <2>1, <2>2, <2>3, ContextStates DEF Slips, EglObjects
<1>23. CASE Preview
  <2>1. egl = EglObjects /\ current \in {OnRender("window"), OnRender("pbuffer")}
    BY <1>23 DEF Preview, ThreadsInv, LoopInv
  <2>2. render = "preview" /\ render' = "extract" /\ egl' = egl
    BY <1>23 DEF Preview
  <2>3. CASE UNCHANGED <<fbo, current, slips>>
    BY <2>1, <2>2, <2>3
  <2>4. ASSUME NEW on \in {OnRender("window"), OnRender("pbuffer")}, NEW failed \in BOOLEAN,
               current' = on, slips' = Slips(current', failed),
               failed \/ on = OnRender("window"), fbo' \in {fbo, "complete", "incomplete"}
        PROVE  GlInv'
    BY <2>1, <2>2, <2>4, ContextStates DEF Slips, EglObjects
  <2>5. ASSUME NEW ok \in Switched, NEW on, on = IF ok THEN OnRender("pbuffer") ELSE current,
               fbo' = "incomplete", current' = on, slips' = Slips(current', TRUE)
        PROVE  GlInv'
    BY <2>1, <2>4, <2>5
  <2>6. ASSUME NEW ok \in Switched, NEW on, on = IF ok THEN OnRender("pbuffer") ELSE current,
               NEW back \in Switched, fbo' = IF fbo = "none" THEN "complete" ELSE fbo,
               current' = IF back /\ "window" \in egl THEN OnRender("window") ELSE on,
               slips' = Slips(current', ~back)
        PROVE  GlInv'
    <3>1. back \in BOOLEAN /\ "window" \in egl
      BY <2>1, <2>6 DEF Switched, EglObjects
    <3>. QED BY <2>1, <2>4, <2>6, <3>1
  <2>. QED BY <1>23, <2>3, <2>5, <2>6 DEF Preview
<1>24. CASE Extract
  BY <1>24 DEF Extract
<1>25. CASE UNCHANGED vars
  BY <1>25 DEF vars
<1>. QED BY <1>1, <1>2, <1>3, <1>4, <1>5, <1>6, <1>7, <1>8, <1>9, <1>10, <1>11, <1>12, <1>13, <1>14,
            <1>15, <1>16, <1>17, <1>18, <1>19, <1>20, <1>21, <1>22, <1>23, <1>24, <1>25
         DEF Next, Calls, Main, RenderLoop

(* The inductive invariant.                                                *)
LEMMA SessionInv == Spec => [](ThreadsInv /\ MembersType /\ GlInv)
BY ThreadsInit, ThreadsStep, MembersStep, GlStep, PTL DEF Spec

-----------------------------------------------------------------------------
(* Whichever steps fail, the members of the controller, the session and the*)
(* renderer keep their types, at most one backend exists, and only what    *)
(* exists is current.                                                      *)
THEOREM SessionTypeCorrect == Spec => []TypeOK
<1>1. ThreadsInv /\ MembersType /\ GlInv => TypeOK
  BY DEF ThreadsInv, ControlType, MembersType, GlInv, TypeOK, SettingUp, Looping
<1>. QED BY <1>1, SessionInv, PTL

(* Camera2 is never given the encoder's Surface while a window of ARCore's *)
(* renderer is on it, at whatever step the ARCore session failed.          *)
THEOREM SurfaceHasOneProducer == Spec => []OneProducer
<1>1. ThreadsInv => OneProducer
  BY DEF ThreadsInv, ControlType, OwnerInv, OutsideInv, NothingLeft, OneProducer
<1>. QED BY <1>1, SessionInv, PTL

(* The loop never runs without its session, frame, window and context:     *)
(* stop() and the destructor come after the join.                          *)
THEOREM LoopIsSafe == Spec => []LoopKeepsItsSession
<1>1. ThreadsInv => LoopKeepsItsSession
  BY ContextStates DEF ThreadsInv, LoopInv, Looping, EglObjects, LoopKeepsItsSession
<1>. QED BY <1>1, SessionInv, PTL

(* A frame for the encoder is drawn elsewhere than on its window only when *)
(* two calls in a row have failed: whichever of the calls that make the    *)
(* window current, or the framebuffer, may fail, one alone never costs it. *)
THEOREM FramesSurviveOneFailure == Spec => []OneFailureLosesNoFrame
<1>1. GlInv => OneFailureLosesNoFrame
  BY DEF GlInv, SlipInv, OneFailureLosesNoFrame
<1>. QED BY <1>1, SessionInv, PTL

(* After a start that failed at any step, and after stop, nothing of the   *)
(* session, of its thread and of its EGL objects is left.                  *)
THEOREM NothingLeaks == Spec => []EverythingReleased
<1>1. ThreadsInv => EverythingReleased
  BY DEF ThreadsInv, OutsideInv, NothingLeft, EverythingReleased, Joined
<1>. QED BY <1>1, SessionInv, PTL
=============================================================================
