---------------------------- MODULE Engine_proofs ----------------------------
(***************************************************************************)
(* Proofs about Engine, for any number of events and resizes.  What is     *)
(* shown of the input manager and of the window where they are alone holds *)
(* of their instances here.                                                *)
(***************************************************************************)
EXTENDS Engine, SequenceTheorems, TLAPS

IP == INSTANCE InputManager_proofs

\* The actions of the modules InputMgr and Win are those that the proofs are about.
LEMMA SameInputActions ==
  /\ InputMgr!ProcessNewInput => IP!ProcessNewInput
  /\ InputMgr!UnknownKeyEvent => IP!UnknownKeyEvent
  /\ InputMgr!PlatformError => IP!PlatformError
  /\ InputMgr!PollReturns => IP!PollReturns
  /\ InputMgr!PollCrashes => IP!PollCrashes
  /\ InputMgr!QuitLoop => IP!QuitLoop
  /\ InputMgr!FinishCycle => IP!FinishCycle
  /\ InputMgr!LeaveLoop => IP!LeaveLoop
  /\ InputMgr!DestroyGlfw => IP!DestroyGlfw
  /\ \A key \in TrackedKeys : InputMgr!KeyRepeat(key) => IP!KeyRepeat(key)
<1>1. InputMgr!ProcessNewInput => IP!ProcessNewInput
  BY DEF InputMgr!ProcessNewInput, IP!ProcessNewInput, InputMgr!Prepared, IP!Prepared,
         InputMgr!oldest, IP!oldest
<1>2. /\ InputMgr!UnknownKeyEvent => IP!UnknownKeyEvent
      /\ InputMgr!PlatformError => IP!PlatformError
      /\ InputMgr!PollReturns => IP!PollReturns
      /\ InputMgr!PollCrashes => IP!PollCrashes
      /\ \A key \in TrackedKeys : InputMgr!KeyRepeat(key) => IP!KeyRepeat(key)
  BY DEF InputMgr!UnknownKeyEvent, IP!UnknownKeyEvent, InputMgr!Polling, IP!Polling,
         InputMgr!Handled, IP!Handled, InputMgr!PlatformError, IP!PlatformError,
         InputMgr!PollReturns, IP!PollReturns, InputMgr!PollCrashes, IP!PollCrashes,
         InputMgr!KeyRepeat, IP!KeyRepeat
<1>3. /\ InputMgr!QuitLoop => IP!QuitLoop
      /\ InputMgr!FinishCycle => IP!FinishCycle
      /\ InputMgr!LeaveLoop => IP!LeaveLoop
      /\ InputMgr!DestroyGlfw => IP!DestroyGlfw
  BY DEF InputMgr!QuitLoop, IP!QuitLoop, InputMgr!Latest, IP!Latest, InputMgr!FinishCycle,
         IP!FinishCycle, InputMgr!LeaveLoop, IP!LeaveLoop, InputMgr!Handled, IP!Handled,
         InputMgr!DestroyGlfw, IP!DestroyGlfw
<1>4. QED
  BY <1>1, <1>2, <1>3

LEMMA SameKeyEvent ==
  ASSUME NEW key \in TrackedKeys, NEW down \in BOOLEAN, InputMgr!KeyEvent(key, down)
  PROVE  IP!KeyEvent(key, down)
<1>1. InputMgr!Applied(input_buffer, key, down) = IP!Applied(input_buffer, key, down)
  BY Zenon DEF InputMgr!Applied, IP!Applied, InputMgr!Updated, IP!Updated
<1>2. QED
  BY <1>1 DEF InputMgr!KeyEvent, IP!KeyEvent, InputMgr!Polling, IP!Polling,
              InputMgr!Handled, IP!Handled

\* What the engine does with its input is a step of the input manager or none.
InputStep ==
  \/ UNCHANGED inputVars
  \/ InputMgr!ProcessNewInput
  \/ \E key \in TrackedKeys, down \in BOOLEAN : InputMgr!KeyEvent(key, down)
  \/ \E key \in TrackedKeys : InputMgr!KeyRepeat(key)
  \/ InputMgr!UnknownKeyEvent
  \/ InputMgr!PlatformError
  \/ InputMgr!PollReturns
  \/ InputMgr!PollCrashes
  \/ InputMgr!QuitLoop
  \/ InputMgr!FinishCycle
  \/ InputMgr!LeaveLoop
  \/ InputMgr!DestroyGlfw

LEMMA InputTypes ==
  ASSUME InputMgr!TypeOK, InputStep
  PROVE  InputMgr!TypeOK'
<1>1. IP!TypeOK
  BY DEF IP!TypeOK, InputMgr!TypeOK, IP!GameInput, InputMgr!GameInput, IP!Button,
    InputMgr!Button, IP!PendingErrors, InputMgr!PendingErrors, IP!Phases, InputMgr!Phases,
    IP!TrackedKeys, InputMgr!TrackedKeys, IP!ControlKeys, InputMgr!ControlKeys
<1>2. IP!Next \/ UNCHANGED IP!vars
  BY SameInputActions, SameKeyEvent DEF InputStep, IP!Next, IP!vars, inputVars,
     IP!TrackedKeys, TrackedKeys, IP!ControlKeys, ControlKeys
<1>3. IP!TypeOK'
  BY <1>1, <1>2, MaxEventsAssumption, ButtonsAssumption, IP!TypeStep
     DEF IP!ControlKeys, ControlKeys
<1>4. QED
  BY <1>3 DEF IP!TypeOK, InputMgr!TypeOK, IP!GameInput, InputMgr!GameInput, IP!Button,
    InputMgr!Button, IP!PendingErrors, InputMgr!PendingErrors, IP!Phases, InputMgr!Phases,
    IP!TrackedKeys, InputMgr!TrackedKeys, IP!ControlKeys, InputMgr!ControlKeys

\* The same of the window.
WindowStep ==
  \/ UNCHANGED windowVars
  \/ \E enable \in BOOLEAN : Win!SetFullscreen(enable)
  \/ \E g \in Geometries : Win!Rearrange(g)
  \/ Win!Unplug

LEMMA WindowTypes ==
  ASSUME Win!TypeOK, WindowStep
  PROVE  Win!TypeOK'
<1> USE DEF Win!TypeOK, Win!AllGeometries, Win!Statuses
<1>1. CASE UNCHANGED windowVars
  BY <1>1 DEF windowVars
<1>2. ASSUME NEW enable \in BOOLEAN, Win!SetFullscreen(enable)
      PROVE  Win!TypeOK'
  <2>1. CASE Win!KeepMode(enable)
    BY <2>1 DEF Win!KeepMode
  <2>2. CASE Win!EnterFullscreen
    BY <2>2 DEF Win!EnterFullscreen
  <2>3. CASE Win!EnterFails \/ Win!EnterUndefined
    BY <2>3 DEF Win!EnterFails, Win!EnterUndefined
  <2>4. CASE Win!LeaveFullscreen
    BY <2>4 DEF Win!LeaveFullscreen
  <2>5. CASE Win!LeaveFails
    BY <2>5 DEF Win!LeaveFails
  <2>6. QED
    BY <1>2, <2>1, <2>2, <2>3, <2>4, <2>5 DEF Win!SetFullscreen
<1>3. ASSUME NEW g \in Geometries, Win!Rearrange(g)
      PROVE  Win!TypeOK'
  BY <1>3 DEF Win!Rearrange
<1>4. CASE Win!Unplug
  BY <1>4 DEF Win!Unplug
<1>5. QED
  BY <1>1, <1>2, <1>3, <1>4 DEF WindowStep

\* set_fullscreen that returns ok has the mode that was asked for.
LEMMA OkIsMode ==
  ASSUME NEW enable \in BOOLEAN, Win!SetFullscreen(enable), returned' = "ok"
  PROVE  fullscreen' = enable
<1>1. CASE Win!KeepMode(enable)
  BY <1>1 DEF Win!KeepMode
<1>2. CASE enable /\ (Win!EnterFullscreen \/ Win!EnterFails \/ Win!EnterUndefined)
  BY <1>2, Zenon DEF Win!EnterFullscreen, Win!EnterFails, Win!EnterUndefined
<1>3. CASE ~enable /\ (Win!LeaveFullscreen \/ Win!LeaveFails)
  BY <1>3, Zenon DEF Win!LeaveFullscreen, Win!LeaveFails
<1>4. QED
  BY <1>1, <1>2, <1>3 DEF Win!SetFullscreen

-----------------------------------------------------------------------------
(***************************************************************************)
(* The inductive invariant                                                 *)
(***************************************************************************)

EarlySteps == {"managers", "prepare_window", "create_window", "icon", "make_current",
               "size_callback", "key_callback", "gl_api"}

LateSteps == {"glyphs", "simple_shader", "text_shader", "text_projection", "loop"}

BodySteps == {"input", "fullscreen", "draw", "swap", "cleanup", "destroy"}

Up == [init |-> TRUE, error |-> "no_error"]

\* GLFW and the loop's phase, as far as the step the program is at tells them.
Control ==
  /\ pc \in {"logger", "glfw"} => phase = "idle" /\ glfw = Terminated
  /\ pc \in EarlySteps \union LateSteps => phase = "idle" /\ glfw = Up
  /\ phase = "polling" => pc = "input"
  /\ pc \in {"fullscreen", "draw", "swap"} => phase = "published"
  /\ phase = "published" => glfw.error = "no_error"

\* OpenGL is loaded once its step is over, and before any object is created.
Loaded ==
  /\ pc \in LateSteps \union BodySteps => loaded
  /\ objects # {} => loaded

\* The framebuffer's size is the last one it reports, or has reported; before it has reported
\* any the program has asked for the window's.
Reported ==
  IF resizes = <<>>
  THEN /\ viewport = projection
       /\ viewport = IF told THEN Pixels[geometry] ELSE geometry
  ELSE resizes[Len(resizes)] = Pixels[geometry]

\* No size is reported before the loop.
Untold == pc \in {"logger", "glfw"} \union EarlySteps \union (LateSteps \ {"loop"}) => ~told

Room == pc = "fullscreen" /\ glfw.init => Len(resizes) <= MaxResizes

\* What the program holds at each step.
Held ==
  /\ pc \in {"logger", "glfw", "glyphs"} \union EarlySteps => objects = {}
  /\ pc = "simple_shader" => objects = GlyphObjects
  /\ pc = "text_shader" => objects = GlyphObjects \union {"simple_shader"}
  /\ pc = "text_projection" => objects = GlyphObjects \union Programs
  /\ pc \in {"loop", "input", "fullscreen", "draw", "swap", "cleanup"} => objects = Objects
  /\ pc = "destroy" => objects = {"rectangle_ebo"} \union GlyphObjects

Exit ==
  /\ exit # "none" => pc = "exited"
  /\ Held
  /\ CleanExit

IInv ==
  /\ TypeOK
  /\ Control
  /\ Loaded
  /\ Reported
  /\ Untold
  /\ Room
  /\ Exit
  /\ FrameShowsSettings

LEMMA SetupStepsAre ==
  SetupSteps = {"logger", "glfw"} \union EarlySteps \union (LateSteps \ {"loop"})
BY DEF SetupSteps, FollowedBy, EarlySteps, LateSteps

\* The order of the set-up: GLFW after the logger, and all that needs OpenGL after it.
LEMMA Following ==
  ASSUME NEW step \in SetupSteps
  PROVE  /\ step = "logger" => FollowedBy[step] = "glfw"
         /\ step \in ({"glfw"} \union EarlySteps) \ {"gl_api"} => FollowedBy[step] \in EarlySteps
         /\ step \in {"gl_api"} \union LateSteps => FollowedBy[step] \in LateSteps
BY SetupStepsAre DEF FollowedBy, EarlySteps, LateSteps

\* What the window reports when its size changes.
LEMMA ResizeFacts ==
  ASSUME TypeOK, Reported, Resize, geometry' \in Win!AllGeometries,
         UNCHANGED <<viewport, projection>>
  PROVE  /\ resizes' \in Seq(FramebufferSizes) /\ UNCHANGED told
         /\ Len(resizes') <= Len(resizes) + 1
         /\ Reported'
<1>1. resizes \in Seq(FramebufferSizes)
  BY DEF TypeOK
<1>2. CASE geometry' = geometry
  BY <1>1, <1>2 DEF Resize, Reported
<1>3. CASE geometry' # geometry
  <2>1. resizes' = Append(resizes, Pixels[geometry']) /\ Pixels[geometry'] \in FramebufferSizes
        /\ UNCHANGED told
    BY <1>3 DEF Resize, FramebufferSizes
  <2>2. /\ resizes' \in Seq(FramebufferSizes) /\ Len(resizes') = Len(resizes) + 1
        /\ resizes'[Len(resizes')] = Pixels[geometry'] /\ resizes' # <<>>
    BY <1>1, <2>1
  <2>3. QED
    BY <1>1, <2>1, <2>2 DEF Reported
<1>4. QED
  BY <1>2, <1>3

-----------------------------------------------------------------------------
(***************************************************************************)
(* The set-up                                                              *)
(***************************************************************************)

\* The program starts with nothing set up.
LEMMA InvInit == Init => IInv
<1> SUFFICES ASSUME Init PROVE IInv
  OBVIOUS
<1>2. InputMgr!TypeOK
  <2>1. ZeroedInput \in InputMgr!GameInput
    BY DEF ZeroedInput, ZeroedButton, InputMgr!GameInput, InputMgr!Button
  <2>2. 0 \in 0..MaxEvents
    BY MaxEventsAssumption
  <2>3. Terminated \in [init : BOOLEAN, error : InputMgr!PendingErrors]
    BY DEF Terminated, InputMgr!PendingErrors
  <2>4. keys \in [InputMgr!TrackedKeys -> BOOLEAN]
    BY DEF Init, TrackedKeys, ControlKeys, InputMgr!TrackedKeys, InputMgr!ControlKeys
  <2>5. QED
    BY <2>1, <2>2, <2>3, <2>4 DEF Init, InputMgr!TypeOK, InputMgr!Phases
<1>3. Win!TypeOK
  BY DEF Init, Win!Init, Win!TypeOK, Win!AllGeometries, Win!Statuses
<1>4. TypeOK
  <2>1. <<>> \in Seq(FramebufferSizes) /\ Len(<<>>) <= MaxResizes + 1
    BY MaxResizesAssumption
  <2>2. geometry \in Win!AllGeometries
    BY <1>3 DEF Win!TypeOK
  <2>3. QED
    BY <1>2, <1>3, <2>1, <2>2, SetupStepsAre DEF Init, TypeOK
<1>5. Control /\ Loaded /\ Reported /\ Untold /\ Room /\ Exit /\ FrameShowsSettings
  BY DEF Init, Control, EarlySteps, LateSteps, BodySteps, Terminated, Loaded, Reported, Untold,
         Room, Exit, Held, CleanExit, FrameShowsSettings
<1>6. QED
  BY <1>4, <1>5 DEF IInv

\* Nothing of the input manager but GLFW changes before the loop, and GLFW as it may.
LEMMA GlfwTypes ==
  ASSUME InputMgr!TypeOK, UNCHANGED loopVars, glfw' \in {glfw, Up, Terminated}
  PROVE  InputMgr!TypeOK'
<1>1. glfw' \in [init : BOOLEAN, error : InputMgr!PendingErrors]
  <2>1. /\ glfw \in [init : BOOLEAN, error : InputMgr!PendingErrors]
        /\ Up \in [init : BOOLEAN, error : InputMgr!PendingErrors]
        /\ Terminated \in [init : BOOLEAN, error : InputMgr!PendingErrors]
    BY DEF InputMgr!TypeOK, InputMgr!PendingErrors, Up, Terminated
  <2>2. QED
    BY <2>1
<1>2. QED
  BY <1>1 DEF InputMgr!TypeOK, loopVars

LEMMA SetUpInv ==
  ASSUME IInv, NEW step \in SetupSteps, SetUp(step)
  PROVE  IInv'
<1> USE DEF IInv, SetUp
<1>1. step \in {"logger", "glfw"} \union EarlySteps \union (LateSteps \ {"loop"})
  BY SetupStepsAre
<1>2. glfw' = IF step = "glfw" THEN Up ELSE glfw
  <2>1. step = "glfw" => glfw = Terminated
    BY DEF Control
  <2>2. CASE step = "glfw"
    <3>1. glfw' = [Terminated EXCEPT !.init = TRUE]
      BY <2>1, <2>2
    <3>2. QED
      BY <2>2, <3>1 DEF Terminated, Up
  <2>3. QED
    BY <2>2
<1>3. /\ step = "logger" => pc' = "glfw"
      /\ step \in ({"glfw"} \union EarlySteps) \ {"gl_api"} => pc' \in EarlySteps
      /\ step \in {"gl_api"} \union LateSteps => pc' \in LateSteps
  BY Following
<1>4. Win!TypeOK'
  BY WindowTypes DEF WindowStep, desktopVars, TypeOK
<1>5. TypeOK'
  <2>1. InputMgr!TypeOK'
    BY <1>2, GlfwTypes DEF TypeOK
  <2>2. pc' \in SetupSteps \union {"loop"}
    BY <1>1, <1>3, SetupStepsAre DEF EarlySteps, LateSteps
  <2>3. /\ {viewport', projection'} \subseteq Win!AllGeometries \union FramebufferSizes
        /\ uniform' \in Win!AllGeometries
    BY DEF TypeOK, Win!TypeOK
  <2>4. (m_initialized' \in BOOLEAN) /\ (loaded' \in BOOLEAN) /\ objects' \subseteq Objects
    BY DEF Creates, Objects, TypeOK
  <2>5. QED
    BY <1>4, <2>1, <2>2, <2>3, <2>4
       DEF TypeOK, desktopVars, windowVars, Win!AllGeometries
<1>6. Control'
  <2>1. phase = "idle" /\ phase' = "idle"
    BY <1>1 DEF Control, loopVars
  <2>2. step \in {"glfw"} \union EarlySteps \union LateSteps => glfw' = Up
    BY <1>2 DEF Control
  <2>3. step = "logger" => glfw' = Terminated
    BY <1>2 DEF Control
  <2>4. QED
    BY <1>1, <1>3, <2>1, <2>2, <2>3 DEF Control, EarlySteps, LateSteps
<1>7. Loaded' /\ Untold'
  BY <1>1, <1>3 DEF Creates, Loaded, Untold, Programs, EarlySteps, LateSteps, BodySteps,
                    desktopVars
<1>8. Reported'
  BY <1>1 DEF Reported, Untold, desktopVars, windowVars
<1>9. Room' /\ Exit' /\ FrameShowsSettings'
  <2>1. pc # "exited" /\ pc' \in {"glfw"} \union EarlySteps \union LateSteps
    BY <1>1, <1>3 DEF EarlySteps, LateSteps
  <2>2. Held'
    BY <1>1, <1>3 DEF Exit, Held, Creates, FollowedBy, Objects, Programs, EarlySteps, LateSteps
  <2>3. QED
    BY <2>1, <2>2 DEF Room, Exit, Held, CleanExit, FrameShowsSettings, EarlySteps, LateSteps
<1>10. QED
  BY <1>5, <1>6, <1>7, <1>8, <1>9

LEMMA SetUpFailsInv ==
  ASSUME IInv, NEW step \in SetupSteps, SetUpFails(step)
  PROVE  IInv'
<1> USE DEF IInv, SetUpFails
<1>1. step \in {"logger", "glfw"} \union EarlySteps \union (LateSteps \ {"loop"})
  BY SetupStepsAre
<1>2. Win!TypeOK'
  BY WindowTypes DEF WindowStep, desktopVars, TypeOK
<1>3. InputMgr!TypeOK'
  BY GlfwTypes DEF TypeOK
<1>4. (loaded' \in BOOLEAN) /\ objects' \subseteq Objects
  BY DEF Objects, TypeOK
<1>5. TypeOK'
  BY <1>2, <1>3, <1>4 DEF TypeOK, desktopVars, windowVars, Win!AllGeometries
<1>6. phase = "idle" /\ pc # "exited"
  BY <1>1 DEF Control, EarlySteps, LateSteps
<1>7. Control'
  BY <1>6 DEF Control, EarlySteps, LateSteps, loopVars
<1>8. Loaded'
  <2>1. step \in Programs => loaded
    BY DEF Loaded, Programs, LateSteps
  <2>2. objects' # {} => objects # {} \/ step \in Programs
    OBVIOUS
  <2>3. objects' # {} => loaded'
    <3>1. CASE step = "gl_api"
      BY <2>2, <3>1 DEF Exit, Held, EarlySteps, Programs
    <3>2. CASE step # "gl_api"
      BY <2>1, <2>2, <3>2 DEF Loaded
    <3>3. QED BY <3>1, <3>2
  <2>4. QED
    BY <2>1, <2>2, <2>3 DEF Loaded, LateSteps, BodySteps
<1>9. Reported'
  BY DEF Reported, desktopVars, windowVars
<1>10. Room' /\ Untold' /\ Exit' /\ FrameShowsSettings'
  BY <1>6 DEF Room, Untold, Exit, Held, CleanExit, FrameShowsSettings, EarlySteps, LateSteps
<1>11. QED
  BY <1>5, <1>7, <1>8, <1>9, <1>10

-----------------------------------------------------------------------------
(***************************************************************************)
(* The poll                                                                *)
(***************************************************************************)

\* A step of the input manager that leaves the desktop and OpenGL alone.
LEMMA InputStepTypes ==
  ASSUME TypeOK, InputStep, UNCHANGED <<desktopVars, glVars, m_initialized, exit>>,
         pc' \in SetupSteps \union {"loop", "input", "fullscreen", "draw", "swap", "cleanup",
                                    "unwind", "destroy", "exited", "crashed"},
         close' \in BOOLEAN
  PROVE  TypeOK'
<1>1. InputMgr!TypeOK'
  BY InputTypes DEF TypeOK
<1>2. Win!TypeOK'
  BY WindowTypes DEF WindowStep, desktopVars, TypeOK
<1>3. QED
  BY <1>1, <1>2 DEF TypeOK, desktopVars, glVars, Win!AllGeometries

LEMMA EnterCycleInv ==
  ASSUME IInv, EnterCycle
  PROVE  IInv'
<1> USE DEF IInv, EnterCycle
<1>1. TypeOK'
  BY InputStepTypes DEF InputStep, TypeOK
<1>2. glfw' = Up /\ phase' = "polling"
  BY DEF Control, LateSteps, InputMgr!ProcessNewInput
<1>3. Control' /\ Loaded' /\ Untold'
  BY <1>2 DEF Control, Loaded, Untold, desktopVars, EarlySteps, LateSteps, BodySteps, glVars
<1>4. Reported' /\ Room' /\ Exit' /\ FrameShowsSettings'
  BY DEF Reported, Room, Exit, Held, CleanExit, FrameShowsSettings, desktopVars, windowVars,
         glVars, EarlySteps
<1>5. QED
  BY <1>1, <1>3, <1>4

LEMMA CloseLoopInv ==
  ASSUME IInv, CloseLoop
  PROVE  IInv'
<1> USE DEF IInv, CloseLoop
<1>1. TypeOK'
  BY InputStepTypes DEF InputStep, TypeOK
<1>2. phase' = "stopped"
  BY DEF InputMgr!LeaveLoop
<1>3. Control' /\ Loaded' /\ Untold'
  BY <1>2 DEF Control, Loaded, Untold, desktopVars, EarlySteps, LateSteps, BodySteps, glVars
<1>4. Reported' /\ Room' /\ Exit' /\ FrameShowsSettings'
  BY DEF Reported, Room, Exit, Held, CleanExit, FrameShowsSettings, desktopVars, windowVars,
         glVars, EarlySteps
<1>5. QED
  BY <1>1, <1>3, <1>4

LEMMA PollKeyboardInv ==
  ASSUME IInv, PollKeyboard
  PROVE  IInv'
<1> USE DEF IInv, PollKeyboard
<1>1. InputStep /\ UNCHANGED phase /\ phase = "polling"
  BY DEF InputStep, InputMgr!KeyEvent, InputMgr!KeyRepeat, InputMgr!UnknownKeyEvent,
         InputMgr!PlatformError, InputMgr!Polling
<1>2. TypeOK'
  BY <1>1, InputStepTypes DEF TypeOK, mainVars
<1>3. Control' /\ Loaded' /\ Untold'
  BY <1>1 DEF Control, Loaded, Untold, desktopVars, EarlySteps, LateSteps, BodySteps, glVars,
              mainVars
<1>4. Reported' /\ Room' /\ Exit' /\ FrameShowsSettings'
  BY DEF Reported, Room, Exit, Held, CleanExit, FrameShowsSettings, desktopVars, windowVars,
         glVars, mainVars, EarlySteps
<1>5. QED
  BY <1>2, <1>3, <1>4

\* A sequence of more than one element ends as its tail does.
LEMMA LastOfTail ==
  ASSUME NEW S, NEW s \in Seq(S), s # <<>>, Len(s) # 1
  PROVE  Len(Tail(s)) \in 1..Len(Tail(s)) /\ Tail(s)[Len(Tail(s))] = s[Len(s)] /\ Tail(s) # <<>>
<1>1. Len(s) \in Nat /\ Len(s) # 0
  BY EmptySeq
<1>2. Len(Tail(s)) = Len(s) - 1 /\ Len(s) - 1 \in 1..Len(Tail(s))
  BY <1>1, HeadTailProperties
<1>3. Tail(s)[Len(s) - 1] = s[Len(s)]
  BY <1>1, <1>2, HeadTailProperties
<1>4. Tail(s) # <<>>
  BY <1>1, <1>2, EmptySeq
<1>5. QED
  BY <1>2, <1>3, <1>4

\* The size that is reported last is the framebuffer's, so the viewport and the projection have
\* it when none is left.
LEMMA SizeCallbackInv ==
  ASSUME IInv, SizeCallback
  PROVE  IInv'
<1> USE DEF IInv, SizeCallback
<1>1. /\ resizes \in Seq(FramebufferSizes) /\ Len(resizes) \in Nat \ {0}
      /\ Head(resizes) = resizes[1] /\ Head(resizes) \in FramebufferSizes
      /\ Tail(resizes) \in Seq(FramebufferSizes) /\ Len(Tail(resizes)) = Len(resizes) - 1
  BY DEF TypeOK
<1>2. InputMgr!TypeOK' /\ Win!TypeOK'
  BY InputTypes, WindowTypes DEF InputStep, WindowStep, TypeOK
<1>3. TypeOK'
  BY <1>1, <1>2, MaxResizesAssumption DEF TypeOK, mainVars, windowVars, Win!AllGeometries
<1>4. Reported'
  <2>1. resizes[Len(resizes)] = Pixels[geometry]
    BY DEF Reported
  <2>2. CASE Len(resizes) = 1
    <3>1. resizes' = <<>>
      BY <1>1, <2>2
    <3>2. QED
      BY <1>1, <2>1, <2>2, <3>1 DEF Reported, windowVars
  <2>3. CASE Len(resizes) # 1
    <3>1. /\ Len(Tail(resizes)) \in 1..Len(Tail(resizes))
          /\ Tail(resizes)[Len(Tail(resizes))] = resizes[Len(resizes)]
          /\ Tail(resizes) # <<>>
      BY <1>1, <2>3, LastOfTail
    <3>2. QED
      BY <2>1, <3>1 DEF Reported, windowVars
  <2>4. QED
    BY <2>2, <2>3
<1>5. Control' /\ Loaded' /\ Untold' /\ Room' /\ Exit' /\ FrameShowsSettings'
  BY DEF Control, Loaded, Untold, desktopVars, Room, Exit, Held, CleanExit, FrameShowsSettings,
         EarlySteps, LateSteps, BodySteps, inputVars, windowVars, mainVars, InputMgr!Latest,
         glVars
<1>6. QED
  BY <1>3, <1>4, <1>5

LEMMA CloseRequestInv ==
  ASSUME IInv, CloseRequest
  PROVE  IInv'
<1> USE DEF IInv, CloseRequest
<1>1. TypeOK'
  BY InputStepTypes DEF InputStep, TypeOK
<1>2. Control' /\ Loaded' /\ Untold' /\ Reported'
  BY DEF Control, Loaded, Untold, desktopVars, Reported, EarlySteps, LateSteps, BodySteps,
         inputVars, windowVars, glVars
<1>3. Room' /\ Exit' /\ FrameShowsSettings'
  BY DEF Room, Exit, Held, CleanExit, FrameShowsSettings, inputVars, desktopVars, windowVars,
         glVars, InputMgr!Latest, EarlySteps
<1>4. QED
  BY <1>1, <1>2, <1>3

\* The monitor is unplugged in a poll, so not while a frame is drawn.
LEMMA UnplugInv ==
  ASSUME IInv, Unplug
  PROVE  IInv'
<1> USE DEF IInv, Unplug
<1>1. UNCHANGED geometry /\ pc = "input"
  BY DEF Control, Win!Unplug
<1>2. InputMgr!TypeOK' /\ Win!TypeOK'
  BY InputTypes, WindowTypes DEF InputStep, WindowStep, TypeOK
<1>3. TypeOK'
  BY <1>2 DEF TypeOK, mainVars, glVars, Win!AllGeometries
<1>4. Control' /\ Loaded' /\ Untold' /\ Reported'
  BY <1>1 DEF Control, Loaded, Untold, desktopVars, Reported, EarlySteps, LateSteps, BodySteps,
              inputVars, glVars, mainVars
<1>5. Room' /\ Exit' /\ FrameShowsSettings'
  BY <1>1 DEF Room, Exit, Held, CleanExit, FrameShowsSettings, inputVars, glVars, mainVars,
              EarlySteps
<1>6. QED
  BY <1>3, <1>4, <1>5

LEMMA PollReturnsInv ==
  ASSUME IInv, PollReturns
  PROVE  IInv'
<1> USE DEF IInv, PollReturns
<1>1. TypeOK'
  BY InputStepTypes DEF InputStep, TypeOK
<1>2. /\ phase' \in {"published", "failed"} /\ glfw'.error = "no_error"
      /\ glfw'.init => glfw.init
  BY DEF InputMgr!PollReturns, InputMgr!Handled
<1>3. Control' /\ Loaded' /\ Untold'
  BY <1>2 DEF Control, Loaded, Untold, desktopVars, EarlySteps, LateSteps, BodySteps, glVars
<1>4. Room'
  <2>1. Len(resizes) \in Nat /\ MaxResizes \in Nat
    BY MaxResizesAssumption DEF TypeOK
  <2>2. QED
    BY <1>2, <2>1 DEF Room, desktopVars
<1>5. Reported' /\ Exit' /\ FrameShowsSettings'
  BY DEF Reported, Exit, Held, CleanExit, FrameShowsSettings, desktopVars, windowVars, glVars,
         EarlySteps
<1>6. QED
  BY <1>1, <1>3, <1>4, <1>5

LEMMA LeaveInputInv ==
  ASSUME IInv, PollCrashes \/ QuitLoop
  PROVE  IInv'
<1> USE DEF IInv
<1>1. /\ InputStep /\ UNCHANGED <<desktopVars, glVars, m_initialized, close, exit>>
      /\ pc = "input" /\ pc' \in {"crashed", "cleanup"} /\ phase' \in {"crashed", "stopped"}
  BY DEF InputStep, PollCrashes, QuitLoop, InputMgr!PollCrashes, InputMgr!QuitLoop
<1>2. TypeOK'
  BY <1>1, InputStepTypes DEF TypeOK
<1>3. Control' /\ Loaded' /\ Untold'
  BY <1>1 DEF Control, Loaded, Untold, desktopVars, EarlySteps, LateSteps, BodySteps, glVars
<1>4. Reported' /\ Room' /\ Exit' /\ FrameShowsSettings'
  BY <1>1 DEF Reported, Room, Exit, Held, CleanExit, FrameShowsSettings, desktopVars,
              windowVars, glVars, EarlySteps
<1>5. QED
  BY <1>2, <1>3, <1>4

-----------------------------------------------------------------------------
(***************************************************************************)
(* The body                                                                *)
(***************************************************************************)

\* A failing body stops the loop, with all it has drawn left for the destructors.
LEMMA BodyFailsInv ==
  ASSUME IInv, BodyFails, pc \in {"fullscreen", "swap"}, WindowStep,
         \/ UNCHANGED desktopVars
         \/ Resize /\ geometry' \in Win!AllGeometries /\ Len(resizes) <= MaxResizes
  PROVE  IInv'
<1> USE DEF IInv, BodyFails
<1>1. InputMgr!TypeOK' /\ Win!TypeOK'
  BY InputTypes, WindowTypes DEF InputStep, TypeOK
<1>2. /\ resizes' \in Seq(FramebufferSizes) /\ Len(resizes') <= MaxResizes + 1
      /\ Reported' /\ UNCHANGED told
  <2>1. CASE UNCHANGED desktopVars
    BY <2>1 DEF desktopVars, windowVars, glVars, Reported, TypeOK
  <2>2. CASE Resize /\ geometry' \in Win!AllGeometries /\ Len(resizes) <= MaxResizes
    <3>1. /\ resizes' \in Seq(FramebufferSizes) /\ Len(resizes') <= Len(resizes) + 1
          /\ Reported' /\ UNCHANGED told
      BY <2>2, ResizeFacts DEF glVars
    <3>2. Len(resizes) \in Nat /\ Len(resizes') \in Nat /\ MaxResizes \in Nat
      BY <3>1, MaxResizesAssumption DEF TypeOK
    <3>3. QED
      BY <2>2, <3>1, <3>2
  <2>3. QED
    BY <2>1, <2>2
<1>3. TypeOK'
  BY <1>1, <1>2 DEF TypeOK, glVars, Win!AllGeometries
<1>4. phase' = "stopped"
  BY DEF InputMgr!LeaveLoop
<1>5. Control' /\ Loaded' /\ Untold'
  BY <1>2, <1>4 DEF Control, Loaded, Untold, desktopVars, EarlySteps, LateSteps, BodySteps,
                    glVars
<1>6. Room' /\ Exit' /\ FrameShowsSettings'
  BY DEF Room, Exit, Held, CleanExit, FrameShowsSettings, glVars, EarlySteps
<1>7. QED
  BY <1>2, <1>3, <1>5, <1>6

\* The window is in the mode of the input that the frame is drawn with.
LEMMA ApplySettingsInv ==
  ASSUME IInv, ApplySettings
  PROVE  IInv'
<1> USE DEF IInv, ApplySettings
<1>1. InputMgr!Latest.fullscreen \in BOOLEAN /\ InputMgr!Latest.wireframe \in BOOLEAN
  BY DEF TypeOK, InputMgr!TypeOK, InputMgr!Latest, InputMgr!GameInput
<1>2. WindowStep
  BY <1>1 DEF WindowStep
<1>3. Win!TypeOK'
  BY <1>2, WindowTypes DEF TypeOK
<1>4. geometry' \in Win!AllGeometries
  BY <1>3 DEF Win!TypeOK, Win!AllGeometries
<1>5. Len(resizes) <= MaxResizes
  BY DEF Room
<1>6. CASE returned' \in {"invalid_value", "platform_error"} /\ BodyFails
  BY <1>2, <1>4, <1>5, <1>6, BodyFailsInv
<1>7. CASE /\ returned' = "ok" /\ wireframe' = InputMgr!Latest.wireframe /\ pc' = "draw"
           /\ UNCHANGED <<inputVars, loaded, viewport, projection, uniform, objects,
                          m_initialized, close, exit>>
  <2>1. /\ resizes' \in Seq(FramebufferSizes) /\ Len(resizes') <= Len(resizes) + 1
        /\ Reported' /\ UNCHANGED told
    BY <1>4, <1>7, ResizeFacts
  <2>2. Len(resizes) \in Nat /\ Len(resizes') \in Nat /\ MaxResizes \in Nat
    BY <2>1, MaxResizesAssumption DEF TypeOK
  <2>3. InputMgr!TypeOK'
    BY <1>7, InputTypes DEF InputStep, TypeOK
  <2>4. Len(resizes') <= MaxResizes + 1
    BY <1>5, <2>1, <2>2
  <2>5. TypeOK'
    BY <1>1, <1>3, <1>7, <2>1, <2>3, <2>4 DEF TypeOK, Win!AllGeometries
  <2>6. FrameShowsSettings'
    <3>1. InputMgr!Latest' = InputMgr!Latest
      BY <1>7 DEF InputMgr!Latest, inputVars
    <3>2. fullscreen' = InputMgr!Latest.fullscreen
      BY <1>1, <1>7, OkIsMode
    <3>3. QED
      BY <1>7, <3>1, <3>2 DEF FrameShowsSettings
  <2>7. Control' /\ Loaded' /\ Untold' /\ Room' /\ Exit'
    BY <1>7, <2>1 DEF Control, Loaded, Untold, desktopVars, Room, Exit, Held, CleanExit,
                      EarlySteps, LateSteps, BodySteps, inputVars, glVars
  <2>8. QED
    BY <2>1, <2>5, <2>6, <2>7
<1>8. CASE /\ returned' = "undefined" /\ pc' = "crashed"
           /\ UNCHANGED <<inputVars, glVars, m_initialized, close, exit>>
  <2>1. /\ resizes' \in Seq(FramebufferSizes) /\ Len(resizes') <= Len(resizes) + 1
        /\ Reported' /\ UNCHANGED told
    BY <1>4, <1>8, ResizeFacts DEF glVars
  <2>2. Len(resizes) \in Nat /\ Len(resizes') \in Nat /\ MaxResizes \in Nat
    BY <2>1, MaxResizesAssumption DEF TypeOK
  <2>3. InputMgr!TypeOK'
    BY <1>8, InputTypes DEF InputStep, TypeOK
  <2>4. Len(resizes') <= MaxResizes + 1
    BY <1>5, <2>1, <2>2
  <2>5. TypeOK'
    BY <1>3, <1>8, <2>1, <2>3, <2>4 DEF TypeOK, glVars, Win!AllGeometries
  <2>6. Control' /\ Loaded' /\ Untold' /\ Room' /\ Exit' /\ FrameShowsSettings'
    BY <1>8, <2>1 DEF Control, Loaded, Untold, desktopVars, Room, Exit, Held, CleanExit,
                      FrameShowsSettings, EarlySteps, LateSteps, BodySteps, inputVars, glVars
  <2>7. QED
    BY <2>1, <2>5, <2>6
<1>9. QED
  BY <1>6, <1>7, <1>8

LEMMA ApplySettingsWithoutGlfwInv ==
  ASSUME IInv, ApplySettingsWithoutGlfw
  PROVE  IInv'
<1> USE DEF IInv, ApplySettingsWithoutGlfw
<1>1. InputMgr!Latest.wireframe \in BOOLEAN
  BY DEF TypeOK, InputMgr!TypeOK, InputMgr!Latest, InputMgr!GameInput
<1>2. WindowStep
  BY DEF WindowStep, desktopVars
<1>3. CASE InputMgr!Latest.fullscreen
  BY <1>2, <1>3, BodyFailsInv
<1>4. CASE ~InputMgr!Latest.fullscreen
  <2>1. InputMgr!TypeOK' /\ Win!TypeOK'
    BY <1>2, <1>4, InputTypes, WindowTypes DEF InputStep, TypeOK
  <2>2. TypeOK'
    BY <1>1, <1>4, <2>1 DEF TypeOK, desktopVars, Win!AllGeometries
  <2>3. Control' /\ Loaded' /\ Untold' /\ Reported'
    BY <1>4 DEF Control, Loaded, Untold, desktopVars, Reported, EarlySteps, LateSteps,
                BodySteps, inputVars, windowVars
  <2>4. Room' /\ Exit' /\ FrameShowsSettings'
    BY <1>4 DEF Room, Exit, Held, CleanExit, FrameShowsSettings, inputVars, EarlySteps, glVars
  <2>5. QED
    BY <2>2, <2>3, <2>4
<1>5. QED
  BY <1>3, <1>4

LEMMA DrawInv ==
  ASSUME IInv, Draw
  PROVE  IInv'
<1> USE DEF IInv, Draw
<1>1. TypeOK'
  BY InputStepTypes DEF InputStep, TypeOK
<1>2. Control' /\ Loaded' /\ Untold' /\ Reported'
  BY DEF Control, Loaded, Untold, desktopVars, Reported, EarlySteps, LateSteps, BodySteps,
         inputVars, windowVars, glVars
<1>3. Room' /\ Exit' /\ FrameShowsSettings'
  BY DEF Room, Exit, Held, CleanExit, FrameShowsSettings, glVars, EarlySteps
<1>4. QED
  BY <1>1, <1>2, <1>3

\* The next cycle begins only with GLFW initialised and without an error.
LEMMA SwapBuffersInv ==
  ASSUME IInv, SwapBuffers
  PROVE  IInv'
<1> USE DEF IInv, SwapBuffers
<1>1. TypeOK'
  BY InputStepTypes DEF InputStep, TypeOK
<1>2. phase' = "idle" /\ glfw' = Up
  <2>1. phase' = "idle" /\ UNCHANGED glfw /\ glfw.init /\ glfw.error = "no_error"
    BY DEF InputMgr!FinishCycle, Control
  <2>2. glfw \in [init : BOOLEAN, error : InputMgr!PendingErrors]
    BY DEF TypeOK, InputMgr!TypeOK
  <2>3. QED
    BY <2>1, <2>2 DEF Up
<1>3. Control' /\ Loaded' /\ Untold' /\ Reported'
  BY <1>2 DEF Control, Loaded, Untold, desktopVars, Reported, EarlySteps, LateSteps, BodySteps,
              windowVars, glVars
<1>4. Room' /\ Exit' /\ FrameShowsSettings'
  BY DEF Room, Exit, Held, CleanExit, FrameShowsSettings, glVars, EarlySteps
<1>5. QED
  BY <1>1, <1>3, <1>4

LEMMA SwapFailsInv ==
  ASSUME IInv, SwapFails
  PROVE  IInv'
<1>1. WindowStep
  BY DEF SwapFails, WindowStep, desktopVars
<1>2. QED
  BY <1>1, BodyFailsInv DEF SwapFails

-----------------------------------------------------------------------------
(***************************************************************************)
(* The ways out and the desktop                                            *)
(***************************************************************************)

LEMMA DestroyInv ==
  ASSUME IInv, Destroy
  PROVE  IInv'
<1> USE DEF IInv, Destroy
<1>1. InputMgr!TypeOK' /\ Win!TypeOK'
  BY InputTypes, WindowTypes DEF InputStep, WindowStep, desktopVars, TypeOK
<1>2. TypeOK'
  BY <1>1 DEF TypeOK, desktopVars, glVars, Win!AllGeometries
<1>3. phase' = "stopped" /\ ~glfw'.init
  BY DEF InputMgr!DestroyGlfw
<1>4. Control' /\ Loaded' /\ Untold' /\ Reported'
  BY <1>3 DEF Control, Loaded, Untold, desktopVars, Reported, EarlySteps, LateSteps, BodySteps,
              windowVars, glVars
<1>5. Room' /\ FrameShowsSettings'
  BY DEF Room, FrameShowsSettings
<1>6. Exit'
  <2>1. objects' = {"rectangle_ebo", "glyph_textures"} /\ objects' \intersect Programs = {}
    BY DEF Exit, Held, GlyphObjects, Programs
  <2>2. QED
    BY <1>3, <2>1 DEF Exit, Held, CleanExit, EarlySteps
<1>7. QED
  BY <1>2, <1>4, <1>5, <1>6

\* The end of run and a failure delete the shader programs there are.
LEMMA ReleaseInv ==
  ASSUME IInv, CleanUp \/ Unwind
  PROVE  IInv'
<1> USE DEF IInv, CleanUp, Unwind
<1>1. InputMgr!TypeOK' /\ Win!TypeOK'
  BY InputTypes, WindowTypes DEF InputStep, WindowStep, desktopVars, TypeOK
<1>2. TypeOK'
  BY <1>1 DEF TypeOK, desktopVars, Win!AllGeometries
<1>3. Control' /\ Loaded' /\ Untold' /\ Reported'
  BY DEF Control, Loaded, Untold, desktopVars, Reported, EarlySteps, LateSteps, BodySteps,
         inputVars, windowVars
<1>4. Room' /\ FrameShowsSettings'
  BY DEF Room, FrameShowsSettings
<1>5. Exit'
  <2>1. CASE CleanUp
    <3>1. objects' = {"rectangle_ebo"} \union GlyphObjects
      BY <2>1 DEF Exit, Held, Objects, GlyphObjects, RectangleObjects, Programs
    <3>2. QED
      BY <2>1, <3>1 DEF Exit, Held, CleanExit, EarlySteps
  <2>2. CASE Unwind
    BY <2>2 DEF Exit, Held, CleanExit, EarlySteps
  <2>3. QED
    BY <2>1, <2>2
<1>6. QED
  BY <1>2, <1>3, <1>4, <1>5

LEMMA RearrangeInv ==
  ASSUME IInv, Rearrange
  PROVE  IInv'
<1> USE DEF IInv, Rearrange
<1>1. WindowStep /\ UNCHANGED fullscreen
  BY DEF WindowStep, Win!Rearrange
<1>2. InputMgr!TypeOK' /\ Win!TypeOK'
  BY <1>1, InputTypes, WindowTypes DEF InputStep, TypeOK
<1>3. geometry' \in Win!AllGeometries
  BY <1>2 DEF Win!TypeOK, Win!AllGeometries
<1>4. /\ resizes' \in Seq(FramebufferSizes) /\ Len(resizes') <= Len(resizes) + 1
      /\ Reported' /\ UNCHANGED told
  BY <1>3, ResizeFacts DEF glVars
<1>5. Len(resizes') <= MaxResizes
  <2>1. Len(resizes) \in Nat /\ Len(resizes') \in Nat /\ MaxResizes \in Nat
    BY <1>4, MaxResizesAssumption DEF TypeOK
  <2>2. QED
    BY <1>4, <2>1
<1>6. Len(resizes') <= MaxResizes + 1
  BY <1>4, <1>5, MaxResizesAssumption
<1>7. TypeOK'
  BY <1>2, <1>4, <1>6 DEF TypeOK, glVars, mainVars, Win!AllGeometries
<1>8. Control' /\ Loaded' /\ Untold' /\ Room'
  BY <1>4, <1>5 DEF Control, Loaded, Untold, desktopVars, Room, EarlySteps, LateSteps,
                    BodySteps, inputVars, glVars, mainVars
<1>9. Exit' /\ FrameShowsSettings'
  BY <1>1 DEF Exit, Held, CleanExit, FrameShowsSettings, inputVars, glVars, mainVars,
              InputMgr!Latest, EarlySteps
<1>10. QED
  BY <1>4, <1>7, <1>8, <1>9

-----------------------------------------------------------------------------
(***************************************************************************)
(* The theorems                                                            *)
(***************************************************************************)

LEMMA InvNext == IInv /\ [Next]_vars => IInv'
<1> SUFFICES ASSUME IInv, [Next]_vars PROVE IInv'
  OBVIOUS
<1>1. CASE UNCHANGED vars
  <2>1. TypeOK'
    BY <1>1, InputStepTypes DEF InputStep, vars, IInv, TypeOK, mainVars
  <2>2. QED
    BY <1>1, <2>1 DEF vars, inputVars, desktopVars, windowVars, glVars, mainVars, IInv, Control,
                      Loaded, Reported, Untold, Room, Exit, Held, CleanExit,
                      FrameShowsSettings, InputMgr!Latest
<1>2. CASE Next
  BY <1>2, SetUpInv, SetUpFailsInv, EnterCycleInv, CloseLoopInv, PollKeyboardInv,
     SizeCallbackInv, CloseRequestInv, UnplugInv, PollReturnsInv, LeaveInputInv,
     ApplySettingsInv, ApplySettingsWithoutGlfwInv, DrawInv, SwapBuffersInv, SwapFailsInv,
     DestroyInv, ReleaseInv, RearrangeInv
     DEF Next, MainThread
<1>3. QED
  BY <1>1, <1>2

\* The invariant holds in every state.
LEMMA Inductive == Spec => []IInv
  BY InvInit, InvNext, PTL DEF Spec

\* Every variable keeps its type, through whatever step the engine fails at.
THEOREM EngineTypeCorrect == Spec => []TypeOK
  BY Inductive, PTL DEF IInv

\* No frame is drawn with settings other than those of the input of its cycle.
THEOREM FramesShowSettings == Spec => []FrameShowsSettings
  BY Inductive, PTL DEF IInv

\* main returns success only with the engine and GLFW down and all objects of OpenGL deleted but
\* rectangle_ebo and the glyphs' textures, and it never returns with a shader program left.
THEOREM ExitIsClean == Spec => []CleanExit
  BY Inductive, PTL DEF IInv, Exit

\* Once every resize is reported, the viewport and the projection are the framebuffer's, or still
\* the window's in screen coordinates if there has been none, for any scale of the display.
THEOREM SizesDoSettle == Spec => []SizesSettle
<1>1. IInv => SizesSettle
  BY DEF IInv, Reported, SizesSettle
<1>2. QED
  BY <1>1, Inductive, PTL

\* No OpenGL function is called before it is loaded, by a step, a callback or a destructor.
THEOREM GlIsLoaded == Spec => GlAfterLoad
<1>1. IInv /\ Next => (GlCall => loaded)
  <2> SUFFICES ASSUME IInv, GlCall, Next PROVE loaded
    OBVIOUS
  <2>1. pc \in GlSteps => loaded
    BY DEF IInv, Loaded, GlSteps, LateSteps, BodySteps
  <2>2. SizeCallback => loaded
    BY DEF SizeCallback, IInv, Control, Loaded, Untold, desktopVars, BodySteps, EarlySteps,
           LateSteps
  <2>3. Unwind /\ objects' # objects => loaded
    BY DEF IInv, Loaded, Unwind
  <2>4. QED
    BY <2>1, <2>2, <2>3 DEF GlCall
<1>2. IInv /\ [Next]_vars => [GlCall => loaded]_vars
  BY <1>1
<1>3. QED
  BY <1>2, Inductive, PTL DEF Spec, GlAfterLoad

-----------------------------------------------------------------------------
(***************************************************************************)
(* The engine is the client that InputManager takes it for                 *)
(***************************************************************************)

\* What that client sees of GLFW.
SeenGlfw == IF phase = "idle" THEN Up ELSE glfw

\* A step of the input manager that sees GLFW as it is, before and after, is a step of what
\* the client sees.
LEMMA SeenStep ==
  ASSUME SeenGlfw = glfw, SeenGlfw' = glfw',
         \/ InputMgr!ProcessNewInput
         \/ InputMgr!UnknownKeyEvent
         \/ InputMgr!PlatformError
         \/ InputMgr!PollReturns
         \/ InputMgr!PollCrashes
         \/ InputMgr!QuitLoop
         \/ InputMgr!FinishCycle
         \/ InputMgr!LeaveLoop
         \/ InputMgr!DestroyGlfw
         \/ \E key \in TrackedKeys, down \in BOOLEAN : InputMgr!KeyEvent(key, down)
         \/ \E key \in TrackedKeys : InputMgr!KeyRepeat(key)
  PROVE  Client!Next
<1> USE DEF SeenGlfw, Up
<1>1. InputMgr!ProcessNewInput => Client!ProcessNewInput
  BY DEF InputMgr!ProcessNewInput, Client!ProcessNewInput, InputMgr!Prepared,
     Client!Prepared, InputMgr!oldest, Client!oldest
<1>2. InputMgr!UnknownKeyEvent => Client!UnknownKeyEvent
  BY DEF InputMgr!UnknownKeyEvent, Client!UnknownKeyEvent, InputMgr!Polling,
     Client!Polling, InputMgr!Handled, Client!Handled
<1>3. InputMgr!PlatformError => Client!PlatformError
  BY DEF InputMgr!PlatformError, Client!PlatformError
<1>4. InputMgr!PollReturns => Client!PollReturns
  BY DEF InputMgr!PollReturns, Client!PollReturns, InputMgr!Handled, Client!Handled
<1>5. InputMgr!PollCrashes => Client!PollCrashes
  BY DEF InputMgr!PollCrashes, Client!PollCrashes
<1>6. InputMgr!QuitLoop => Client!QuitLoop
  BY DEF InputMgr!QuitLoop, Client!QuitLoop, InputMgr!Latest, Client!Latest
<1>7. InputMgr!FinishCycle => Client!FinishCycle
  BY DEF InputMgr!FinishCycle, Client!FinishCycle, InputMgr!Latest, Client!Latest
<1>8. InputMgr!LeaveLoop => Client!LeaveLoop
  BY DEF InputMgr!LeaveLoop, Client!LeaveLoop, InputMgr!Latest, Client!Latest,
     InputMgr!Handled, Client!Handled
<1>9. InputMgr!DestroyGlfw => Client!DestroyGlfw
  BY DEF InputMgr!DestroyGlfw, Client!DestroyGlfw
<1>10. ASSUME NEW key \in TrackedKeys, NEW down \in BOOLEAN, InputMgr!KeyEvent(key, down)
       PROVE  Client!KeyEvent(key, down)
  <2>1. InputMgr!Applied(input_buffer, key, down) = Client!Applied(input_buffer, key, down)
    BY Zenon DEF InputMgr!Applied, Client!Applied, InputMgr!Updated, Client!Updated
  <2>2. QED
    BY <1>10, <2>1 DEF InputMgr!KeyEvent, Client!KeyEvent, InputMgr!Polling, Client!Polling,
       InputMgr!Handled, Client!Handled
<1>11. ASSUME NEW key \in TrackedKeys, InputMgr!KeyRepeat(key)
       PROVE  Client!KeyRepeat(key)
  BY <1>11 DEF InputMgr!KeyRepeat, Client!KeyRepeat, InputMgr!Polling, Client!Polling,
     InputMgr!Handled, Client!Handled
<1>12. QED
  BY <1>1, <1>2, <1>3, <1>4, <1>5, <1>6, <1>7, <1>8, <1>9, <1>10, <1>11
     DEF Client!Next, TrackedKeys, ControlKeys, Client!TrackedKeys, Client!ControlKeys

\* GLFW is seen as it is wherever the loop is at work.
LEMMA SeenAsIs ==
  ASSUME Control, phase = "idle" => pc \in LateSteps
  PROVE  SeenGlfw = glfw
BY DEF Control, SeenGlfw

\* Until the loop begins the client sees no step.
LEMMA UnseenStep ==
  ASSUME UNCHANGED loopVars, phase = "idle" \/ UNCHANGED glfw
  PROVE  UNCHANGED Client!vars
BY DEF loopVars, Client!vars

LEMMA ClientStep ==
  ASSUME IInv, IInv', Next
  PROVE  Client!Next \/ UNCHANGED Client!vars
<1> USE DEF IInv
<1>1. ASSUME NEW step \in SetupSteps, SetUp(step) \/ SetUpFails(step)
      PROVE  UNCHANGED Client!vars
  <2>1. phase = "idle" /\ UNCHANGED loopVars
    BY <1>1, SetupStepsAre DEF SetUp, SetUpFails, Control, EarlySteps, LateSteps
  <2>2. QED
    BY <2>1, UnseenStep
<1>2. CASE EnterCycle \/ CloseLoop
  <2>1. /\ pc = "loop" /\ phase' # "idle"
        /\ InputMgr!ProcessNewInput \/ InputMgr!LeaveLoop
    BY <1>2 DEF EnterCycle, CloseLoop, InputMgr!ProcessNewInput, InputMgr!LeaveLoop
  <2>2. SeenGlfw = glfw /\ SeenGlfw' = glfw'
    BY <2>1, SeenAsIs DEF LateSteps, SeenGlfw
  <2>3. QED
    BY <2>1, <2>2, SeenStep
<1>3. CASE PollKeyboard
  <2>1. phase = "polling" /\ UNCHANGED phase
    BY <1>3 DEF PollKeyboard, InputMgr!KeyEvent, InputMgr!KeyRepeat, InputMgr!UnknownKeyEvent,
       InputMgr!PlatformError, InputMgr!Polling
  <2>2. SeenGlfw = glfw /\ SeenGlfw' = glfw'
    BY <2>1 DEF SeenGlfw
  <2>3. QED
    BY <1>3, <2>2, SeenStep DEF PollKeyboard
<1>4. CASE PollReturns \/ PollCrashes \/ QuitLoop \/ Destroy
  <2>1. /\ phase # "idle" /\ phase' # "idle"
        /\ \/ InputMgr!PollReturns \/ InputMgr!PollCrashes
           \/ InputMgr!QuitLoop \/ InputMgr!DestroyGlfw
    BY <1>4 DEF PollReturns, PollCrashes, QuitLoop, Destroy, InputMgr!PollReturns,
       InputMgr!PollCrashes, InputMgr!QuitLoop, InputMgr!DestroyGlfw
  <2>2. SeenGlfw = glfw /\ SeenGlfw' = glfw'
    BY <2>1 DEF SeenGlfw
  <2>3. QED
    BY <2>1, <2>2, SeenStep
<1>5. ASSUME BodyFails, pc \in {"fullscreen", "swap"}
      PROVE  Client!Next
  <2>1. InputMgr!LeaveLoop /\ phase' # "idle"
    BY <1>5 DEF BodyFails, InputMgr!LeaveLoop
  <2>2. phase # "idle"
    BY <1>5 DEF Control
  <2>3. SeenGlfw = glfw /\ SeenGlfw' = glfw'
    BY <2>1, <2>2 DEF SeenGlfw
  <2>4. QED
    BY <2>1, <2>3, SeenStep
<1>6. CASE ApplySettings \/ ApplySettingsWithoutGlfw \/ SwapFails
  <2>1. CASE BodyFails
    BY <1>5, <1>6, <2>1 DEF ApplySettings, ApplySettingsWithoutGlfw, SwapFails
  <2>2. CASE UNCHANGED inputVars
    BY <2>2, UnseenStep DEF inputVars, loopVars
  <2>3. QED
    BY <1>6, <2>1, <2>2 DEF ApplySettings, ApplySettingsWithoutGlfw, SwapFails
<1>7. CASE SwapBuffers
  <2>1. InputMgr!FinishCycle /\ phase # "idle" /\ pc' \in LateSteps
    BY <1>7 DEF SwapBuffers, InputMgr!FinishCycle, LateSteps
  <2>2. SeenGlfw = glfw /\ SeenGlfw' = glfw'
    BY <2>1 DEF SeenGlfw, Control
  <2>3. QED
    BY <2>1, <2>2, SeenStep
<1>8. CASE SizeCallback \/ CloseRequest \/ Unplug \/ Draw \/ CleanUp \/ Unwind \/ Rearrange
  <2>1. UNCHANGED inputVars
    BY <1>8 DEF SizeCallback, CloseRequest, Unplug, Draw, CleanUp, Unwind, Rearrange
  <2>2. QED
    BY <2>1, UnseenStep DEF inputVars, loopVars
<1>9. QED
  BY <1>1, <1>2, <1>3, <1>4, <1>6, <1>7, <1>8 DEF Next, MainThread

LEMMA ClientInit == Init => Client!Init
BY DEF Init, Client!Init, TrackedKeys, ControlKeys, Client!TrackedKeys, Client!ControlKeys

\* The engine is a client of the input manager as InputManager describes it, whatever
\* fails in or before its loop: what is proved there of the input holds in the engine.
THEOREM EngineIsClient == Spec => LoopIsClient
<1>1. IInv /\ IInv' /\ [Next]_vars => [Client!Next]_(Client!vars)
  <2> SUFFICES ASSUME IInv, IInv', [Next]_vars PROVE Client!Next \/ UNCHANGED Client!vars
    OBVIOUS
  <2>1. CASE UNCHANGED vars
    BY <2>1, UnseenStep DEF vars, inputVars, loopVars
  <2>2. QED
    BY <2>1, ClientStep
<1>2. QED
  BY <1>1, ClientInit, Inductive, PTL DEF Spec, LoopIsClient

=============================================================================
