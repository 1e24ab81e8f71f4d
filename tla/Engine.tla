------------------------------- MODULE Engine -------------------------------
(***************************************************************************)
(* The program (main.cpp, core.cpp) around its components: Rtek_Engine is  *)
(* initialised step by step, runs its loop and is destroyed, and every     *)
(* step may fail and unwind from where it is.  The input manager and the   *)
(* window are the modules InputManager and Window; GLFW's state is shared  *)
(* with the former.  Of the renderer this module keeps what outlives a     *)
(* frame: whether OpenGL is loaded, the viewport, the two projections, the *)
(* polygon mode and the objects it has created.                            *)
(*                                                                         *)
(* A geometry stands here for the size of the window, which the program    *)
(* asks for in screen coordinates.  The desktop changes it at any time;    *)
(* the changes reach the program one by one, in order and late, as calls   *)
(* of framebuffer_size_callback inside a poll, and in pixels.  The model   *)
(* has one display, whose scale Pixels is; both sizes are just numbers to  *)
(* the program, which takes either for the other.                          *)
(***************************************************************************)
EXTENDS Input, Sequences

CONSTANTS
  MaxEvents,     \* bound on the key events of one poll
  MaxResizes,    \* bound on the resizes the desktop has ahead of the program
  Geometries, MonitorArea,
  Pixels         \* for each size of the window that of its framebuffer

ASSUME MaxEventsAssumption == MaxEvents \in Nat

ASSUME MaxResizesAssumption == MaxResizes \in Nat \ {0}

ASSUME MonitorAreaAssumption == MonitorArea \notin Geometries

ASSUME PixelsAssumption ==
  /\ DOMAIN Pixels = Geometries \union {MonitorArea}
  /\ \A g, h \in DOMAIN Pixels : Pixels[g] = Pixels[h] => g = h

VARIABLES
  m_input, newest, input_buffer, phase, glfw, keys, events,      \* InputManager
  fullscreen, geometry, saved, monitor, returned, left,          \* Window
  pc,             \* the step main is at
  m_initialized,  \* Rtek_Engine::m_initialized
  close,          \* glfwWindowShouldClose
  resizes,        \* the sizes the framebuffer has had that are not reported yet
  told,           \* history: a size has been reported
  loaded,         \* gladLoadGLLoader has set the OpenGL functions
  viewport,       \* the size last given to glViewport
  projection,     \* the size g_renderer_state.screen_ortho_projection was made for
  uniform,        \* the size text_shader's "projection" was made for
  wireframe,      \* glPolygonMode
  objects,        \* the objects of OpenGL the program has created and not deleted
  exit            \* main's return value, "none" before it returns

inputVars == <<m_input, newest, input_buffer, phase, glfw, keys, events>>
loopVars == <<m_input, newest, input_buffer, phase, keys, events>>
windowVars == <<fullscreen, geometry, saved, monitor, returned, left>>
glVars == <<loaded, viewport, projection, uniform, wireframe, objects>>
mainVars == <<pc, m_initialized, close, exit>>
desktopVars == <<windowVars, resizes, told>>
vars == <<inputVars, desktopVars, glVars, mainVars>>

InputMgr == INSTANCE InputManager

Win == INSTANCE Window

-----------------------------------------------------------------------------
(***************************************************************************)
(* The steps of Rtek_Engine::initialize and of run up to its loop          *)
(***************************************************************************)

\* Fault of the set-up: the glyphs are loaded before OpenGL.
FollowedByInHaste ==
  [logger               |-> "glfw",
   glfw                 |-> "managers",
   managers             |-> "prepare_window",
   prepare_window       |-> "create_window",
   create_window        |-> "icon",
   icon                 |-> "make_current",
   make_current         |-> "size_callback",
   size_callback        |-> "key_callback",
   key_callback         |-> "glyphs",
   gl_api               |-> "simple_shader",
   glyphs               |-> "gl_api",
   simple_shader        |-> "text_shader",
   text_shader          |-> "text_projection",
   text_projection      |-> "loop"]

\* Each step, and the one that follows it.  "managers" stands for the three make_unique.
FollowedBy ==
  [logger               |-> "glfw",
   glfw                 |-> "managers",
   managers             |-> "prepare_window",
   prepare_window       |-> "create_window",
   create_window        |-> "icon",
   icon                 |-> "make_current",
   make_current         |-> "size_callback",
   size_callback        |-> "key_callback",
   key_callback         |-> "gl_api",
   gl_api               |-> "glyphs",
   glyphs               |-> "simple_shader",
   simple_shader        |-> "text_shader",
   text_shader          |-> "text_projection",
   text_projection      |-> "loop"]

SetupSteps == DOMAIN FollowedBy

\* Steps whose failure goes through handle_error or calls glfw::destroy itself.
Terminating == {"prepare_window", "create_window", "icon", "make_current", "size_callback",
                "key_callback", "gl_api", "text_projection"}

\* Steps that also fail without a GLFW error: no log directory, no memory, no file, a
\* shader that does not link, no OpenGL.
Failing == {"logger", "glfw", "managers", "icon", "gl_api", "glyphs", "simple_shader",
            "text_shader"}

Programs == {"simple_shader", "text_shader"}

\* What load_font_glyphs and run before its loop create besides.  All of a glyph's textures
\* are one object here.
GlyphObjects == {"text_vao", "text_vbo", "glyph_textures"}

RectangleObjects == {"rectangle_vao", "rectangle_vbo", "rectangle_ebo"}

Objects == Programs \union GlyphObjects \union RectangleObjects

\* Window::initialize has run and the window is still there.
WindowExists ==
  /\ glfw.init
  /\ pc \notin {"logger", "glfw", "managers", "prepare_window", "create_window", "icon"}

\* GLFW after glfwTerminate.
Terminated == [init |-> FALSE, error |-> "no_error"]

FramebufferSizes == {Pixels[g] : g \in Win!AllGeometries}

TypeOK ==
  /\ InputMgr!TypeOK
  /\ Win!TypeOK
  /\ pc \in SetupSteps \union {"loop", "input", "fullscreen", "draw", "swap", "cleanup",
                               "unwind", "destroy", "exited", "crashed"}
  /\ m_initialized \in BOOLEAN
  /\ close \in BOOLEAN
  /\ resizes \in Seq(FramebufferSizes) /\ Len(resizes) <= MaxResizes + 1
  /\ told \in BOOLEAN
  /\ loaded \in BOOLEAN
  /\ {viewport, projection} \subseteq Win!AllGeometries \union FramebufferSizes
  /\ uniform \in Win!AllGeometries
  /\ wireframe \in BOOLEAN
  /\ objects \subseteq Objects
  /\ exit \in {"none", "success", "failure"}

Init ==
  /\ m_input = [i \in 0..1 |-> ZeroedInput]
  /\ newest = 0
  /\ input_buffer = ZeroedInput
  /\ phase = "idle"
  /\ glfw = Terminated
  /\ keys = [k \in TrackedKeys |-> FALSE]
  /\ events = 0
  /\ Win!Init
  /\ pc = "logger"
  /\ m_initialized = FALSE
  /\ close = FALSE
  /\ resizes = <<>>
  /\ told = FALSE
  /\ loaded = FALSE
  /\ viewport = geometry
  /\ projection = geometry
  /\ uniform = geometry
  /\ wireframe = FALSE
  /\ objects = {}
  /\ exit = "none"

\* What a step creates that ends well: the glyphs' objects, and behind the projection those of
\* the rectangle.
Creates(step) ==
  CASE step \in Programs         -> {step}
    [] step = "glyphs"          -> GlyphObjects
    [] step = "text_projection" -> RectangleObjects
    [] OTHER                    -> {}

\* The step ends well.
SetUp(step) ==
  /\ pc = step
  /\ pc' = FollowedBy[step]
  /\ loaded' = (loaded \/ step = "gl_api")
  /\ objects' = objects \union Creates(step)
  /\ glfw' = IF step = "glfw" THEN [glfw EXCEPT !.init = TRUE] ELSE glfw
  /\ viewport' = IF step = "gl_api" THEN geometry ELSE viewport
  /\ IF step = "text_projection"
     THEN projection' = geometry /\ uniform' = geometry
     ELSE UNCHANGED <<projection, uniform>>
  /\ m_initialized' = (m_initialized \/ step = "glyphs")
  /\ UNCHANGED <<loopVars, desktopVars, close, wireframe, exit>>

\* The step fails, with GLFW terminated or not, and RK_CHECK returns from there.  A shader
\* program has its handle before its sources are read, and OpenGL may be loaded before the
\* debug output or the viewport fails; a failing load_font_glyphs has created nothing.
SetUpFails(step) ==
  /\ pc = step
  /\ \/ step \in Terminating /\ glfw' = Terminated
     \/ step \in Failing /\ UNCHANGED glfw
  /\ pc' = "unwind"
  /\ objects' = objects \union ({step} \intersect Programs)
  /\ loaded' \in IF step = "gl_api" THEN BOOLEAN ELSE {loaded}
  /\ UNCHANGED <<loopVars, desktopVars, viewport, projection, uniform, wireframe,
                 m_initialized, close, exit>>

-----------------------------------------------------------------------------
(***************************************************************************)
(* The loop                                                                *)
(***************************************************************************)

\* Fault of process_new_input: the inputs are not swapped.
EnterCycleUnswapped ==
  /\ pc = "loop"
  /\ ~close
  /\ pc' = "input"
  /\ phase' = "polling"
  /\ events' = 0
  /\ UNCHANGED <<m_input, newest, input_buffer, glfw, keys, desktopVars, glVars,
                 m_initialized, close, exit>>

\* `while (!window.should_close_window() && running)', then process_new_input.
EnterCycle ==
  /\ pc = "loop"
  /\ ~close
  /\ pc' = "input"
  /\ InputMgr!ProcessNewInput
  /\ UNCHANGED <<desktopVars, glVars, m_initialized, close, exit>>

CloseLoop ==
  /\ pc = "loop"
  /\ close
  /\ pc' = "cleanup"
  /\ UNCHANGED glfw
  /\ InputMgr!LeaveLoop
  /\ UNCHANGED <<desktopVars, glVars, m_initialized, close, exit>>

\* What GLFW does with the keyboard while it polls.
PollKeyboard ==
  /\ pc = "input"
  /\ \/ \E key \in TrackedKeys, down \in BOOLEAN : InputMgr!KeyEvent(key, down)
     \/ \E key \in TrackedKeys : InputMgr!KeyRepeat(key)
     \/ InputMgr!UnknownKeyEvent
     \/ InputMgr!PlatformError
  /\ UNCHANGED <<desktopVars, glVars, mainVars>>

\* Fault of the callback: only the viewport is set.
SizeCallbackViewportOnly ==
  /\ phase = "polling"
  /\ glfw.init
  /\ resizes # <<>>
  /\ resizes' = Tail(resizes)
  /\ told' = TRUE
  /\ viewport' = Head(resizes)
  /\ UNCHANGED <<inputVars, windowVars, loaded, projection, uniform, wireframe, objects,
                 mainVars>>

\* framebuffer_size_callback
SizeCallback ==
  /\ phase = "polling"
  /\ glfw.init
  /\ resizes # <<>>
  /\ resizes' = Tail(resizes)
  /\ told' = TRUE
  /\ viewport' = Head(resizes)
  /\ projection' = Head(resizes)
  /\ UNCHANGED <<inputVars, windowVars, loaded, uniform, wireframe, objects, mainVars>>

\* The user closes the window.
CloseRequest ==
  /\ phase = "polling"
  /\ glfw.init
  /\ close' = TRUE
  /\ UNCHANGED <<inputVars, desktopVars, glVars, pc, m_initialized, exit>>

\* GLFW learns in a poll that the monitor is gone.
Unplug ==
  /\ phase = "polling"
  /\ glfw.init
  /\ Win!Unplug
  /\ UNCHANGED <<inputVars, resizes, told, glVars, mainVars>>

\* Fault of the loop: the request to quit is not looked at.
PollReturnsRegardless ==
  /\ pc = "input"
  /\ glfw.init => Len(resizes) < MaxResizes
  /\ InputMgr!PollReturns
  /\ pc' = IF phase' = "failed" THEN "unwind" ELSE "fullscreen"
  /\ UNCHANGED <<desktopVars, glVars, m_initialized, close, exit>>

\* The poll returns, with fewer resizes than the bound still on their way.
PollReturns ==
  /\ pc = "input"
  /\ glfw.init => Len(resizes) < MaxResizes
  /\ InputMgr!PollReturns
  /\ pc' = IF phase' = "failed" THEN "unwind"
           ELSE IF InputMgr!Latest'.request_quit THEN "input" ELSE "fullscreen"
  /\ UNCHANGED <<desktopVars, glVars, m_initialized, close, exit>>

PollCrashes ==
  /\ pc = "input"
  /\ InputMgr!PollCrashes
  /\ pc' = "crashed"
  /\ UNCHANGED <<desktopVars, glVars, m_initialized, close, exit>>

QuitLoop ==
  /\ pc = "input"
  /\ InputMgr!QuitLoop
  /\ pc' = "cleanup"
  /\ UNCHANGED <<desktopVars, glVars, m_initialized, close, exit>>

\* The body fails with a GLFW error and run returns; handle_error has terminated GLFW or not.
BodyFails ==
  /\ InputMgr!LeaveLoop
  /\ pc' = "unwind"
  /\ UNCHANGED <<glVars, m_initialized, close, exit>>

\* The desktop tells of the framebuffer's new size, if the window has one.
Resize ==
  /\ resizes' = IF geometry' = geometry THEN resizes ELSE Append(resizes, Pixels[geometry'])
  /\ UNCHANGED told

\* Fault of the loop: the polygon mode is taken from the old input.
ApplySettingsLate ==
  /\ pc = "fullscreen"
  /\ glfw.init
  /\ Win!SetFullscreen(InputMgr!Latest.fullscreen)
  /\ Resize
  /\ returned' = "ok"
  /\ wireframe' = m_input[InputMgr!oldest].wireframe
  /\ pc' = "draw"
  /\ UNCHANGED <<inputVars, loaded, viewport, projection, uniform, objects,
                 m_initialized, close, exit>>

\* window.set_fullscreen, and draw_wireframe if it returns ok.
ApplySettings ==
  /\ pc = "fullscreen"
  /\ glfw.init
  /\ Win!SetFullscreen(InputMgr!Latest.fullscreen)
  /\ Resize
  /\ \/ /\ returned' = "ok"
        /\ wireframe' = InputMgr!Latest.wireframe
        /\ pc' = "draw"
        /\ UNCHANGED <<inputVars, loaded, viewport, projection, uniform, objects,
                       m_initialized, close, exit>>
     \/ returned' = "platform_error" /\ glfw' = Terminated /\ BodyFails
     \/ returned' = "invalid_value" /\ UNCHANGED glfw /\ BodyFails
     \/ /\ returned' = "undefined"
        /\ pc' = "crashed"
        /\ UNCHANGED <<inputVars, glVars, m_initialized, close, exit>>

\* The same after the poll has returned ok with GLFW terminated in it: the window answers
\* that it is not fullscreen, and asking for fullscreen fails.
ApplySettingsWithoutGlfw ==
  /\ pc = "fullscreen"
  /\ ~glfw.init
  /\ UNCHANGED desktopVars
  /\ IF InputMgr!Latest.fullscreen
     THEN glfw' = Terminated /\ BodyFails
     ELSE /\ wireframe' = InputMgr!Latest.wireframe
          /\ pc' = "draw"
          /\ UNCHANGED <<inputVars, loaded, viewport, projection, uniform, objects,
                         m_initialized, close, exit>>

\* The shapes and the two texts are drawn.
Draw ==
  /\ pc = "draw"
  /\ pc' = "swap"
  /\ UNCHANGED <<inputVars, desktopVars, glVars, m_initialized, close, exit>>

\* swap_buffers ends well and the log is flushed.
SwapBuffers ==
  /\ pc = "swap"
  /\ InputMgr!FinishCycle
  /\ pc' = "loop"
  /\ UNCHANGED <<desktopVars, glVars, m_initialized, close, exit>>

SwapFails ==
  /\ pc = "swap"
  /\ glfw' = Terminated
  /\ BodyFails
  /\ UNCHANGED desktopVars

-----------------------------------------------------------------------------
(***************************************************************************)
(* The ways out                                                            *)
(***************************************************************************)

\* Fault of the end of run: the second shader program is not deleted.
CleanUpFirst ==
  /\ pc = "cleanup"
  /\ pc' = "destroy"
  /\ objects' = objects \ {"rectangle_vao", "rectangle_vbo", "simple_shader"}
  /\ UNCHANGED <<inputVars, desktopVars, loaded, viewport, projection, uniform, wireframe,
                 m_initialized, close, exit>>

\* The end of run: the vertex array and buffer and both shader programs are deleted, and not
\* rectangle_ebo.
CleanUp ==
  /\ pc = "cleanup"
  /\ pc' = "destroy"
  /\ objects' = objects \ ({"rectangle_vao", "rectangle_vbo"} \union Programs)
  /\ UNCHANGED <<inputVars, desktopVars, loaded, viewport, projection, uniform, wireframe,
                 m_initialized, close, exit>>

\* Rtek_Engine::destroy, in which Renderer::destroy deletes the text's buffers and not the
\* glyphs' textures, and after which main returns 0.
Destroy ==
  /\ pc = "destroy"
  /\ m_initialized
  /\ InputMgr!DestroyGlfw
  /\ m_initialized' = FALSE
  /\ pc' = "exited"
  /\ exit' = "success"
  /\ objects' = objects \ {"text_vao", "text_vbo"}
  /\ UNCHANGED <<desktopVars, loaded, viewport, projection, uniform, wireframe, close>>

\* initialize or run has failed: the destructors of the shader programs delete those that
\* have a handle, and main returns 1 without destroying the engine.
Unwind ==
  /\ pc = "unwind"
  /\ objects' = objects \ Programs
  /\ pc' = "exited"
  /\ exit' = "failure"
  /\ UNCHANGED <<inputVars, desktopVars, loaded, viewport, projection, uniform, wireframe,
                 m_initialized, close>>

\* The user rearranges the desktop while the program runs, in a poll never so fast that it
\* could not return.
Rearrange ==
  /\ WindowExists
  /\ Len(resizes) < IF phase = "polling" THEN MaxResizes - 1 ELSE MaxResizes
  /\ \E g \in Geometries \ {geometry} : Win!Rearrange(g)
  /\ Resize
  /\ UNCHANGED <<inputVars, glVars, mainVars>>

-----------------------------------------------------------------------------

MainThread ==
  \/ \E step \in SetupSteps : SetUp(step) \/ SetUpFails(step)
  \/ EnterCycle
  \/ CloseLoop
  \/ PollReturns
  \/ PollCrashes
  \/ QuitLoop
  \/ ApplySettings
  \/ ApplySettingsWithoutGlfw
  \/ Draw
  \/ SwapBuffers
  \/ SwapFails
  \/ CleanUp
  \/ Destroy
  \/ Unwind

Next ==
  \/ MainThread
  \/ PollKeyboard
  \/ SizeCallback
  \/ CloseRequest
  \/ Unplug
  \/ Rearrange

\* The main thread runs, and glfwPollEvents calls the callbacks it owes.
Fairness ==
  /\ WF_vars(MainThread)
  /\ WF_vars(SizeCallback)

Spec == Init /\ [][Next]_vars /\ Fairness

-----------------------------------------------------------------------------
(***************************************************************************)
(* Properties                                                              *)
(***************************************************************************)

\* A frame is drawn with the settings the user has toggled, and the window is in the mode
\* they ask for, whatever keys, resizes and unplugged monitors the poll before it brought.
FrameShowsSettings ==
  pc = "draw" /\ glfw.init =>
    /\ fullscreen = InputMgr!Latest.fullscreen
    /\ wireframe = InputMgr!Latest.wireframe

\* A step that calls OpenGL and goes on to the next one.
GlSteps == {"glyphs", "simple_shader", "text_shader", "text_projection", "fullscreen",
            "draw", "cleanup", "destroy"}

GlCall ==
  \/ pc \in GlSteps /\ pc' \notin {pc, "unwind", "crashed"}
  \/ SizeCallback
  \/ Unwind /\ objects' # objects

\* OpenGL's functions are null until gladLoadGLLoader sets them.  None is called before,
\* neither by a step of the set-up, nor by a callback, nor by the destructor of a shader
\* program when a step has failed.
GlAfterLoad == [][GlCall => loaded]_vars

\* The viewport comes from a query in setup_gl_api, the projection from another in run and
\* both from the callback later on.  Whenever every resize has been reported, both are the
\* present size, whenever the resizes happened: that of the framebuffer once the callback has
\* been called, but until then the window's in screen coordinates, which on a scaled display
\* is not that of the framebuffer the first frames are drawn to.
SizesSettle ==
  /\ pc \in {"loop", "input", "fullscreen", "draw", "swap"}
  /\ resizes = <<>>
  => /\ viewport = projection
     /\ viewport = IF told THEN Pixels[geometry] ELSE geometry

\* The program returns with no shader program left, and main returns 0 only with the engine and
\* GLFW down and all objects of OpenGL deleted but two kinds: run does not delete rectangle_ebo
\* nor destroy the glyphs' textures, whose end is that of the context.
CleanExit ==
  /\ exit # "none" => objects \intersect Programs = {}
  /\ exit = "success" =>
       /\ ~glfw.init /\ ~m_initialized
       /\ objects = {"rectangle_ebo", "glyph_textures"}

\* The release of Escape ends the program, or a failed poll does.
EscapeExits ==
  pc = "input" /\ input_buffer.request_quit ~> pc \in {"exited", "crashed"}

\* The engine uses the input manager as the module InputManager says its client does, so
\* what is shown there holds here.  Until the loop begins the client knows nothing of GLFW.
Client == INSTANCE InputManager WITH
  glfw <- IF phase = "idle" THEN [init |-> TRUE, error |-> "no_error"] ELSE glfw

LoopIsClient == Client!Init /\ [][Client!Next]_(Client!vars)

\* Text is drawn in screen space: once a resize has been reported, the projection the text
\* is drawn with is the window's (core.cpp:94-95).  Stated for a display that is not scaled.
TextIsScreenSpace == pc = "draw" /\ resizes = <<>> => uniform = geometry

=============================================================================
