-------------------------------- MODULE Setup --------------------------------
(***************************************************************************)
(* How the window and OpenGL are set up, call by call:                     *)
(* Window_Manager::create_window (window_manager.cpp) with                 *)
(* Renderer::prepare_window and Window::initialize, then                   *)
(* Renderer::setup_gl_api.  Engine has each of these as one step.          *)
(*                                                                         *)
(* GLFW keeps its last error, and OpenGL a flag for each kind of error,    *)
(* until the program asks for it, so an error nobody asks for is found by  *)
(* a later check.  Both libraries and stb_image are external.  The build   *)
(* is one without assertions.                                              *)
(***************************************************************************)
EXTENDS Naturals

CONSTANTS
  NumIcons,   \* the icons of set_window_icon
  GlErrors    \* the kinds of OpenGL's errors

VARIABLES
  pc,             \* the call that comes next
  enable_debug,   \* Renderer::m_config.enable_debug
  initialized,    \* GLFW is initialised
  error,          \* GLFW's error, not asked for yet, and the call that raised it
  failure,        \* what the set-up has failed with, in which check, for which calls
  images,         \* the icons whose pixels are allocated
  flags,          \* for each kind of OpenGL's errors the call that raised it, or "none"
  callback,       \* ogl_debug_callback is installed
  was_err,        \* handle_ogl_error's local
  raisers,        \* history: the calls whose errors handle_ogl_error has taken
  logged          \* history: the kinds of OpenGL's errors that were logged

glVars == <<flags, callback, was_err, raisers, logged>>
vars == <<pc, enable_debug, initialized, error, failure, images, glVars>>

NoError == [code |-> "no_error", by |-> "none"]

\* The calls after which handle_error is called, and what comes after each.
FollowedBy ==
  [hints         |-> "create",
   set_icon      |-> "geometry",
   make_current  |-> "size_callback",
   size_callback |-> "key_callback",
   key_callback  |-> "is_current",
   is_current    |-> "load_gl",
   window_size   |-> "viewport"]

Checked == DOMAIN FollowedBy

Steps == Checked \union {"create", "icons", "geometry", "load_gl", "debug", "gl_errors",
                         "state", "viewport"}

TypeOK ==
  /\ pc \in Steps \union {"done", "failed"}
  /\ {enable_debug, initialized, callback, was_err} \subseteq BOOLEAN
  /\ error \in [code : {"no_error", "invalid_value", "other"}, by : Steps \union {"none"}]
  /\ failure \in [status : {"ok", "window_error", "io_error", "invalid_value",
                            "platform_error", "renderer_error"},
                  at : Steps \union {"none"}, by : SUBSET Steps]
  /\ images \subseteq 1..NumIcons
  /\ flags \in [GlErrors -> Steps \union {"none"}]
  /\ raisers \subseteq Steps
  /\ logged \subseteq GlErrors

Init ==
  /\ pc = "hints"
  /\ enable_debug \in BOOLEAN
  /\ initialized = TRUE
  /\ error = NoError
  /\ failure = [status |-> "ok", at |-> "none", by |-> {}]
  /\ images = {}
  /\ flags = [e \in GlErrors |-> "none"]
  /\ callback = FALSE
  /\ was_err = FALSE
  /\ raisers = {}
  /\ logged = {}

-----------------------------------------------------------------------------
(***************************************************************************)
(* Calls of GLFW                                                           *)
(***************************************************************************)

\* RK_CHECK returns a status to whoever called, up to main.
Fails(status, by) ==
  /\ pc' = "failed"
  /\ failure' = [status |-> status, at |-> pc, by |-> by]

Passes(next) == pc' = next /\ UNCHANGED failure

\* GLFW's error after the call that comes next, which raises one or not.
Raised == {error} \union [code : {"invalid_value", "other"}, by : {pc}]

\* The call has raised r or left it: handle_error.
Handle(r) ==
  /\ error' = NoError
  /\ initialized' = (r.code # "other")
  /\ CASE r.code = "no_error"      -> Passes(FollowedBy[pc])
       [] r.code = "invalid_value" -> Fails("invalid_value", {r.by})
       [] r.code = "other"         -> Fails("platform_error", {r.by})

\* Fault of set_window_icon: no check.
CallUncheckedIcon(step) ==
  /\ pc = step
  /\ IF step = "set_icon"
     THEN error' \in Raised /\ Passes(FollowedBy[pc]) /\ UNCHANGED initialized
     ELSE \E r \in Raised : Handle(r)
  /\ images' = IF step = "set_icon" /\ pc' # "failed" THEN {} ELSE images
  /\ UNCHANGED <<enable_debug, glVars>>

\* Fault of set_window_icon: the icons are not freed.
CallKeepingIcons(step) ==
  /\ pc = step
  /\ \E r \in Raised : Handle(r)
  /\ UNCHANGED <<enable_debug, images, glVars>>

\* A call of GLFW and its check: prepare_window, set_window_icon, which frees the icons it
\* has handed over, make_current_context, the two callbacks, is_current_context and
\* get_window_size.
CallChecked(step) ==
  /\ pc = step
  /\ \E r \in Raised : Handle(r)
  /\ images' = IF step = "set_icon" /\ pc' # "failed" THEN {} ELSE images
  /\ UNCHANGED <<enable_debug, glVars>>

\* Window::initialize terminates GLFW itself when there is no window, and leaves the error.
CreateWindow ==
  /\ pc = "create"
  /\ \/ Passes("icons") /\ UNCHANGED <<initialized, error>>
     \/ Fails("window_error", {pc}) /\ initialized' = FALSE /\ error' \in Raised
  /\ UNCHANGED <<enable_debug, images, glVars>>

\* load_window_icon, for one icon after the other.
LoadIcon ==
  /\ pc = "icons"
  /\ \E icon \in 1..NumIcons \ images :
       /\ images = 1..icon - 1
       /\ \/ /\ images' = images \union {icon}
             /\ Passes(IF icon = NumIcons THEN "set_icon" ELSE "icons")
          \/ /\ Fails("io_error", {pc})
             /\ UNCHANGED images
  /\ UNCHANGED <<enable_debug, initialized, error, glVars>>

\* The rest of Window::initialize: the monitor, the size and the position are asked for,
\* an error is not.
ReadGeometry ==
  /\ pc = "geometry"
  /\ error' \in Raised
  /\ Passes("make_current")
  /\ UNCHANGED <<enable_debug, initialized, images, glVars>>

-----------------------------------------------------------------------------
(***************************************************************************)
(* setup_gl_api                                                            *)
(***************************************************************************)

\* Calls of OpenGL raise the errors es: a flag that is up stays as it is.  The debug output
\* is synchronous: ogl_debug_callback logs an error in the call that raises it.
Flag(es) ==
  /\ flags' = [e \in GlErrors |-> IF e \in es /\ flags[e] = "none" THEN pc ELSE flags[e]]
  /\ logged' = IF callback THEN logged \union es ELSE logged

LoadGl ==
  /\ pc = "load_gl"
  /\ \/ /\ Fails("renderer_error", {pc})
        /\ UNCHANGED glVars
     \/ /\ \E es \in SUBSET GlErrors : Flag(es)
        /\ Passes(IF enable_debug THEN "debug" ELSE "state")
        /\ UNCHANGED <<callback, was_err, raisers>>
  /\ UNCHANGED <<enable_debug, initialized, error, images>>

\* The debug output is enabled and the callback installed.
EnableDebugOutput ==
  /\ pc = "debug"
  /\ \E es \in SUBSET GlErrors : Flag(es)
  /\ callback' = TRUE
  /\ was_err' = FALSE
  /\ raisers' = {}
  /\ Passes("gl_errors")
  /\ UNCHANGED <<enable_debug, initialized, error, images>>

\* Fault of handle_ogl_error: the error is asked for before the loop only.
GetErrorOnce ==
  /\ pc = "gl_errors"
  /\ \E e \in GlErrors :
       /\ flags[e] # "none"
       /\ logged' = logged \union {e}
       /\ was_err' = TRUE
       /\ raisers' = raisers \union {flags[e]}
  /\ UNCHANGED <<pc, enable_debug, initialized, error, failure, images, flags, callback>>

\* Fault of handle_ogl_error: the first error ends it.
GetFirstError ==
  /\ pc = "gl_errors"
  /\ \E e \in GlErrors :
       /\ flags[e] # "none"
       /\ flags' = [flags EXCEPT ![e] = "none"]
       /\ logged' = logged \union {e}
       /\ Passes("state")
  /\ UNCHANGED <<enable_debug, initialized, error, images, callback, was_err, raisers>>

\* handle_ogl_error: glGetError takes the flags down one by one.
GetError ==
  /\ pc = "gl_errors"
  /\ \E e \in GlErrors :
       /\ flags[e] # "none"
       /\ flags' = [flags EXCEPT ![e] = "none"]
       /\ logged' = logged \union {e}
       /\ was_err' = TRUE
       /\ raisers' = raisers \union {flags[e]}
  /\ UNCHANGED <<pc, enable_debug, initialized, error, failure, images, callback>>

NoGlError ==
  /\ pc = "gl_errors"
  /\ \A e \in GlErrors : flags[e] = "none"
  /\ IF was_err THEN Fails("renderer_error", raisers) ELSE Passes("state")
  /\ UNCHANGED <<enable_debug, initialized, error, images, glVars>>

\* Winding order and culling, and at the end the viewport; nobody asks for their errors.
SetState ==
  /\ \E next \in {<<"state", "window_size">>, <<"viewport", "done">>} :
       pc = next[1] /\ Passes(next[2])
  /\ \E es \in SUBSET GlErrors : Flag(es)
  /\ UNCHANGED <<enable_debug, initialized, error, images, callback, was_err, raisers>>

Next ==
  \/ \E step \in Checked : CallChecked(step)
  \/ CreateWindow
  \/ LoadIcon
  \/ ReadGeometry
  \/ LoadGl
  \/ EnableDebugOutput
  \/ GetError
  \/ NoGlError
  \/ SetState

\* The set-up is sequential code of one thread, which the system schedules.
Fairness == WF_vars(Next)

Spec == Init /\ [][Next]_vars /\ Fairness

-----------------------------------------------------------------------------
(***************************************************************************)
(* Properties                                                              *)
(***************************************************************************)

\* A failure is reported by the check of the call that failed, with two exceptions.  An error
\* of the geometry's calls, such as a window system without positions gives, is reported by
\* make_current_context.  And handle_ogl_error, behind the set-up of the debug output, also
\* reports what loading the functions has left.
BlamesTheCall ==
  failure.at # "none" =>
    \/ failure.by = {failure.at}
    \/ failure.at = "make_current" /\ failure.by = {"geometry"}
    \/ failure.at = "gl_errors" /\ failure.by # {} /\ failure.by \subseteq {"load_gl", "debug"}

\* "GLFW errors are always non-fatal. The lib will remain in a valid state as long as glfwInit
\* was successful." (glfw.h): an error of the geometry's calls leaves GLFW as it was.  It does
\* not: the check of the next call takes the error for its own and terminates GLFW.
UncheckedErrorsAreNonFatal ==
  failure.by = {"geometry"} => initialized

\* The icons are freed once GLFW has its copies; they are leaked only by a set-up that fails
\* in set_window_icon.
IconsFreed ==
  images # {} => "icons" \in {pc, failure.at} \/ "set_icon" \in {pc, failure.at}

\* With the debug output, a set-up that ends well has logged every error of OpenGL there
\* was, and none of those from before its check of them is left.
DebugTellsErrors ==
  enable_debug /\ pc = "done" =>
    \A e \in GlErrors : flags[e] # "none" => e \in logged /\ flags[e] \in {"state", "viewport"}

\* The set-up ends, also where errors are asked for in a loop.
SetupEnds ==
  <>(pc \in {"done", "failed"})

-----------------------------------------------------------------------------
(***************************************************************************)
(* The inductive invariant behind the properties above                     *)
(***************************************************************************)

\* A failure ends the set-up.
FailureEnds == pc # "failed" => failure.at = "none"

\* The check of OpenGL's errors is the first, so it finds what loading the functions and setting
\* up the debug output have raised.
FlagsAreOfLoading ==
  /\ pc \in Steps \ {"state", "window_size", "viewport"} =>
       \A e \in GlErrors : flags[e] \in {"none", "load_gl", "debug"}
  /\ pc = "gl_errors" =>
       /\ raisers \subseteq {"load_gl", "debug"}
       /\ was_err => raisers # {}

\* No error of GLFW is left for a later check, but one of the geometry's calls.
ErrorIsAskedFor ==
  error # NoError => pc = "failed" \/ (pc = "make_current" /\ error.by = "geometry")

\* From the check of OpenGL's errors on the debug output is on, if it was asked for, and from
\* its end on no error of OpenGL is left but what has been logged.
DebugIsOn ==
  enable_debug =>
    /\ pc \in {"gl_errors", "state", "window_size", "viewport", "done"} => callback
    /\ pc \in {"state", "window_size", "viewport", "done"} =>
         \A e \in GlErrors :
           flags[e] # "none" => e \in logged /\ flags[e] \in {"state", "viewport"}

SInv ==
  /\ TypeOK
  /\ BlamesTheCall
  /\ IconsFreed
  /\ FailureEnds
  /\ FlagsAreOfLoading
  /\ ErrorIsAskedFor
  /\ DebugIsOn

=============================================================================
