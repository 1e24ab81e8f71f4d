----------------------------- MODULE WindowLife -----------------------------
(***************************************************************************)
(* A window from its creation on: Setup makes it, call by call, and once   *)
(* that has ended well Window's set_fullscreen and the desktop act on it.  *)
(* Until then Window's variables are what Window::initialize will read;    *)
(* after a failing set-up nothing happens any more.                        *)
(***************************************************************************)
EXTENDS Window, Naturals

CONSTANTS
  NumIcons,   \* the icons of set_window_icon
  GlErrors    \* the kinds of OpenGL's errors

ASSUME NumIconsAssumption == NumIcons \in Nat \ {0}

VARIABLES  \* those of Setup
  pc, enable_debug, initialized, error, failure, images, flags, callback, was_err, raisers, logged

Creation == INSTANCE Setup

setUpVars ==
  <<pc, enable_debug, initialized, error, failure, images, flags, callback, was_err, raisers, logged>>

LifeInit == Init /\ Creation!Init

SetUp == Creation!Next /\ UNCHANGED vars

Act == pc = "done" /\ Next /\ UNCHANGED setUpVars

LifeNext == SetUp \/ Act

LifeSpec == LifeInit /\ [][LifeNext]_<<vars, setUpVars>> /\ Creation!Fairness

-----------------------------------------------------------------------------
(***************************************************************************)
(* Properties of the creation                                              *)
(***************************************************************************)

\* A failing set-up reports the call that failed, but for the errors of the geometry's calls and
\* those of OpenGL, which a later check reports.
BlamesTheCall == Creation!BlamesTheCall

\* An error of the geometry's calls leaves GLFW as it was (glfw.h), which it does not.
UncheckedErrorsAreNonFatal == Creation!UncheckedErrorsAreNonFatal

\* set_window_icon has freed its icons unless it failed.
IconsFreed == Creation!IconsFreed

\* With the debug output on, no error of OpenGL before the check goes unlogged.
DebugTellsErrors == Creation!DebugTellsErrors

\* The set-up ends, the loop that drains OpenGL's errors included.
SetupEnds == Creation!SetupEnds

=============================================================================
