--------------------------- MODULE Window_proofs ---------------------------
(***************************************************************************)
(* Proofs about Window for every set of geometries, about Setup for any    *)
(* number of icons and any errors of OpenGL, and about the life of a       *)
(* window, which is of both.                                               *)
(***************************************************************************)
EXTENDS WindowLife, TLAPS

\* A window that has just been created saves where it is.
LEMMA WindowInit == Init => WInv
  BY DEF Init, WInv, TypeOK, SavedIsWindowed, SavedIsLeft, WindowedPlace, AllGeometries,
         Statuses

\* Switching to fullscreen saves a windowed place, for the window is in one as long as the
\* monitor is there.
LEMMA EnterStep ==
  ASSUME WInv, returned = "ok", EnterFullscreen \/ EnterFails \/ EnterUndefined
  PROVE  WInv'
<1> USE DEF WInv, TypeOK, SavedIsWindowed, SavedIsLeft, WindowedPlace, AllGeometries, Statuses
<1>1. CASE EnterFullscreen
  <2>1. geometry \in Geometries
    BY <1>1 DEF EnterFullscreen
  <2> QED
    BY <1>1, <2>1 DEF EnterFullscreen
<1>2. CASE EnterFails
  BY <1>2 DEF EnterFails
<1>3. CASE EnterUndefined
  BY <1>3 DEF EnterUndefined
<1> QED
  BY <1>1, <1>2, <1>3

\* Every step keeps the invariant: the desktop only ever moves a windowed window, and only
\* an unplugged monitor leaves one with the monitor's geometry.
LEMMA WindowStep == WInv /\ [Next]_vars => WInv'
<1> SUFFICES ASSUME WInv, [Next]_vars PROVE WInv'
  OBVIOUS
<1>1. ASSUME NEW enable \in BOOLEAN, SetFullscreen(enable)
      PROVE  WInv'
  <2>1. CASE KeepMode(enable)
    BY <1>1, <2>1 DEF SetFullscreen, KeepMode, WInv, TypeOK, SavedIsWindowed, SavedIsLeft,
                      WindowedPlace, Statuses
  <2>2. CASE EnterFullscreen \/ EnterFails \/ EnterUndefined
    BY <1>1, <2>2, EnterStep DEF SetFullscreen
  <2>3. CASE LeaveFullscreen
    BY <1>1, <2>3 DEF SetFullscreen, LeaveFullscreen, WInv, TypeOK, SavedIsWindowed,
                      SavedIsLeft, WindowedPlace, Statuses
  <2>4. CASE LeaveFails
    BY <1>1, <2>4 DEF SetFullscreen, LeaveFails, WInv, TypeOK, SavedIsWindowed, SavedIsLeft,
                      WindowedPlace
  <2> QED
    BY <1>1, <2>1, <2>2, <2>3, <2>4 DEF SetFullscreen
<1>2. ASSUME NEW g \in Geometries, Rearrange(g)
      PROVE  WInv'
  BY <1>2 DEF Rearrange, WInv, TypeOK, SavedIsWindowed, SavedIsLeft, WindowedPlace,
              AllGeometries
<1>3. CASE Unplug
  BY <1>3 DEF Unplug, WInv, TypeOK, SavedIsWindowed, SavedIsLeft, WindowedPlace
<1>4. CASE UNCHANGED vars
  BY <1>4 DEF vars, WInv, TypeOK, SavedIsWindowed, SavedIsLeft, WindowedPlace
<1> QED
  BY <1>1, <1>2, <1>3, <1>4 DEF Next

\* The invariant holds in every state.
LEMMA WindowInductive == Spec => []WInv
  BY WindowInit, WindowStep, PTL DEF Spec

\* Every variable keeps its type.
THEOREM WindowTypeCorrect == Spec => []TypeOK
  BY WindowInductive, PTL DEF WInv

\* What set_fullscreen would come back to is always a place the user gave the window.
THEOREM SavedStaysWindowed == Spec => []SavedIsWindowed
  BY WindowInductive, PTL DEF WInv

\* Leaving fullscreen restores exactly the geometry the window had when it became
\* fullscreen.
THEOREM GeometryIsRestored == Spec => RestoresGeometry
<1> DEFINE Restores == fullscreen /\ ~fullscreen' /\ monitor' = "connected" => geometry' = left
<1>1. WInv /\ [Next]_vars => [Restores]_vars
  <2> SUFFICES ASSUME WInv, Next PROVE Restores
    OBVIOUS
  <2>1. ASSUME NEW enable \in BOOLEAN, SetFullscreen(enable)
        PROVE  Restores
    BY <2>1 DEF SetFullscreen, KeepMode, EnterFullscreen, EnterFails, EnterUndefined,
                LeaveFullscreen, LeaveFails, WInv, SavedIsLeft
  <2>2. ASSUME NEW g \in Geometries, Rearrange(g)
        PROVE  Restores
    BY <2>2 DEF Rearrange
  <2>3. CASE Unplug
    BY <2>3 DEF Unplug
  <2> QED
    BY <2>1, <2>2, <2>3 DEF Next
<1> QED
  BY <1>1, WindowInductive, PTL DEF Spec, RestoresGeometry

-----------------------------------------------------------------------------
(***************************************************************************)
(* The creation                                                            *)
(***************************************************************************)

LEMMA SetupInit == Creation!Init => Creation!SInv
<1> SUFFICES ASSUME Creation!Init PROVE Creation!SInv
  OBVIOUS
<1>1. Creation!TypeOK
  BY DEF Creation!Init, Creation!TypeOK, Creation!Steps, Creation!Checked, Creation!FollowedBy,
         Creation!NoError
<1> QED BY <1>1 DEF Creation!SInv, Creation!Init, Creation!BlamesTheCall, Creation!IconsFreed,
                    Creation!FailureEnds, Creation!FlagsAreOfLoading, Creation!ErrorIsAskedFor,
                    Creation!DebugIsOn

\* The steps of the set-up, and those a check follows.
LEMMA TheSteps ==
  /\ Creation!Checked = {"hints", "set_icon", "make_current", "size_callback", "key_callback",
                         "is_current", "window_size"}
  /\ Creation!Steps = Creation!Checked \union {"create", "icons", "geometry", "load_gl", "debug",
                                               "gl_errors", "state", "viewport"}
  /\ \A step \in Creation!Checked :
       /\ Creation!FollowedBy[step] \in Creation!Steps
       /\ Creation!FollowedBy[step] \notin {"hints", "set_icon", "icons", "make_current",
                                            "gl_errors", "state", "window_size"}
       /\ (Creation!FollowedBy[step] = "viewport") = (step = "window_size")
BY DEF Creation!Steps, Creation!Checked, Creation!FollowedBy

\* The calls before the first of OpenGL raise none of its errors.
LEMMA FlagsAreKept ==
  ASSUME Creation!FlagsAreOfLoading, pc \in Creation!Steps, pc \notin {"state", "viewport"},
         pc' # "gl_errors", UNCHANGED flags,
         pc' = "viewport" \/ pc # "window_size"
  PROVE  Creation!FlagsAreOfLoading'
BY TheSteps DEF Creation!FlagsAreOfLoading

\* A call of GLFW is checked: an error that is raised is its own, or that of the geometry's
\* calls.
LEMMA CheckedStep ==
  ASSUME Creation!SInv, NEW step \in Creation!Checked, Creation!CallChecked(step)
  PROVE  Creation!SInv'
<1> USE DEF Creation!SInv
<1>1. PICK r \in Creation!Raised : Creation!Handle(r)
  BY DEF Creation!CallChecked
<1>2. /\ pc = step /\ pc \in Creation!Steps
      /\ error' = Creation!NoError
      /\ initialized' = (r.code # "other")
      /\ images' = IF step = "set_icon" /\ pc' # "failed" THEN {} ELSE images
      /\ UNCHANGED <<enable_debug, flags, callback, was_err, raisers, logged>>
  BY <1>1, TheSteps DEF Creation!CallChecked, Creation!Handle, Creation!glVars
<1>3. /\ r \in [code : {"no_error", "invalid_value", "other"}, by : Creation!Steps \union {"none"}]
      /\ r.code # "no_error"
           => r.by = pc \/ (pc = "make_current" /\ r.by = "geometry")
  BY <1>2, TheSteps DEF Creation!Raised, Creation!TypeOK, Creation!ErrorIsAskedFor,
                        Creation!NoError
<1>4. \/ pc' = Creation!FollowedBy[pc] /\ UNCHANGED failure
      \/ /\ r.code # "no_error" /\ pc' = "failed"
         /\ failure' \in [status : {"invalid_value", "platform_error"}, at : {pc}, by : {{r.by}}]
  <2>1. CASE r.code = "no_error"
    BY <1>1, <2>1 DEF Creation!Handle, Creation!Passes
  <2>2. CASE r.code = "invalid_value"
    BY <1>1, <2>2 DEF Creation!Handle, Creation!Fails
  <2>3. CASE r.code = "other"
    BY <1>1, <2>3 DEF Creation!Handle, Creation!Fails
  <2> QED BY <1>3, <2>1, <2>2, <2>3
<1>5. CASE pc' = Creation!FollowedBy[pc] /\ UNCHANGED failure
  <2>1. pc' \in Creation!Steps /\ pc' # "failed"
        /\ pc' \notin {"hints", "set_icon", "icons", "make_current", "gl_errors", "state",
                       "window_size"}
        /\ (pc' = "viewport") = (pc = "window_size") /\ pc' # "done"
    BY <1>2, <1>5, TheSteps
  <2>2. Creation!TypeOK'
    BY <1>2, <1>5, <2>1 DEF Creation!TypeOK, Creation!NoError
  <2>3. Creation!BlamesTheCall' /\ Creation!FailureEnds' /\ Creation!ErrorIsAskedFor'
    BY <1>2, <1>5, <2>1, TheSteps DEF Creation!BlamesTheCall, Creation!FailureEnds,
                                      Creation!ErrorIsAskedFor
  <2>4. Creation!IconsFreed'
    BY <1>2, <1>5, <2>1, TheSteps DEF Creation!IconsFreed, Creation!FailureEnds
  <2>5. Creation!DebugIsOn' /\ Creation!FlagsAreOfLoading'
    BY <1>2, <2>1, FlagsAreKept, TheSteps DEF Creation!DebugIsOn
  <2> QED BY <2>2, <2>3, <2>4, <2>5
<1>6. CASE /\ r.code # "no_error" /\ pc' = "failed"
           /\ failure' \in [status : {"invalid_value", "platform_error"}, at : {pc}, by : {{r.by}}]
  <2>1. Creation!TypeOK'
    BY <1>2, <1>3, <1>6 DEF Creation!TypeOK, Creation!NoError
  <2>2. Creation!BlamesTheCall' /\ Creation!FailureEnds' /\ Creation!ErrorIsAskedFor'
    BY <1>2, <1>3, <1>6 DEF Creation!BlamesTheCall, Creation!FailureEnds,
                          Creation!ErrorIsAskedFor
  <2>3. Creation!IconsFreed'
    BY <1>2, <1>6, TheSteps DEF Creation!IconsFreed, Creation!FailureEnds
  <2>4. Creation!DebugIsOn' /\ Creation!FlagsAreOfLoading'
    BY <1>6, TheSteps DEF Creation!DebugIsOn, Creation!FlagsAreOfLoading
  <2> QED BY <2>1, <2>2, <2>3, <2>4
<1> QED BY <1>4, <1>5, <1>6

\* Creating the window, loading its icons and reading its geometry.
LEMMA UncheckedStep ==
  ASSUME Creation!SInv, Creation!CreateWindow \/ Creation!LoadIcon \/ Creation!ReadGeometry
  PROVE  Creation!SInv'
<1> USE DEF Creation!SInv
<1>1. CASE Creation!CreateWindow
  <2>1. /\ pc = "create" /\ error = Creation!NoError /\ failure.at = "none" /\ images = {}
        /\ UNCHANGED <<enable_debug, images, flags, callback, was_err, raisers, logged>>
    BY <1>1 DEF Creation!CreateWindow, Creation!glVars, Creation!ErrorIsAskedFor,
                Creation!FailureEnds, Creation!IconsFreed
  <2>2. \/ pc' = "icons" /\ UNCHANGED <<failure, initialized, error>>
        \/ /\ pc' = "failed" /\ initialized' = FALSE /\ error' \in Creation!Raised
           /\ failure' = [status |-> "window_error", at |-> "create", by |-> {"create"}]
    BY <1>1, <2>1 DEF Creation!CreateWindow, Creation!Passes, Creation!Fails
  <2>3. error' \in [code : {"no_error", "invalid_value", "other"},
                    by : Creation!Steps \union {"none"}]
    BY <2>1, <2>2, TheSteps DEF Creation!Raised, Creation!TypeOK
  <2>4. Creation!TypeOK'
    <3>1. pc' \in Creation!Steps \union {"failed"} /\ "create" \in Creation!Steps
          /\ initialized' \in BOOLEAN
      BY <2>2, TheSteps DEF Creation!TypeOK
    <3>2. failure' \in [status : {"ok", "window_error", "io_error", "invalid_value",
                                 "platform_error", "renderer_error"},
                       at : Creation!Steps \union {"none"}, by : SUBSET Creation!Steps]
      BY <2>2, <3>1, TheSteps DEF Creation!TypeOK
    <3> QED BY <2>1, <2>3, <3>1, <3>2 DEF Creation!TypeOK
  <2>5. Creation!FlagsAreOfLoading'
    BY <2>1, <2>2, TheSteps, FlagsAreKept
  <2> QED BY <2>1, <2>2, <2>4, <2>5 DEF Creation!BlamesTheCall, Creation!IconsFreed,
                 Creation!FailureEnds, Creation!ErrorIsAskedFor, Creation!DebugIsOn
<1>2. CASE Creation!LoadIcon
  <2>1. PICK icon \in 1..NumIcons :
          \/ /\ images' = images \union {icon}
             /\ Creation!Passes(IF icon = NumIcons THEN "set_icon" ELSE "icons")
          \/ /\ Creation!Fails("io_error", {pc})
             /\ UNCHANGED images
    BY <1>2 DEF Creation!LoadIcon
  <2>2. /\ pc = "icons" /\ error = Creation!NoError /\ failure.at = "none"
        /\ UNCHANGED <<enable_debug, initialized, error, flags, callback, was_err, raisers, logged>>
    BY <1>2 DEF Creation!LoadIcon, Creation!glVars, Creation!ErrorIsAskedFor,
                Creation!FailureEnds
  <2>3. \/ pc' \in {"icons", "set_icon"} /\ UNCHANGED failure
        \/ /\ pc' = "failed"
           /\ failure' = [status |-> "io_error", at |-> "icons", by |-> {"icons"}]
    BY <2>1, <2>2 DEF Creation!Passes, Creation!Fails
  <2>4. images' \subseteq 1..NumIcons
    BY <2>1 DEF Creation!TypeOK
  <2>5. Creation!TypeOK'
    BY <2>2, <2>3, <2>4, TheSteps DEF Creation!TypeOK
  <2>6. Creation!FlagsAreOfLoading'
    BY <2>2, <2>3, TheSteps, FlagsAreKept
  <2> QED BY <2>2, <2>3, <2>5, <2>6 DEF Creation!BlamesTheCall, Creation!IconsFreed,
                 Creation!FailureEnds, Creation!ErrorIsAskedFor, Creation!DebugIsOn
<1>3. CASE Creation!ReadGeometry
  <2>1. /\ pc = "geometry" /\ pc' = "make_current" /\ error = Creation!NoError
        /\ failure.at = "none" /\ images = {} /\ error' \in Creation!Raised
        /\ UNCHANGED <<failure, enable_debug, initialized, images, flags, callback, was_err,
                       raisers, logged>>
    BY <1>3 DEF Creation!ReadGeometry, Creation!glVars, Creation!ErrorIsAskedFor,
                Creation!Passes, Creation!FailureEnds, Creation!IconsFreed
  <2>2. /\ error' \in [code : {"no_error", "invalid_value", "other"},
                       by : Creation!Steps \union {"none"}]
        /\ error' # Creation!NoError => error'.by = "geometry"
    BY <2>1, TheSteps DEF Creation!Raised, Creation!TypeOK
  <2>3. Creation!TypeOK'
    BY <2>1, <2>2, TheSteps DEF Creation!TypeOK
  <2>4. Creation!FlagsAreOfLoading'
    BY <2>1, TheSteps, FlagsAreKept
  <2> QED BY <2>1, <2>2, <2>3, <2>4 DEF Creation!BlamesTheCall, Creation!IconsFreed,
                 Creation!FailureEnds, Creation!ErrorIsAskedFor, Creation!DebugIsOn
<1> QED BY <1>1, <1>2, <1>3

\* Calls of OpenGL raise errors, which are logged while the debug output is on.
LEMMA FlagStep ==
  ASSUME Creation!TypeOK, NEW es \in SUBSET GlErrors, Creation!Flag(es), pc \in Creation!Steps
  PROVE  /\ flags' \in [GlErrors -> Creation!Steps \union {"none"}]
         /\ logged' \subseteq GlErrors
         /\ logged \subseteq logged'
         /\ \A e \in GlErrors : flags'[e] # "none" =>
              \/ flags'[e] = flags[e]
              \/ flags'[e] = pc /\ (callback => e \in logged')
BY DEF Creation!Flag, Creation!TypeOK

\* OpenGL's part of the set-up.
LEMMA OpenGlStep ==
  ASSUME Creation!SInv,
         \/ Creation!LoadGl \/ Creation!EnableDebugOutput
         \/ Creation!GetError \/ Creation!NoGlError \/ Creation!SetState
  PROVE  Creation!SInv'
<1> USE DEF Creation!SInv
<1>1. /\ pc \in {"load_gl", "debug", "gl_errors", "state", "viewport"}
      /\ UNCHANGED <<enable_debug, initialized, error, images>>
      /\ error = Creation!NoError /\ images = {} /\ failure.at = "none"
  <2>1. /\ pc \in {"load_gl", "debug", "gl_errors", "state", "viewport"}
        /\ UNCHANGED <<enable_debug, initialized, error, images>>
    BY DEF Creation!LoadGl, Creation!EnableDebugOutput, Creation!GetError, Creation!NoGlError,
           Creation!SetState
  <2> QED BY <2>1 DEF Creation!ErrorIsAskedFor, Creation!IconsFreed, Creation!FailureEnds
<1>2. pc \in Creation!Steps
  BY <1>1, TheSteps
<1>3. ASSUME pc' \in Creation!Steps \union {"done"}, UNCHANGED failure,
             flags' \in [GlErrors -> Creation!Steps \union {"none"}], logged' \subseteq GlErrors,
             {callback', was_err'} \subseteq BOOLEAN, raisers' \subseteq Creation!Steps,
             pc' # "make_current", pc' # "failed",
             Creation!FlagsAreOfLoading', Creation!DebugIsOn'
      PROVE  Creation!SInv'
  <2>1. Creation!TypeOK'
    BY <1>1, <1>3 DEF Creation!TypeOK
  <2> QED BY <1>1, <1>3, <2>1 DEF Creation!BlamesTheCall, Creation!IconsFreed,
                 Creation!FailureEnds, Creation!ErrorIsAskedFor
<1>4. ASSUME NEW by \in SUBSET Creation!Steps, Creation!Fails("renderer_error", by),
             \/ by = {pc}
             \/ pc = "gl_errors" /\ by # {} /\ by \subseteq {"load_gl", "debug"},
             UNCHANGED <<flags, callback, was_err, raisers, logged>>
      PROVE  Creation!SInv'
  <2>1. pc' = "failed" /\ failure' = [status |-> "renderer_error", at |-> pc, by |-> by]
    BY <1>4 DEF Creation!Fails
  <2>2. Creation!TypeOK'
    BY <1>1, <1>2, <1>4, <2>1 DEF Creation!TypeOK
  <2>3. pc' \notin Creation!Steps
    BY <2>1, TheSteps
  <2>4. Creation!BlamesTheCall'
    BY <1>1, <1>4, <2>1 DEF Creation!BlamesTheCall
  <2> QED BY <1>1, <2>1, <2>2, <2>3, <2>4 DEF Creation!IconsFreed, Creation!FailureEnds,
                 Creation!FlagsAreOfLoading, Creation!ErrorIsAskedFor, Creation!DebugIsOn
<1>5. CASE Creation!LoadGl
  <2>1. CASE Creation!Fails("renderer_error", {pc}) /\ UNCHANGED Creation!glVars
    BY <1>2, <1>4, <2>1 DEF Creation!glVars
  <2>2. ASSUME NEW es \in SUBSET GlErrors, Creation!Flag(es),
               Creation!Passes(IF enable_debug THEN "debug" ELSE "state"),
               UNCHANGED <<callback, was_err, raisers>>
        PROVE  Creation!SInv'
    <3>1. /\ flags' \in [GlErrors -> Creation!Steps \union {"none"}] /\ logged' \subseteq GlErrors
          /\ \A e \in GlErrors : flags'[e] \in {"none", flags[e], "load_gl"}
      BY <1>2, <1>5, <2>2, FlagStep DEF Creation!LoadGl
    <3>2. pc' = (IF enable_debug THEN "debug" ELSE "state") /\ UNCHANGED failure
      BY <2>2 DEF Creation!Passes
    <3>3. {callback', was_err'} \subseteq BOOLEAN /\ raisers' \subseteq Creation!Steps
      BY <2>2 DEF Creation!TypeOK
    <3>4. Creation!DebugIsOn' /\ Creation!FlagsAreOfLoading'
      <4>1. pc = "load_gl" /\ pc \in Creation!Steps
        BY <1>2, <1>5 DEF Creation!LoadGl
      <4> QED BY <1>1, <3>1, <3>2, <4>1 DEF Creation!DebugIsOn, Creation!FlagsAreOfLoading
    <3>5. pc' \in Creation!Steps /\ pc' # "make_current" /\ pc' # "failed"
      BY <3>2, TheSteps
    <3> QED BY <1>3, <3>1, <3>2, <3>3, <3>4, <3>5
  <2> QED BY <1>5, <2>1, <2>2 DEF Creation!LoadGl
<1>6. CASE Creation!EnableDebugOutput
  <2>1. PICK es \in SUBSET GlErrors : Creation!Flag(es)
    BY <1>6 DEF Creation!EnableDebugOutput
  <2>2. pc = "debug" /\ pc' = "gl_errors" /\ UNCHANGED failure /\ callback' = TRUE
        /\ was_err' = FALSE /\ raisers' = {}
    BY <1>6 DEF Creation!EnableDebugOutput, Creation!Passes
  <2>3. /\ flags' \in [GlErrors -> Creation!Steps \union {"none"}] /\ logged' \subseteq GlErrors
        /\ \A e \in GlErrors : flags'[e] \in {"none", flags[e], "debug"}
    BY <1>2, <2>1, <2>2, FlagStep
  <2>4. Creation!DebugIsOn' /\ Creation!FlagsAreOfLoading' /\ pc' \in Creation!Steps
    BY <1>2, <2>2, <2>3, TheSteps DEF Creation!DebugIsOn, Creation!FlagsAreOfLoading
  <2> QED BY <1>3, <2>2, <2>3, <2>4
<1>7. CASE Creation!GetError
  <2>1. PICK e \in GlErrors :
          /\ flags[e] # "none" /\ flags' = [flags EXCEPT ![e] = "none"]
          /\ logged' = logged \union {e} /\ raisers' = raisers \union {flags[e]}
    BY <1>7 DEF Creation!GetError
  <2>2. pc = "gl_errors" /\ UNCHANGED <<pc, failure, callback>> /\ was_err' = TRUE
    BY <1>7 DEF Creation!GetError
  <2>3. flags' \in [GlErrors -> Creation!Steps \union {"none"}] /\ logged' \subseteq GlErrors
        /\ {callback', was_err'} \subseteq BOOLEAN /\ raisers' \subseteq Creation!Steps
    BY <2>1, <2>2 DEF Creation!TypeOK
  <2>4. Creation!DebugIsOn' /\ pc' \in Creation!Steps
    BY <1>1, <2>2, TheSteps DEF Creation!DebugIsOn
  <2>5. Creation!FlagsAreOfLoading'
    BY <1>2, <2>1, <2>2 DEF Creation!FlagsAreOfLoading, Creation!TypeOK
  <2> QED BY <1>3, <2>2, <2>3, <2>4, <2>5
<1>8. CASE Creation!NoGlError
  <2>1. /\ pc = "gl_errors" /\ \A e \in GlErrors : flags[e] = "none"
        /\ UNCHANGED <<flags, callback, was_err, raisers, logged>>
        /\ raisers \subseteq {"load_gl", "debug"} /\ raisers \subseteq Creation!Steps
        /\ IF was_err THEN Creation!Fails("renderer_error", raisers)
                      ELSE Creation!Passes("state")
    BY <1>2, <1>8 DEF Creation!NoGlError, Creation!glVars, Creation!FlagsAreOfLoading,
                      Creation!TypeOK
  <2>2. CASE ~was_err
    <3>1. pc' = "state" /\ UNCHANGED failure
      BY <2>1, <2>2 DEF Creation!Passes
    <3>2. Creation!DebugIsOn' /\ Creation!FlagsAreOfLoading' /\ pc' \in Creation!Steps
      BY <1>1, <2>1, <3>1, TheSteps DEF Creation!DebugIsOn, Creation!FlagsAreOfLoading
    <3>3. flags' \in [GlErrors -> Creation!Steps \union {"none"}] /\ logged' \subseteq GlErrors
          /\ {callback', was_err'} \subseteq BOOLEAN /\ raisers' \subseteq Creation!Steps
      BY <2>1 DEF Creation!TypeOK
    <3> QED BY <1>3, <3>1, <3>2, <3>3
  <2>3. CASE was_err
    <3>1. raisers # {}
      BY <1>2, <2>1, <2>3 DEF Creation!FlagsAreOfLoading
    <3> QED BY <1>4, <2>1, <2>3, <3>1
  <2> QED BY <2>2, <2>3
<1>9. CASE Creation!SetState
  <2>1. PICK es \in SUBSET GlErrors : Creation!Flag(es)
    BY <1>9 DEF Creation!SetState
  <2>2. /\ flags' \in [GlErrors -> Creation!Steps \union {"none"}] /\ logged' \subseteq GlErrors
        /\ logged \subseteq logged'
        /\ \A e \in GlErrors : flags'[e] # "none" =>
              flags'[e] = flags[e] \/ (flags'[e] = pc /\ (callback => e \in logged'))
    BY <1>2, <2>1, FlagStep
  <2>3. /\ (pc = "state" /\ pc' = "window_size") \/ (pc = "viewport" /\ pc' = "done")
        /\ UNCHANGED <<failure, callback, was_err, raisers>>
    BY <1>9 DEF Creation!SetState, Creation!Passes
  <2>4. {callback', was_err'} \subseteq BOOLEAN /\ raisers' \subseteq Creation!Steps
    BY <2>3 DEF Creation!TypeOK
  <2>5. Creation!DebugIsOn' /\ Creation!FlagsAreOfLoading'
    BY <1>1, <2>2, <2>3, TheSteps DEF Creation!DebugIsOn, Creation!FlagsAreOfLoading
  <2>6. pc' \in Creation!Steps \union {"done"} /\ pc' # "make_current" /\ pc' # "failed"
    BY <2>3, TheSteps
  <2> QED BY <1>3, <2>2, <2>3, <2>4, <2>5, <2>6
<1> QED BY <1>5, <1>6, <1>7, <1>8, <1>9

LEMMA SetupStep == Creation!SInv /\ [Creation!Next]_(Creation!vars) => Creation!SInv'
<1> SUFFICES ASSUME Creation!SInv, [Creation!Next]_(Creation!vars) PROVE Creation!SInv'
  OBVIOUS
<1>1. CASE UNCHANGED Creation!vars
  BY <1>1 DEF Creation!vars, Creation!glVars, Creation!SInv, Creation!TypeOK,
              Creation!BlamesTheCall, Creation!IconsFreed, Creation!FailureEnds,
              Creation!FlagsAreOfLoading, Creation!ErrorIsAskedFor, Creation!DebugIsOn
<1> QED BY <1>1, CheckedStep, UncheckedStep, OpenGlStep DEF Creation!Next

-----------------------------------------------------------------------------
(***************************************************************************)
(* The life of a window                                                    *)
(***************************************************************************)

\* What happens to a window from its creation on is what Window says.
THEOREM LifeImplementsWindow == LifeSpec => Spec
<1>1. LifeInit => Init
  BY DEF LifeInit
<1>2. [LifeNext]_<<vars, setUpVars>> => [Next]_vars
  BY DEF LifeNext, SetUp, Act
<1> QED BY <1>1, <1>2, PTL DEF LifeSpec, Spec

\* And its creation is what Setup says, also under the same fairness.
THEOREM LifeImplementsSetup == LifeSpec => Creation!Spec
<1>1. LifeInit => Creation!Init
  BY DEF LifeInit
<1>2. [LifeNext]_<<vars, setUpVars>> => [Creation!Next]_(Creation!vars)
  BY DEF LifeNext, SetUp, Act, setUpVars, Creation!vars, Creation!glVars
<1> QED BY <1>1, <1>2, PTL DEF LifeSpec, Creation!Spec

LEMMA SetupInductive == LifeSpec => []Creation!SInv
<1>1. Creation!Spec => []Creation!SInv
  BY SetupInit, SetupStep, PTL DEF Creation!Spec
<1> QED BY <1>1, LifeImplementsSetup, PTL

\* A set-up that fails says so where the call failed, for the geometry's calls excepted.
THEOREM FailureBlamesTheCall == LifeSpec => []BlamesTheCall
<1>1. Creation!SInv => BlamesTheCall
  BY DEF Creation!SInv, BlamesTheCall
<1> QED BY <1>1, SetupInductive, PTL

\* No pixels of an icon outlive set_window_icon, however many icons there are, but for a set-up
\* that fails in it or before it.
THEOREM IconsAreFreed == LifeSpec => []IconsFreed
<1>1. Creation!SInv => IconsFreed
  BY DEF Creation!SInv, IconsFreed
<1> QED BY <1>1, SetupInductive, PTL

\* With the debug output on, a set-up that ends well has logged every error of OpenGL.
THEOREM DebugOutputTells == LifeSpec => []DebugTellsErrors
<1>1. Creation!SInv => DebugTellsErrors
  BY DEF Creation!SInv, DebugTellsErrors, Creation!DebugTellsErrors, Creation!DebugIsOn
<1> QED BY <1>1, SetupInductive, PTL

\* A window comes back to where the user left it, from its creation on.
THEOREM LifeRestoresGeometry == LifeSpec => RestoresGeometry /\ []SavedIsWindowed
  BY LifeImplementsWindow, GeometryIsRestored, SavedStaysWindowed, PTL

=============================================================================
