------------------------------- MODULE Window -------------------------------
(***************************************************************************)
(* Window (core/platform/window.cpp): the fullscreen toggle, the geometry  *)
(* it saves to come back to, and the monitor it remembers.                 *)
(*                                                                         *)
(* GLFW and the desktop are external: the user moves and resizes the       *)
(* window while it is windowed, and a monitor can be unplugged, upon which *)
(* GLFW makes the window windowed and frees the monitor.  A geometry       *)
(* stands for the position and the size, which the code always saves and   *)
(* restores together.                                                      *)
(***************************************************************************)

CONSTANTS
  Geometries,    \* where the user may put a windowed window
  MonitorArea    \* the geometry of a window that fills the monitor

ASSUME MonitorAreaAssumption == MonitorArea \notin Geometries

Statuses == {"ok", "platform_error"}

VARIABLES
  fullscreen,    \* glfwGetWindowMonitor(m_window) # nullptr
  geometry,      \* the window's position and size
  saved,         \* m_window_pos and m_window_size
  monitor,       \* what m_monitor points to
  returned,      \* what the last set_fullscreen returned, "undefined" if it used a freed
                 \* monitor; a platform error has destroyed the window with GLFW
  left           \* history: the geometry the window had when it last became fullscreen

vars == <<fullscreen, geometry, saved, monitor, returned, left>>

AllGeometries == Geometries \union {MonitorArea}

TypeOK ==
  /\ fullscreen \in BOOLEAN
  /\ geometry \in AllGeometries
  /\ saved \in AllGeometries
  /\ monitor \in {"connected", "unplugged"}
  /\ returned \in Statuses \union {"invalid_value", "undefined"}
  /\ left \in AllGeometries

\* The window as Window::initialize leaves it: windowed where GLFW put it, with that
\* geometry saved and the primary monitor remembered.
Init ==
  /\ fullscreen = FALSE
  /\ geometry \in Geometries
  /\ saved = geometry
  /\ monitor = "connected"
  /\ returned = "ok"
  /\ left = geometry

-----------------------------------------------------------------------------
(***************************************************************************)
(* set_fullscreen                                                          *)
(***************************************************************************)

\* `if (is_fullscreen() == enable) { return Status::ok; }'
KeepMode(enable) ==
  /\ fullscreen = enable
  /\ returned' = "ok"
  /\ UNCHANGED <<fullscreen, geometry, saved, monitor, left>>

\* Faults of the switch: the geometry is not saved; it is saved after the switch.
EnterFullscreenUnsaved ==
  /\ ~fullscreen
  /\ monitor = "connected"
  /\ left' = geometry
  /\ fullscreen' = TRUE
  /\ geometry' = MonitorArea
  /\ returned' \in Statuses
  /\ UNCHANGED <<saved, monitor>>

EnterFullscreenFirst ==
  /\ ~fullscreen
  /\ monitor = "connected"
  /\ saved' = MonitorArea
  /\ left' = geometry
  /\ fullscreen' = TRUE
  /\ geometry' = MonitorArea
  /\ returned' \in Statuses
  /\ UNCHANGED monitor

\* The geometry is saved and the window put on the whole monitor.  GLFW may report an
\* error for it nevertheless.
EnterFullscreen ==
  /\ ~fullscreen
  /\ monitor = "connected"
  /\ saved' = geometry
  /\ left' = geometry
  /\ fullscreen' = TRUE
  /\ geometry' = MonitorArea
  /\ returned' \in Statuses
  /\ UNCHANGED monitor

\* The monitor's video mode cannot be had: the geometry is saved, the mode stays.
EnterFails ==
  /\ ~fullscreen
  /\ monitor = "connected"
  /\ saved' = geometry
  /\ returned' = "platform_error"
  /\ UNCHANGED <<fullscreen, geometry, monitor, left>>

\* m_monitor is never refreshed: GLFW is handed a monitor it has freed.
EnterUndefined ==
  /\ ~fullscreen
  /\ monitor = "unplugged"
  /\ saved' = geometry
  /\ returned' = "undefined"
  /\ UNCHANGED <<fullscreen, geometry, monitor, left>>

\* The window goes back to the saved geometry.
LeaveFullscreen ==
  /\ fullscreen
  /\ fullscreen' = FALSE
  /\ geometry' = saved
  /\ returned' \in Statuses
  /\ UNCHANGED <<saved, monitor, left>>

\* GLFW refuses the saved size: a window that was iconified when it became fullscreen had
\* none.  handle_error returns an invalid value and keeps GLFW, the mode stays.
LeaveFails ==
  /\ fullscreen
  /\ returned' = "invalid_value"
  /\ UNCHANGED <<fullscreen, geometry, saved, monitor, left>>

SetFullscreen(enable) ==
  /\ returned = "ok"
  /\ \/ KeepMode(enable)
     \/ enable /\ (EnterFullscreen \/ EnterFails \/ EnterUndefined)
     \/ ~enable /\ (LeaveFullscreen \/ LeaveFails)

-----------------------------------------------------------------------------
(***************************************************************************)
(* The desktop                                                             *)
(***************************************************************************)

\* The user moves or resizes the window; a fullscreen window stays where it is.
Rearrange(g) ==
  /\ returned = "ok"
  /\ ~fullscreen
  /\ geometry' = g
  /\ UNCHANGED <<fullscreen, saved, monitor, returned, left>>

\* GLFW frees the monitor; a window that filled it becomes windowed and keeps its size.
Unplug ==
  /\ returned = "ok"
  /\ monitor = "connected"
  /\ monitor' = "unplugged"
  /\ fullscreen' = FALSE
  /\ UNCHANGED <<geometry, saved, returned, left>>

-----------------------------------------------------------------------------

Next ==
  \/ \E enable \in BOOLEAN : SetFullscreen(enable)
  \/ \E g \in Geometries : Rearrange(g)
  \/ Unplug

Spec == Init /\ [][Next]_vars

-----------------------------------------------------------------------------
(***************************************************************************)
(* Properties                                                              *)
(***************************************************************************)

\* Toggling out of fullscreen puts the window exactly where the user had left it, whatever
\* was moved, resized and toggled before.
RestoresGeometry ==
  [][fullscreen /\ ~fullscreen' /\ monitor' = "connected" => geometry' = left]_vars

\* The geometry to come back to is never the monitor's own, not even after GLFW has made
\* a fullscreen window windowed behind set_fullscreen's back.
SavedIsWindowed == returned = "ok" => saved \in Geometries

-----------------------------------------------------------------------------
(***************************************************************************)
(* The inductive invariant behind the properties above                     *)
(***************************************************************************)

\* While the window is fullscreen, what is saved is what it left.
SavedIsLeft == fullscreen => saved = left

\* A windowed window has the monitor's geometry only because the monitor is gone.
WindowedPlace ==
  returned = "ok" /\ ~fullscreen /\ monitor = "connected" => geometry \in Geometries

WInv == TypeOK /\ SavedIsWindowed /\ SavedIsLeft /\ WindowedPlace

=============================================================================
