------------------------------- MODULE Input -------------------------------
(***************************************************************************)
(* The input records every other input module works on (core/hid/input.h). *)
(* The one controller is the keyboard; its four buttons are the constant   *)
(* Buttons, so that a small model can do with fewer of them.               *)
(***************************************************************************)
EXTENDS Naturals

CONSTANTS
  Buttons        \* the keyboard's buttons: up, down, left and right

ControlKeys == {"F7", "F11", "ESCAPE"}

ASSUME ButtonsAssumption == Buttons \intersect ControlKeys = {}

\* Keys whose state GLFW tracks.  W, S, A and D are named after the buttons they drive.
TrackedKeys == Buttons \union ControlKeys

Button == [started_down : BOOLEAN, ended_down : BOOLEAN, half_transitions : Nat]

GameInput == [request_quit : BOOLEAN,               \* Game_State
              wireframe    : BOOLEAN,               \* Graphics_Settings
              fullscreen   : BOOLEAN,               \* Window_Settings
              keyboard     : [Buttons -> Button]]   \* controllers[Controller::keyboard]

ZeroedButton == [started_down |-> FALSE, ended_down |-> FALSE, half_transitions |-> 0]

ZeroedInput == [request_quit |-> FALSE,
                wireframe    |-> FALSE,
                fullscreen   |-> FALSE,
                keyboard     |-> [b \in Buttons |-> ZeroedButton]]

=============================================================================
