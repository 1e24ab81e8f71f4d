---------------------------- MODULE InputManager ----------------------------
(***************************************************************************)
(* Input_Manager (core/platform/input_manager.cpp) and the engine loop as  *)
(* its client.  process_new_input swaps its two inputs, prepares the new   *)
(* one from the old, copies it to the static input_buffer and polls GLFW;  *)
(* the key callback writes to input_buffer while GLFW polls; when the poll *)
(* ends without an error the buffer is copied over the new input.          *)
(*                                                                         *)
(* GLFW is external.  It delivers the key events of a poll one at a time,  *)
(* with presses and releases of a key alternating, and keeps one error     *)
(* code that handle_error reads and clears.                                *)
(***************************************************************************)
EXTENDS Input

CONSTANTS
  MaxEvents      \* bound on the key events of one poll

ASSUME MaxEventsAssumption == MaxEvents \in Nat

Phases == {"idle",       \* between two cycles of the loop
           "polling",    \* inside glfwPollEvents
           "published",  \* process_new_input has returned ok
           "stopped",    \* the loop has ended
           "failed",     \* process_new_input has returned an error, and run with it
           "crashed"}    \* GLFW went on polling after it was terminated

\* Errors that can be pending.  GLFW_INVALID_VALUE never is: only the callback's own
\* lookup of a key's name raises it, and the callback clears it at once.
PendingErrors == {"no_error", "platform_error"}

ErrorCodes == PendingErrors \union {"invalid_value"}

VARIABLES
  m_input,       \* the two inputs
  newest,        \* which of them m_new_input points to
  input_buffer,  \* the input the callback writes to
  phase,         \* where the loop is
  glfw,          \* GLFW: initialised or not, and its sticky error code
  keys,          \* the keys that are down, as GLFW has reported them
  events         \* key events delivered in this poll

vars == <<m_input, newest, input_buffer, phase, glfw, keys, events>>

oldest == 1 - newest

Latest == m_input[newest]      \* get_input

TypeOK ==
  /\ m_input \in [0..1 -> GameInput]
  /\ newest \in 0..1
  /\ input_buffer \in GameInput
  /\ phase \in Phases
  /\ glfw \in [init : BOOLEAN, error : PendingErrors]
  /\ keys \in [TrackedKeys -> BOOLEAN]
  /\ events \in 0..MaxEvents

Init ==
  /\ m_input = [i \in 0..1 |-> ZeroedInput]
  /\ newest = 0
  /\ input_buffer = ZeroedInput
  /\ phase = "idle"
  /\ glfw = [init |-> TRUE, error |-> "no_error"]
  /\ keys = [k \in TrackedKeys |-> FALSE]
  /\ events = 0

-----------------------------------------------------------------------------
(***************************************************************************)
(* Operators on the data                                                   *)
(***************************************************************************)

\* Faults of prepare_for_new_input: the buttons start up; the counts are not reset; the
\* settings are not carried over.
PreparedReleased(slot, last) ==
  [slot EXCEPT
     !.wireframe  = last.wireframe,
     !.fullscreen = last.fullscreen,
     !.keyboard   = [b \in Buttons |->
                      [ZeroedButton EXCEPT !.started_down = last.keyboard[b].ended_down]]]

PreparedCounting(slot, last) ==
  [slot EXCEPT
     !.wireframe  = last.wireframe,
     !.fullscreen = last.fullscreen,
     !.keyboard   = [b \in Buttons |->
                      [last.keyboard[b] EXCEPT !.started_down = last.keyboard[b].ended_down]]]

PreparedWithoutSettings(slot, last) ==
  [slot EXCEPT
     !.keyboard = [b \in Buttons |->
                    [started_down     |-> last.keyboard[b].ended_down,
                     ended_down       |-> last.keyboard[b].ended_down,
                     half_transitions |-> 0]]]

\* prepare_for_new_input: `slot' after it has been prepared from the input of the last
\* cycle.  Settings are carried over and the buttons start as they ended; request_quit
\* is left at whatever it was two cycles ago.
Prepared(slot, last) ==
  [slot EXCEPT
     !.wireframe  = last.wireframe,
     !.fullscreen = last.fullscreen,
     !.keyboard   = [b \in Buttons |->
                      [started_down     |-> last.keyboard[b].ended_down,
                       ended_down       |-> last.keyboard[b].ended_down,
                       half_transitions |-> 0]]]

\* Fault of update_input_button: it only marks that there was a transition.
UpdatedAsFlag(button, down) ==
  [started_down     |-> button.started_down,
   ended_down       |-> down,
   half_transitions |-> 1]

\* update_input_button
Updated(button, down) ==
  [started_down     |-> button.started_down,
   ended_down       |-> down,
   half_transitions |-> button.half_transitions + 1]

\* What the callback does to the buffer once it has ruled out an error and GLFW_REPEAT.
Applied(input, key, down) ==
  IF key \in Buttons THEN [input EXCEPT !.keyboard[key] = Updated(@, down)]
  ELSE IF down THEN input
  ELSE CASE key = "F7"     -> [input EXCEPT !.wireframe = ~@]
         [] key = "F11"    -> [input EXCEPT !.fullscreen = ~@]
         [] key = "ESCAPE" -> [input EXCEPT !.request_quit = TRUE]

\* Fault of handle_error: an error is cleared and GLFW kept.
HandledKeeping(error) == [init |-> glfw.init, error |-> "no_error"]

\* platform::glfw::handle_error: the error is read and cleared, and any error but an
\* invalid value terminates GLFW.
Handled(error) ==
  [init |-> glfw.init /\ error \in {"no_error", "invalid_value"}, error |-> "no_error"]

-----------------------------------------------------------------------------
(***************************************************************************)
(* process_new_input                                                       *)
(***************************************************************************)

\* prepare_for_new_input, up to the call of glfwPollEvents.
ProcessNewInput ==
  LET prepared == Prepared(m_input[oldest], m_input[newest]) IN
  /\ phase = "idle"
  /\ newest' = oldest
  /\ m_input' = [m_input EXCEPT ![oldest] = prepared]
  /\ input_buffer' = prepared
  /\ phase' = "polling"
  /\ events' = 0
  /\ UNCHANGED <<glfw, keys>>

Polling == phase = "polling" /\ glfw.init /\ events < MaxEvents

\* An event of a key GLFW tracks: a press of a key that is up, a release of one that is
\* down.  Any error found at the callback's handle_error, whoever raised it, drops the
\* event.
KeyEvent(key, down) ==
  /\ Polling
  /\ keys[key] # down
  /\ keys' = [keys EXCEPT ![key] = down]
  /\ input_buffer' = IF glfw.error = "no_error"
                     THEN Applied(input_buffer, key, down)
                     ELSE input_buffer
  /\ glfw' = Handled(glfw.error)
  /\ events' = events + 1
  /\ UNCHANGED <<m_input, newest, phase>>

\* An auto-repeat of a key that is down: ignored, after the error check.
KeyRepeat(key) ==
  /\ Polling
  /\ keys[key]
  /\ glfw' = Handled(glfw.error)
  /\ events' = events + 1
  /\ UNCHANGED <<m_input, newest, input_buffer, phase, keys>>

\* An event of a key GLFW has no code for.  Looking up its name fails with an invalid
\* value, which replaces the error that was there.
UnknownKeyEvent ==
  /\ Polling
  /\ glfw' = Handled("invalid_value")
  /\ events' = events + 1
  /\ UNCHANGED <<m_input, newest, input_buffer, phase, keys>>

\* GLFW fails to handle some event of its own, or to look up a key's name.
PlatformError ==
  /\ phase = "polling"
  /\ glfw.init
  /\ glfw' = [glfw EXCEPT !.error = "platform_error"]
  /\ UNCHANGED <<m_input, newest, input_buffer, phase, keys, events>>

\* glfwPollEvents returns, and process_new_input with it.
PollReturns ==
  /\ phase = "polling"
  /\ glfw' = Handled(glfw.error)
  /\ IF glfw.error = "no_error"
     THEN /\ m_input' = [m_input EXCEPT ![newest] = input_buffer]
          /\ phase' = "published"
     ELSE /\ phase' = "failed"
          /\ UNCHANGED m_input
  /\ UNCHANGED <<newest, input_buffer, keys, events>>

\* The callback terminated GLFW under glfwPollEvents, which uses what is gone.
PollCrashes ==
  /\ phase = "polling"
  /\ ~glfw.init
  /\ phase' = "crashed"
  /\ UNCHANGED <<m_input, newest, input_buffer, glfw, keys, events>>

-----------------------------------------------------------------------------
(***************************************************************************)
(* The engine loop                                                         *)
(***************************************************************************)

\* `running = !input.state.request_quit; if (!running) { break; }'
QuitLoop ==
  /\ phase = "published"
  /\ Latest.request_quit
  /\ phase' = "stopped"
  /\ UNCHANGED <<m_input, newest, input_buffer, glfw, keys, events>>

\* The rest of the loop's body, ending well.  It cannot if GLFW is terminated: swapping
\* the buffers fails.
FinishCycle ==
  /\ phase = "published"
  /\ ~Latest.request_quit
  /\ glfw.init
  /\ phase' = "idle"
  /\ UNCHANGED <<m_input, newest, input_buffer, glfw, keys, events>>

\* The user has closed the window, or the rest of the body fails, of a GLFW error perhaps.
LeaveLoop ==
  /\ phase = "idle" \/ (phase = "published" /\ ~Latest.request_quit)
  /\ phase' = "stopped"
  /\ glfw' \in {glfw, Handled("platform_error")}
  /\ UNCHANGED <<m_input, newest, input_buffer, keys, events>>

\* With the loop ended the engine destroys GLFW.
DestroyGlfw ==
  /\ phase = "stopped"
  /\ glfw' = [init |-> FALSE, error |-> "no_error"]
  /\ UNCHANGED <<m_input, newest, input_buffer, phase, keys, events>>

-----------------------------------------------------------------------------

Next ==
  \/ ProcessNewInput
  \/ \E key \in TrackedKeys, down \in BOOLEAN : KeyEvent(key, down)
  \/ \E key \in TrackedKeys : KeyRepeat(key)
  \/ UnknownKeyEvent
  \/ PlatformError
  \/ PollReturns
  \/ PollCrashes
  \/ QuitLoop
  \/ FinishCycle
  \/ LeaveLoop
  \/ DestroyGlfw

Spec == Init /\ [][Next]_vars

-----------------------------------------------------------------------------
(***************************************************************************)
(* Properties                                                              *)
(***************************************************************************)

\* What get_input returns after process_new_input agrees with the keyboard, button for
\* button, as long as GLFW is alive: over any number of cycles no press or release is
\* lost between the two inputs, the buffer and the callback.
KeyboardTracked ==
  phase = "published" /\ glfw.init =>
    \A b \in Buttons : Latest.keyboard[b].ended_down = keys[b]

\* A button ended as it started exactly when its half transitions are even.  Game code
\* that counts them to tell a tap from a hold relies on it; a lost event would break it,
\* and a dropped one must not.
ParityOf(input) ==
  \A b \in Buttons :
    input.keyboard[b].started_down # input.keyboard[b].ended_down
      <=> input.keyboard[b].half_transitions % 2 = 1

TransitionParity == ParityOf(input_buffer) /\ \A i \in 0..1 : ParityOf(m_input[i])

\* A cycle counts the transitions of its own poll only: however long the engine runs, a
\* half_transitions (an s32 in the code) never exceeds the events of one poll.
TransitionsBounded ==
  \A b \in Buttons :
    /\ input_buffer.keyboard[b].half_transitions <= events
    /\ \A i \in 0..1 : m_input[i].keyboard[b].half_transitions <= MaxEvents

\* No error outlives the call that met it: process_new_input returns ok with GLFW's
\* error register empty, so that no later cycle drops an event because of this one.
NoStaleError == phase \in {"idle", "published"} => glfw.error = "no_error"

\* An event is dropped only at the price of GLFW: whenever the callback finds an error
\* and skips a button's event, GLFW is no longer initialised after that step.
DropTerminatesGlfw ==
  [][\A b \in Buttons :
       keys'[b] # keys[b] /\ input_buffer' = input_buffer => ~glfw'.init]_vars

\* process_new_input returns ok only if all pending events were processed, which is
\* what its declaration says of it (input_manager.h:24).
AllEventsProcessed ==
  phase = "published" =>
    \A b \in Buttons : Latest.keyboard[b].ended_down = keys[b]

\* The input manager implements its promise.  Until a poll ends well the promise sees
\* the input of the last cycle as the snapshot and the buffer as what is collected.
Collecting == phase \in {"polling", "failed", "crashed"}

Current == IF Collecting THEN input_buffer ELSE Latest

Held == [b \in Buttons |-> Current.keyboard[b].ended_down]

Edges == [b \in Buttons |-> Current.keyboard[b].half_transitions]

Settings == [wireframe |-> Current.wireframe, fullscreen |-> Current.fullscreen]

Snapshot == IF Collecting THEN m_input[oldest] ELSE Latest

Promise == INSTANCE InputSpec WITH
  collecting <- Collecting,
  held       <- Held,
  edges      <- Edges,
  settings   <- Settings,
  quit       <- Current.request_quit,
  snapshot   <- Snapshot

KeepsPromise == Promise!Spec

-----------------------------------------------------------------------------
(***************************************************************************)
(* The inductive invariant behind the properties above                     *)
(***************************************************************************)

\* Whichever input holds the buttons as they are now agrees with the keyboard.
Tracking ==
  glfw.init =>
    /\ phase = "polling" =>
         \A b \in Buttons : input_buffer.keyboard[b].ended_down = keys[b]
    /\ phase \in {"idle", "published"} =>
         \A b \in Buttons : Latest.keyboard[b].ended_down = keys[b]

\* An unreset request to quit can never come round again: the loop ends first.
NoOldQuit ==
  /\ phase \in {"idle", "polling"} => \A i \in 0..1 : ~m_input[i].request_quit
  /\ phase = "published" => ~m_input[oldest].request_quit

\* The cycle being collected starts from where the last one ended.
Continuity ==
  Collecting =>
    \A b \in Buttons :
      input_buffer.keyboard[b].started_down = m_input[oldest].keyboard[b].ended_down

IInv ==
  /\ TypeOK
  /\ Tracking
  /\ TransitionParity
  /\ TransitionsBounded
  /\ NoStaleError
  /\ NoOldQuit
  /\ Continuity

=============================================================================
