------------------------ MODULE InputManager_proofs ------------------------
(***************************************************************************)
(* Proofs about InputManager for every set of buttons and every bound on   *)
(* the events of a poll: type correctness, the safety invariants, the      *)
(* action property and the refinement of InputSpec.                        *)
(***************************************************************************)
EXTENDS InputManager, TLAPS

-----------------------------------------------------------------------------
(***************************************************************************)
(* Operators on the data                                                   *)
(***************************************************************************)

\* A zeroed input is a Game_Input with every button up and no transition.
LEMMA ZeroedInputType == ZeroedInput \in GameInput
  BY DEF ZeroedInput, ZeroedButton, GameInput, Button

\* Preparing an input yields an input.
LEMMA PreparedType ==
  ASSUME NEW slot \in GameInput, NEW last \in GameInput
  PROVE  Prepared(slot, last) \in GameInput
  BY DEF Prepared, GameInput, Button

\* A prepared input carries the settings and the buttons of the last one over, with no
\* transition counted, and keeps the slot's own request to quit.
LEMMA PreparedFields ==
  ASSUME NEW slot \in GameInput, NEW last \in GameInput
  PROVE  /\ Prepared(slot, last).request_quit = slot.request_quit
         /\ Prepared(slot, last).wireframe = last.wireframe
         /\ Prepared(slot, last).fullscreen = last.fullscreen
         /\ \A b \in Buttons :
              /\ Prepared(slot, last).keyboard[b].started_down = last.keyboard[b].ended_down
              /\ Prepared(slot, last).keyboard[b].ended_down = last.keyboard[b].ended_down
              /\ Prepared(slot, last).keyboard[b].half_transitions = 0
  BY DEF Prepared, GameInput, Button

\* A transition is counted and its end state taken; the start state stays.
LEMMA UpdatedButton ==
  ASSUME NEW button \in Button, NEW down \in BOOLEAN
  PROVE  /\ Updated(button, down) \in Button
         /\ Updated(button, down) = [started_down     |-> button.started_down,
                                     ended_down       |-> down,
                                     half_transitions |-> button.half_transitions + 1]
  BY DEF Updated, Button

\* A button's event changes that button of the buffer and nothing else of it.
LEMMA AppliedToButton ==
  ASSUME NEW input \in GameInput, NEW key \in Buttons, NEW down \in BOOLEAN
  PROVE  /\ Applied(input, key, down) \in GameInput
         /\ Applied(input, key, down).request_quit = input.request_quit
         /\ Applied(input, key, down).wireframe = input.wireframe
         /\ Applied(input, key, down).fullscreen = input.fullscreen
         /\ \A b \in Buttons \ {key} :
              Applied(input, key, down).keyboard[b] = input.keyboard[b]
         /\ Applied(input, key, down).keyboard[key].started_down = input.keyboard[key].started_down
         /\ Applied(input, key, down).keyboard[key].ended_down = down
         /\ Applied(input, key, down).keyboard[key].half_transitions =
              input.keyboard[key].half_transitions + 1
<1> DEFINE moved == [started_down     |-> input.keyboard[key].started_down,
                     ended_down       |-> down,
                     half_transitions |-> input.keyboard[key].half_transitions + 1]
<1>1. input.keyboard \in [Buttons -> Button]
  BY DEF GameInput
<1>2. input.keyboard[key] \in Button
  BY <1>1
<1>3. Updated(input.keyboard[key], down) = moved /\ moved \in Button
  BY <1>2, UpdatedButton
<1>4. Applied(input, key, down) = [input EXCEPT !.keyboard = [@ EXCEPT ![key] = moved]]
  BY <1>3 DEF Applied
<1>5. [input.keyboard EXCEPT ![key] = moved] \in [Buttons -> Button]
  BY <1>1, <1>3
<1> HIDE DEF moved
<1>6. Applied(input, key, down).keyboard = [input.keyboard EXCEPT ![key] = moved]
  BY <1>4 DEF GameInput
<1>7. Applied(input, key, down) \in GameInput
  BY <1>4, <1>5 DEF GameInput
<1>8. /\ Applied(input, key, down).request_quit = input.request_quit
      /\ Applied(input, key, down).wireframe = input.wireframe
      /\ Applied(input, key, down).fullscreen = input.fullscreen
  BY <1>4 DEF GameInput
<1> QED
  BY <1>1, <1>6, <1>7, <1>8 DEF moved

\* An event of a control key leaves the buttons alone.
LEMMA AppliedToControl ==
  ASSUME NEW input \in GameInput, NEW key \in ControlKeys, NEW down \in BOOLEAN
  PROVE  /\ Applied(input, key, down) \in GameInput
         /\ Applied(input, key, down).keyboard = input.keyboard
         /\ \/ Applied(input, key, down) = input
            \/ Applied(input, key, down) = [input EXCEPT !.wireframe = ~@]
            \/ Applied(input, key, down) = [input EXCEPT !.fullscreen = ~@]
            \/ Applied(input, key, down) = [input EXCEPT !.request_quit = TRUE]
<1>1. key \notin Buttons
  BY ButtonsAssumption
<1>2. CASE down
  BY <1>1, <1>2 DEF Applied
<1>3. CASE ~down /\ key = "F7"
  <2>1. Applied(input, key, down) = [input EXCEPT !.wireframe = ~@]
    BY <1>1, <1>3 DEF Applied
  <2> QED
    BY <2>1 DEF GameInput
<1>4. CASE ~down /\ key = "F11"
  <2>1. Applied(input, key, down) = [input EXCEPT !.fullscreen = ~@]
    BY <1>1, <1>4 DEF Applied
  <2> QED
    BY <2>1 DEF GameInput
<1>5. CASE ~down /\ key = "ESCAPE"
  <2>1. Applied(input, key, down) = [input EXCEPT !.request_quit = TRUE]
    BY <1>1, <1>5 DEF Applied
  <2> QED
    BY <2>1 DEF GameInput
<1> QED
  BY <1>2, <1>3, <1>4, <1>5 DEF ControlKeys

\* Every tracked key is a button or a control key.
LEMMA AppliedType ==
  ASSUME NEW input \in GameInput, NEW key \in TrackedKeys, NEW down \in BOOLEAN
  PROVE  Applied(input, key, down) \in GameInput
  BY AppliedToButton, AppliedToControl DEF TrackedKeys

\* One transition more flips the parity of a count.
LEMMA ParityFlips ==
  ASSUME NEW n \in Nat
  PROVE  (n + 1) % 2 = 1 <=> n % 2 # 1
  BY SMT

-----------------------------------------------------------------------------
(***************************************************************************)
(* Type correctness                                                        *)
(***************************************************************************)

\* handle_error yields a GLFW state whatever error it finds.
LEMMA HandledType ==
  ASSUME NEW error \in ErrorCodes, TypeOK
  PROVE  Handled(error) \in [init : BOOLEAN, error : PendingErrors]
  BY DEF Handled, TypeOK, ErrorCodes, PendingErrors

\* The zeroed inputs and the fresh GLFW have their types.
LEMMA TypeInit == Init => TypeOK
<1> SUFFICES ASSUME Init PROVE TypeOK
  OBVIOUS
<1>1. m_input \in [0..1 -> GameInput]
  BY ZeroedInputType DEF Init
<1>2. glfw \in [init : BOOLEAN, error : PendingErrors]
  BY DEF Init, PendingErrors
<1>3. events \in 0..MaxEvents
  BY MaxEventsAssumption DEF Init
<1> QED
  BY <1>1, <1>2, <1>3, ZeroedInputType DEF Init, TypeOK, Phases

\* Every step of the manager, of GLFW and of the loop keeps every variable's type.
LEMMA TypeStep == TypeOK /\ [Next]_vars => TypeOK'
<1> SUFFICES ASSUME TypeOK, [Next]_vars PROVE TypeOK'
  OBVIOUS
<1> USE MaxEventsAssumption
<1>1. CASE ProcessNewInput
  <2>1. oldest \in 0..1
    BY DEF TypeOK, oldest
  <2>2. Prepared(m_input[oldest], m_input[newest]) \in GameInput
    BY <2>1, PreparedType DEF TypeOK
  <2> QED
    BY <1>1, <2>1, <2>2 DEF ProcessNewInput, TypeOK, Phases
<1>2. ASSUME NEW key \in TrackedKeys, NEW down \in BOOLEAN, KeyEvent(key, down)
      PROVE  TypeOK'
  <2>1. input_buffer' \in GameInput
    BY <1>2, AppliedType DEF KeyEvent, TypeOK
  <2>2. glfw' \in [init : BOOLEAN, error : PendingErrors]
    BY <1>2, HandledType DEF KeyEvent, TypeOK, ErrorCodes
  <2>3. events' \in 0..MaxEvents
    BY <1>2 DEF KeyEvent, Polling, TypeOK
  <2> QED
    BY <1>2, <2>1, <2>2, <2>3 DEF KeyEvent, TypeOK
<1>3. ASSUME NEW key \in TrackedKeys, KeyRepeat(key)
      PROVE  TypeOK'
  <2>1. glfw' \in [init : BOOLEAN, error : PendingErrors]
    BY <1>3, HandledType DEF KeyRepeat, TypeOK, ErrorCodes
  <2>2. events' \in 0..MaxEvents
    BY <1>3 DEF KeyRepeat, Polling, TypeOK
  <2> QED
    BY <1>3, <2>1, <2>2 DEF KeyRepeat, TypeOK
<1>4. CASE UnknownKeyEvent
  <2>1. glfw' \in [init : BOOLEAN, error : PendingErrors]
    BY <1>4, HandledType DEF UnknownKeyEvent, ErrorCodes
  <2>2. events' \in 0..MaxEvents
    BY <1>4 DEF UnknownKeyEvent, Polling, TypeOK
  <2> QED
    BY <1>4, <2>1, <2>2 DEF UnknownKeyEvent, TypeOK
<1>5. CASE PlatformError
  <2>1. glfw' \in [init : BOOLEAN, error : PendingErrors]
    BY <1>5 DEF PlatformError, TypeOK, PendingErrors
  <2> QED
    BY <1>5, <2>1 DEF PlatformError, TypeOK
<1>6. CASE PollReturns
  <2>1. glfw' \in [init : BOOLEAN, error : PendingErrors]
    BY <1>6, HandledType DEF PollReturns, TypeOK, ErrorCodes
  <2>2. m_input' \in [0..1 -> GameInput] /\ phase' \in Phases
    BY <1>6 DEF PollReturns, TypeOK, Phases
  <2> QED
    BY <1>6, <2>1, <2>2 DEF PollReturns, TypeOK
<1>7. CASE PollCrashes
  BY <1>7 DEF PollCrashes, TypeOK, Phases
<1>8. CASE QuitLoop
  BY <1>8 DEF QuitLoop, TypeOK, Phases
<1>9. CASE FinishCycle
  BY <1>9 DEF FinishCycle, TypeOK, Phases
<1>10. CASE LeaveLoop
  <2>1. glfw' \in [init : BOOLEAN, error : PendingErrors]
    BY <1>10, HandledType DEF LeaveLoop, TypeOK, PendingErrors, ErrorCodes
  <2> QED
    BY <1>10, <2>1 DEF LeaveLoop, TypeOK, Phases
<1>11. CASE DestroyGlfw
  BY <1>11 DEF DestroyGlfw, TypeOK, PendingErrors
<1>12. CASE UNCHANGED vars
  BY <1>12 DEF vars, TypeOK
<1> QED
  BY <1>1, <1>2, <1>3, <1>4, <1>5, <1>6, <1>7, <1>8, <1>9, <1>10, <1>11, <1>12 DEF Next

\* Every variable keeps its type: the inputs stay well-formed Game_Inputs and no poll
\* delivers more than its bound.
THEOREM TypeCorrect == Spec => []TypeOK
  BY TypeInit, TypeStep, PTL DEF Spec

-----------------------------------------------------------------------------
(***************************************************************************)
(* The shape of the steps                                                  *)
(***************************************************************************)

\* The slot process_new_input prepares is the one get_input does not return, and the
\* buffer is a copy of it: the last input's settings and end states, no transitions.
LEMMA ProcessNewInputShape ==
  ASSUME TypeOK, ProcessNewInput
  PROVE  /\ phase = "idle" /\ phase' = "polling" /\ UNCHANGED <<glfw, keys>> /\ events' = 0
         /\ newest \in 0..1 /\ oldest \in 0..1
         /\ \A i \in 0..1 : i = newest \/ i = oldest
         /\ newest' = oldest /\ oldest' = newest
         /\ m_input'[newest'] = input_buffer'
         /\ m_input'[oldest'] = m_input[newest]
         /\ input_buffer' \in GameInput
         /\ input_buffer'.request_quit = m_input[oldest].request_quit
         /\ input_buffer'.wireframe = m_input[newest].wireframe
         /\ input_buffer'.fullscreen = m_input[newest].fullscreen
         /\ \A b \in Buttons :
              /\ input_buffer'.keyboard[b].started_down = m_input[newest].keyboard[b].ended_down
              /\ input_buffer'.keyboard[b].ended_down = m_input[newest].keyboard[b].ended_down
              /\ input_buffer'.keyboard[b].half_transitions = 0
<1>1. /\ oldest \in 0..1 /\ newest \in 0..1 /\ oldest # newest
      /\ \A i \in 0..1 : i = newest \/ i = oldest
  BY DEF TypeOK, oldest
<1>2. newest' = oldest /\ oldest' = newest
  BY DEF ProcessNewInput, oldest, TypeOK
<1>3. m_input[oldest] \in GameInput /\ m_input[newest] \in GameInput
  BY <1>1 DEF TypeOK
<1>4. input_buffer' = Prepared(m_input[oldest], m_input[newest])
  BY DEF ProcessNewInput
<1>5. m_input'[newest'] = input_buffer' /\ m_input'[oldest'] = m_input[newest]
  BY <1>1, <1>2 DEF ProcessNewInput, TypeOK
<1>6. input_buffer' \in GameInput
  BY <1>3, <1>4, PreparedType
<1>7. phase = "idle" /\ phase' = "polling" /\ UNCHANGED <<glfw, keys>> /\ events' = 0
  BY DEF ProcessNewInput
<1> QED
  BY <1>1, <1>2, <1>3, <1>4, <1>5, <1>6, <1>7, PreparedFields

\* A key event applies to the buffer when no error is pending and otherwise leaves it
\* alone; GLFW survives exactly when no platform error is pending.
LEMMA KeyEventShape ==
  ASSUME TypeOK, NEW key \in TrackedKeys, NEW down \in BOOLEAN, KeyEvent(key, down)
  PROVE  /\ phase = "polling" /\ glfw.init
         /\ UNCHANGED <<m_input, newest, phase>>
         /\ events' = events + 1
         /\ keys' = [keys EXCEPT ![key] = down]
         /\ \/ glfw.error = "no_error" /\ input_buffer' = Applied(input_buffer, key, down)
            \/ glfw.error # "no_error" /\ input_buffer' = input_buffer
         /\ glfw'.error = "no_error"
         /\ glfw.error = "platform_error" => ~glfw'.init
  BY DEF KeyEvent, Polling, Handled, TypeOK, PendingErrors

\* What a key event does to the buttons of the buffer.
LEMMA KeyEventButtons ==
  ASSUME TypeOK, NEW key \in TrackedKeys, NEW down \in BOOLEAN, KeyEvent(key, down)
  PROVE  \/ /\ glfw.error = "no_error" /\ key \in Buttons
            /\ \A b \in Buttons \ {key} : input_buffer'.keyboard[b] = input_buffer.keyboard[b]
            /\ input_buffer'.keyboard[key].started_down = input_buffer.keyboard[key].started_down
            /\ input_buffer'.keyboard[key].ended_down = down
            /\ input_buffer'.keyboard[key].half_transitions =
                 input_buffer.keyboard[key].half_transitions + 1
         \/ /\ glfw.error = "no_error" /\ key \notin Buttons
            /\ input_buffer'.keyboard = input_buffer.keyboard
         \/ /\ glfw.error # "no_error" /\ ~glfw'.init
            /\ input_buffer' = input_buffer
<1>1. input_buffer \in GameInput
  BY DEF TypeOK
<1>2. CASE glfw.error # "no_error"
  BY <1>2, KeyEventShape DEF TypeOK, PendingErrors
<1>3. CASE glfw.error = "no_error" /\ key \in Buttons
  <2>1. input_buffer' = Applied(input_buffer, key, down)
    BY <1>3, KeyEventShape
  <2> QED
    BY <1>1, <1>3, <2>1, AppliedToButton
<1>4. CASE glfw.error = "no_error" /\ key \notin Buttons
  <2>1. input_buffer' = Applied(input_buffer, key, down) /\ key \in ControlKeys
    BY <1>4, KeyEventShape DEF TrackedKeys
  <2>2. input_buffer'.keyboard = input_buffer.keyboard
    BY <1>1, <2>1, AppliedToControl
  <2> QED
    BY <1>4, <2>2
<1> QED
  BY <1>2, <1>3, <1>4

\* The events the callback always skips.
IgnoredEvent == (\E key \in TrackedKeys : KeyRepeat(key)) \/ UnknownKeyEvent

\* A skipped event counts as one and at most clears or terminates GLFW.
LEMMA IgnoredEventShape ==
  ASSUME TypeOK, IgnoredEvent
  PROVE  /\ phase = "polling" /\ glfw.init
         /\ UNCHANGED <<m_input, newest, input_buffer, phase, keys>>
         /\ events' = events + 1
         /\ glfw'.error = "no_error"
  BY DEF IgnoredEvent, KeyRepeat, UnknownKeyEvent, Polling, Handled

-----------------------------------------------------------------------------
(***************************************************************************)
(* Each conjunct of the inductive invariant is preserved                   *)
(***************************************************************************)

\* Parity survives: a transition flips both the count and the end state of one button, and
\* preparing an input resets both.
LEMMA ParityStep == IInv /\ [Next]_vars => TransitionParity'
<1> SUFFICES ASSUME IInv, [Next]_vars PROVE TransitionParity'
  OBVIOUS
<1> USE DEF IInv
<1>1. CASE ProcessNewInput
  <2>1. ParityOf(input_buffer')
    BY <1>1, ProcessNewInputShape DEF ParityOf
  <2>2. \A i \in 0..1 : ParityOf(m_input'[i])
    BY <1>1, <2>1, ProcessNewInputShape DEF TransitionParity
  <2> QED
    BY <2>1, <2>2 DEF TransitionParity, ParityOf
<1>2. ASSUME NEW key \in TrackedKeys, NEW down \in BOOLEAN, KeyEvent(key, down)
      PROVE  TransitionParity'
  <2>1. m_input' = m_input /\ phase = "polling" /\ glfw.init
    BY <1>2, KeyEventShape
  <2>2. ParityOf(input_buffer')
    <3>1. CASE input_buffer'.keyboard = input_buffer.keyboard
      BY <3>1 DEF TransitionParity, ParityOf
    <3>2. CASE key \in Buttons /\ input_buffer'.keyboard # input_buffer.keyboard
      <4> DEFINE old == input_buffer.keyboard[key]
      <4>1. old \in Button
        BY <3>2 DEF TypeOK, GameInput
      <4>2. old.ended_down = keys[key] /\ keys[key] # down /\ keys[key] \in BOOLEAN
        BY <1>2, <2>1, <3>2 DEF KeyEvent, Tracking, TypeOK
      <4>3. old.started_down # old.ended_down <=> old.half_transitions % 2 = 1
        BY <3>2 DEF TransitionParity, ParityOf
      <4>4. (old.half_transitions + 1) % 2 = 1 <=> old.half_transitions % 2 # 1
        BY <4>1, ParityFlips DEF Button
      <4>5. old.started_down # down <=> (old.half_transitions + 1) % 2 = 1
        BY <4>1, <4>2, <4>3, <4>4 DEF Button
      <4> QED
        BY <1>2, <3>2, <4>5, KeyEventButtons DEF TransitionParity, ParityOf
    <3> QED
      BY <1>2, <3>1, <3>2, KeyEventButtons
  <2> QED
    BY <2>1, <2>2 DEF TransitionParity, ParityOf
<1>3. CASE PollReturns
  BY <1>3 DEF PollReturns, TransitionParity, ParityOf, TypeOK
<1>4. CASE UNCHANGED <<m_input, input_buffer>>
  BY <1>4 DEF TransitionParity, ParityOf
<1> QED
  BY <1>1, <1>2, <1>3, <1>4
  DEF Next, vars, KeyRepeat, UnknownKeyEvent, PlatformError, PollCrashes, QuitLoop, FinishCycle, LeaveLoop, DestroyGlfw

\* The input that holds the buttons as they are now goes on agreeing with the keyboard:
\* an event that is not applied has terminated GLFW.
LEMMA TrackingStep == IInv /\ [Next]_vars => Tracking'
<1> SUFFICES ASSUME IInv, [Next]_vars PROVE Tracking'
  OBVIOUS
<1> USE DEF IInv
<1>1. CASE ProcessNewInput
  BY <1>1, ProcessNewInputShape DEF Tracking, Latest
<1>2. ASSUME NEW key \in TrackedKeys, NEW down \in BOOLEAN, KeyEvent(key, down)
      PROVE  Tracking'
  <2>1. /\ phase' = "polling" /\ phase = "polling" /\ glfw.init
        /\ keys' = [keys EXCEPT ![key] = down]
    BY <1>2, KeyEventShape
  <2>2. \A b \in Buttons : keys'[b] = IF b = key THEN down ELSE keys[b]
    BY <2>1 DEF TypeOK, TrackedKeys
  <2>3. glfw'.init =>
          \A b \in Buttons : input_buffer'.keyboard[b].ended_down =
                               IF b = key THEN down ELSE input_buffer.keyboard[b].ended_down
    BY <1>2, KeyEventButtons
  <2> QED
    BY <2>1, <2>2, <2>3 DEF Tracking
<1>3. CASE IgnoredEvent
  BY <1>3, IgnoredEventShape DEF Tracking
<1>4. CASE PlatformError
  BY <1>4 DEF PlatformError, Tracking, Latest, TypeOK
<1>5. CASE PollReturns
  BY <1>5 DEF PollReturns, Handled, Tracking, Latest, TypeOK
<1>6. CASE PollCrashes
  BY <1>6 DEF PollCrashes, Tracking, Latest
<1>7. CASE QuitLoop \/ FinishCycle \/ LeaveLoop \/ DestroyGlfw
  BY <1>7 DEF QuitLoop, FinishCycle, LeaveLoop, DestroyGlfw, Tracking, Latest
<1>8. CASE UNCHANGED vars
  BY <1>8 DEF vars, Tracking, Latest
<1> QED
  BY <1>1, <1>2, <1>3, <1>4, <1>5, <1>6, <1>7, <1>8 DEF Next, IgnoredEvent

\* No count outgrows the events of the poll, for a poll starts with every count at zero.
LEMMA BoundStep == IInv /\ [Next]_vars => TransitionsBounded'
<1> SUFFICES ASSUME IInv, [Next]_vars PROVE TransitionsBounded'
  OBVIOUS
<1> USE DEF IInv
<1>1. \A b \in Buttons : /\ input_buffer.keyboard[b].half_transitions \in Nat
                         /\ input_buffer.keyboard[b].half_transitions <= events
                         /\ input_buffer.keyboard[b].half_transitions <= MaxEvents
  <2>1. \A b \in Buttons : input_buffer.keyboard[b].half_transitions \in Nat
    BY DEF TypeOK, GameInput, Button
  <2> QED
    BY <2>1, MaxEventsAssumption DEF TransitionsBounded, TypeOK
<1>2. CASE ProcessNewInput
  <2>1. \A b \in Buttons : input_buffer'.keyboard[b].half_transitions = 0
    BY <1>2, ProcessNewInputShape
  <2>2. \A i \in 0..1 : m_input'[i] = input_buffer' \/ m_input'[i] = m_input[newest]
    BY <1>2, ProcessNewInputShape
  <2>3. newest \in 0..1 /\ events' = 0
    BY <1>2, ProcessNewInputShape
  <2> QED
    BY <2>1, <2>2, <2>3, MaxEventsAssumption DEF TransitionsBounded
<1>3. ASSUME NEW key \in TrackedKeys, NEW down \in BOOLEAN, KeyEvent(key, down)
      PROVE  TransitionsBounded'
  <2>1. events \in Nat /\ events' = events + 1 /\ m_input' = m_input
    BY <1>3, KeyEventShape DEF TypeOK
  <2>2. \A b \in Buttons :
          \/ input_buffer'.keyboard[b].half_transitions = input_buffer.keyboard[b].half_transitions
          \/ input_buffer'.keyboard[b].half_transitions = input_buffer.keyboard[b].half_transitions + 1
    BY <1>3, KeyEventButtons
  <2>3. \A b \in Buttons : input_buffer'.keyboard[b].half_transitions <= events'
    BY <1>1, <2>1, <2>2
  <2> QED
    BY <2>1, <2>3 DEF TransitionsBounded
<1>4. CASE IgnoredEvent
  BY <1>1, <1>4, IgnoredEventShape DEF TransitionsBounded, TypeOK
<1>5. CASE PollReturns
  <2>1. \A i \in 0..1 : m_input'[i] = m_input[i] \/ m_input'[i] = input_buffer
    BY <1>5 DEF PollReturns, TypeOK
  <2>2. UNCHANGED <<input_buffer, events>>
    BY <1>5 DEF PollReturns
  <2> QED
    BY <1>1, <2>1, <2>2 DEF TransitionsBounded
<1>6. CASE UNCHANGED <<m_input, input_buffer, events>>
  BY <1>6 DEF TransitionsBounded
<1> QED
  BY <1>2, <1>3, <1>4, <1>5, <1>6
  DEF Next, vars, IgnoredEvent, PlatformError, PollCrashes, QuitLoop, FinishCycle, LeaveLoop, DestroyGlfw

\* A poll returns ok only after handle_error has found no error.
LEMMA NoStaleErrorStep == IInv /\ [Next]_vars => NoStaleError'
<1> SUFFICES ASSUME IInv, [Next]_vars PROVE NoStaleError'
  OBVIOUS
<1> USE DEF IInv, NoStaleError
<1>1. CASE ProcessNewInput \/ PlatformError \/ PollCrashes \/ QuitLoop \/ FinishCycle \/ LeaveLoop \/ DestroyGlfw
  BY <1>1 DEF ProcessNewInput, PlatformError, PollCrashes, QuitLoop, FinishCycle, LeaveLoop, DestroyGlfw
<1>2. ASSUME NEW key \in TrackedKeys, NEW down \in BOOLEAN, KeyEvent(key, down)
      PROVE  NoStaleError'
  BY <1>2, KeyEventShape
<1>3. CASE IgnoredEvent \/ PollReturns
  BY <1>3, IgnoredEventShape DEF PollReturns, Handled
<1>4. CASE UNCHANGED vars
  BY <1>4 DEF vars
<1> QED
  BY <1>1, <1>2, <1>3, <1>4 DEF Next, IgnoredEvent

\* A request to quit stays in the latest input only, and no cycle follows it.
LEMMA NoOldQuitStep == IInv /\ [Next]_vars => NoOldQuit'
<1> SUFFICES ASSUME IInv, [Next]_vars PROVE NoOldQuit'
  OBVIOUS
<1> USE DEF IInv, NoOldQuit
<1>1. CASE ProcessNewInput
  BY <1>1, ProcessNewInputShape
<1>2. ASSUME NEW key \in TrackedKeys, NEW down \in BOOLEAN, KeyEvent(key, down)
      PROVE  NoOldQuit'
  BY <1>2, KeyEventShape
<1>3. CASE IgnoredEvent
  BY <1>3, IgnoredEventShape
<1>4. CASE PollReturns
  BY <1>4 DEF PollReturns, oldest, TypeOK
<1>5. CASE FinishCycle
  <2>1. \A i \in 0..1 : i = newest \/ i = oldest
    BY DEF TypeOK, oldest
  <2> QED
    BY <1>5, <2>1 DEF FinishCycle, Latest
<1>6. CASE PlatformError \/ PollCrashes \/ QuitLoop \/ LeaveLoop \/ DestroyGlfw
  BY <1>6 DEF PlatformError, PollCrashes, QuitLoop, LeaveLoop, DestroyGlfw
<1>7. CASE UNCHANGED vars
  BY <1>7 DEF vars, oldest
<1> QED
  BY <1>1, <1>2, <1>3, <1>4, <1>5, <1>6, <1>7 DEF Next, IgnoredEvent

\* The buffer's start states are the old input's end states throughout a cycle.
LEMMA ContinuityStep == IInv /\ [Next]_vars => Continuity'
<1> SUFFICES ASSUME IInv, [Next]_vars PROVE Continuity'
  OBVIOUS
<1> USE DEF IInv, Continuity, Collecting
<1>1. CASE ProcessNewInput
  BY <1>1, ProcessNewInputShape
<1>2. ASSUME NEW key \in TrackedKeys, NEW down \in BOOLEAN, KeyEvent(key, down)
      PROVE  Continuity'
  <2>1. UNCHANGED <<m_input, oldest, phase>> /\ phase = "polling"
    BY <1>2, KeyEventShape DEF oldest
  <2>2. \A b \in Buttons :
          input_buffer'.keyboard[b].started_down = input_buffer.keyboard[b].started_down
    BY <1>2, KeyEventButtons
  <2> QED
    BY <2>1, <2>2
<1>3. CASE IgnoredEvent
  BY <1>3, IgnoredEventShape DEF oldest
<1>4. CASE PollReturns
  BY <1>4 DEF PollReturns, oldest
<1>5. CASE PlatformError \/ PollCrashes \/ QuitLoop \/ FinishCycle \/ LeaveLoop \/ DestroyGlfw
  BY <1>5 DEF PlatformError, PollCrashes, QuitLoop, FinishCycle, LeaveLoop, DestroyGlfw, oldest
<1>6. CASE UNCHANGED vars
  BY <1>6 DEF vars, oldest
<1> QED
  BY <1>1, <1>2, <1>3, <1>4, <1>5, <1>6 DEF Next, IgnoredEvent

-----------------------------------------------------------------------------
(***************************************************************************)
(* The invariants                                                          *)
(***************************************************************************)

\* The invariant holds initially.
LEMMA InductiveInit == Init => IInv
<1> SUFFICES ASSUME Init PROVE IInv
  OBVIOUS
<1>1. TypeOK
  BY TypeInit
<1>2. \A b \in Buttons : /\ ZeroedInput.keyboard[b].started_down = FALSE
                         /\ ZeroedInput.keyboard[b].ended_down = FALSE
                         /\ ZeroedInput.keyboard[b].half_transitions = 0
  BY DEF ZeroedInput, ZeroedButton
<1>3. \A i \in 0..1 : m_input[i] = ZeroedInput
  BY DEF Init
<1>4. Tracking
  <2>1. Latest = ZeroedInput /\ \A b \in Buttons : keys[b] = FALSE
    BY <1>3 DEF Init, Latest, TrackedKeys
  <2> QED
    BY <1>2, <2>1 DEF Init, Tracking
<1>5. TransitionParity
  <2>1. ParityOf(ZeroedInput)
    <3>1. \A b \in Buttons : ZeroedInput.keyboard[b] = ZeroedButton
      BY DEF ZeroedInput
    <3>2. ~(ZeroedButton.started_down # ZeroedButton.ended_down)
      BY DEF ZeroedButton
    <3>3. ZeroedButton.half_transitions % 2 # 1
      BY DEF ZeroedButton
    <3> QED
      BY <3>1, <3>2, <3>3 DEF ParityOf
  <2>2. input_buffer = ZeroedInput
    BY DEF Init
  <2> QED
    BY <1>3, <2>1, <2>2 DEF TransitionParity
<1>6. TransitionsBounded
  <2>1. input_buffer = ZeroedInput /\ events = 0
    BY DEF Init
  <2>2. 0 <= MaxEvents
    BY MaxEventsAssumption
  <2>3. \A b \in Buttons : ZeroedInput.keyboard[b] = ZeroedButton
    BY DEF ZeroedInput
  <2>4. ZeroedButton.half_transitions <= events /\ ZeroedButton.half_transitions <= MaxEvents
    <3>1. ZeroedButton.half_transitions = 0
      BY DEF ZeroedButton
    <3> QED
      BY <2>1, <2>2, <3>1
  <2> QED
    BY <1>3, <2>1, <2>3, <2>4 DEF TransitionsBounded
<1>7. NoStaleError /\ NoOldQuit /\ Continuity
  BY DEF Init, NoStaleError, NoOldQuit, Continuity, Collecting, ZeroedInput
<1> QED
  BY <1>1, <1>4, <1>5, <1>6, <1>7 DEF IInv

\* The conjunction of the invariants is inductive.
LEMMA Inductive == Spec => []IInv
<1>1. IInv /\ [Next]_vars => IInv'
  <2> SUFFICES ASSUME IInv, [Next]_vars PROVE IInv'
    OBVIOUS
  <2>1. TypeOK'
    BY TypeStep DEF IInv
  <2> QED
    BY <2>1, TrackingStep, ParityStep, BoundStep, NoStaleErrorStep, NoOldQuitStep,
       ContinuityStep DEF IInv
<1> QED
  BY <1>1, InductiveInit, PTL DEF Spec

\* As long as GLFW lives, what process_new_input publishes is the state of the keyboard.
THEOREM KeyboardIsTracked == Spec => []KeyboardTracked
<1>1. IInv => KeyboardTracked
  BY DEF IInv, Tracking, KeyboardTracked
<1> QED
  BY <1>1, Inductive, PTL

\* Half transitions are odd exactly for a button that ended otherwise than it started,
\* in every input there is, dropped events and failed polls included.
THEOREM ParityHolds == Spec => []TransitionParity
  BY Inductive, PTL DEF IInv

\* No count of half transitions outgrows the events of one poll.
THEOREM CountsAreBounded == Spec => []TransitionsBounded
  BY Inductive, PTL DEF IInv

\* Every call that returns ok returns with GLFW's error register empty.
THEOREM ErrorsDoNotOutlive == Spec => []NoStaleError
  BY Inductive, PTL DEF IInv

-----------------------------------------------------------------------------
(***************************************************************************)
(* The action property                                                     *)
(***************************************************************************)

\* A button's event that leaves the buffer as it was has terminated GLFW.
THEOREM DropsTerminate == Spec => DropTerminatesGlfw
<1> DEFINE Drops == \A b \in Buttons :
                     keys'[b] # keys[b] /\ input_buffer' = input_buffer => ~glfw'.init
<1>1. TypeOK /\ [Next]_vars => [Drops]_vars
  <2> SUFFICES ASSUME TypeOK, Next PROVE Drops
    OBVIOUS
  <2>1. ASSUME NEW key \in TrackedKeys, NEW down \in BOOLEAN, KeyEvent(key, down)
        PROVE  Drops
    <3> SUFFICES ASSUME NEW b \in Buttons, keys'[b] # keys[b], input_buffer' = input_buffer
                 PROVE  ~glfw'.init
      OBVIOUS
    <3>1. b = key
      BY <2>1, KeyEventShape DEF TypeOK, TrackedKeys
    <3>2. input_buffer.keyboard[key].half_transitions \in Nat
      BY <3>1 DEF TypeOK, GameInput, Button
    <3> QED
      BY <2>1, <3>1, <3>2, KeyEventButtons
  <2>2. CASE UNCHANGED keys
    BY <2>2
  <2> QED
    BY <2>1, <2>2 DEF Next, ProcessNewInput, KeyRepeat, UnknownKeyEvent, PlatformError,
                      PollReturns, PollCrashes, QuitLoop, FinishCycle, LeaveLoop, DestroyGlfw
<1> QED
  BY <1>1, TypeCorrect, PTL DEF Spec, DropTerminatesGlfw

-----------------------------------------------------------------------------
(***************************************************************************)
(* Refinement of InputSpec                                                 *)
(***************************************************************************)

\* The manager starts as its promise does: nothing collected, a zeroed snapshot.
LEMMA PromiseInit == Init => Promise!Init
<1> SUFFICES ASSUME Init PROVE Promise!Init
  OBVIOUS
<1>1. ~Collecting /\ Current = ZeroedInput /\ Snapshot = ZeroedInput
  BY DEF Init, Collecting, Current, Latest, Snapshot
<1>2. ZeroedInput = Promise!ZeroedInput
  BY DEF ZeroedInput, ZeroedButton, Promise!ZeroedInput, Promise!ZeroedButton
<1>3. Held = [b \in Buttons |-> FALSE] /\ Edges = [b \in Buttons |-> 0]
  BY <1>1 DEF Held, Edges, ZeroedInput, ZeroedButton
<1>4. Settings = [wireframe |-> FALSE, fullscreen |-> FALSE] /\ Current.request_quit = FALSE
  BY <1>1 DEF Settings, ZeroedInput
<1> QED
  BY <1>1, <1>2, <1>3, <1>4 DEF Promise!Init

\* Preparing the inputs and entering the poll begins a cycle of the promise.
LEMMA ProcessNewInputBegins ==
  ASSUME IInv, ProcessNewInput
  PROVE  Promise!Begin
<1> USE DEF IInv
<1>1. ~Collecting /\ Collecting' = TRUE
  BY ProcessNewInputShape DEF Collecting
<1>2. /\ Current = Latest /\ Current' = input_buffer'
      /\ Snapshot = Latest /\ Snapshot' = Latest
  BY <1>1, ProcessNewInputShape DEF Current, Snapshot, Latest
<1>3. ~Snapshot.request_quit
  BY <1>2, ProcessNewInputShape DEF Latest, NoOldQuit
<1>4. UNCHANGED <<Held, Settings>> /\ Edges' = [b \in Buttons |-> 0]
  BY <1>2, ProcessNewInputShape DEF Held, Settings, Edges, Latest
<1>5. Current'.request_quit = FALSE
  <2>1. m_input[oldest].request_quit = FALSE
    BY ProcessNewInputShape DEF NoOldQuit, TypeOK, GameInput
  <2> QED
    BY <1>2, <2>1, ProcessNewInputShape
<1> QED
  BY <1>1, <1>2, <1>3, <1>4, <1>5 DEF Promise!Begin

\* A key event moves a button, toggles a setting, asks to quit or changes nothing.
LEMMA KeyEventCollects ==
  ASSUME IInv, NEW key \in TrackedKeys, NEW down \in BOOLEAN, KeyEvent(key, down)
  PROVE  Promise!Next \/ UNCHANGED Promise!vars
<1> USE DEF IInv
<1>1. Collecting /\ UNCHANGED <<Collecting, Snapshot>>
  BY KeyEventShape DEF Collecting, Snapshot, oldest, Latest
<1>2. Current = input_buffer /\ Current' = input_buffer' /\ input_buffer \in GameInput
  BY <1>1 DEF Current, TypeOK
<1>3. CASE input_buffer' = input_buffer
  BY <1>1, <1>2, <1>3 DEF Promise!vars, Held, Edges, Settings
<1>4. CASE key \in Buttons /\ input_buffer' = Applied(input_buffer, key, down)
  <2>1. UNCHANGED <<Settings, Current.request_quit>>
    BY <1>2, <1>4, AppliedToButton DEF Settings
  <2>2. Held' = [Held EXCEPT ![key] = down]
    <3>1. \A b \in Buttons : input_buffer'.keyboard[b].ended_down =
                             IF b = key THEN down ELSE input_buffer.keyboard[b].ended_down
      BY <1>2, <1>4, AppliedToButton
    <3> QED
      BY <1>2, <1>4, <3>1 DEF Held
  <2>3. Edges' = [Edges EXCEPT ![key] = @ + 1]
    <3>1. \A b \in Buttons : input_buffer'.keyboard[b].half_transitions =
                             IF b = key THEN input_buffer.keyboard[b].half_transitions + 1
                                        ELSE input_buffer.keyboard[b].half_transitions
      BY <1>2, <1>4, AppliedToButton
    <3> QED
      BY <1>2, <1>4, <3>1 DEF Edges
  <2>4. Promise!Move(key, down)
    BY <1>1, <2>1, <2>2, <2>3 DEF Promise!Move
  <2> QED
    BY <1>4, <2>4 DEF Promise!Next
<1>5. CASE key \in ControlKeys /\ input_buffer' = Applied(input_buffer, key, down)
  <2>1. UNCHANGED <<Held, Edges>>
    BY <1>2, <1>5, AppliedToControl DEF Held, Edges
  <2>2. CASE input_buffer' = [input_buffer EXCEPT !.wireframe = ~@]
    <3>1. /\ Settings' = [Settings EXCEPT !["wireframe"] = ~@]
          /\ UNCHANGED Current.request_quit
      BY <1>2, <2>2 DEF Settings, GameInput
    <3> QED
      BY <1>1, <2>1, <3>1 DEF Promise!Toggle, Promise!Next
  <2>3. CASE input_buffer' = [input_buffer EXCEPT !.fullscreen = ~@]
    <3>1. /\ Settings' = [Settings EXCEPT !["fullscreen"] = ~@]
          /\ UNCHANGED Current.request_quit
      BY <1>2, <2>3 DEF Settings, GameInput
    <3> QED
      BY <1>1, <2>1, <3>1 DEF Promise!Toggle, Promise!Next
  <2>4. CASE input_buffer' = [input_buffer EXCEPT !.request_quit = TRUE]
    <3>1. Current'.request_quit = TRUE /\ UNCHANGED Settings
      BY <1>2, <2>4 DEF Settings, GameInput
    <3> QED
      BY <1>1, <2>1, <3>1 DEF Promise!AskToQuit, Promise!Next
  <2> QED
    BY <1>2, <1>3, <1>5, <2>2, <2>3, <2>4, AppliedToControl
<1> QED
  BY <1>3, <1>4, <1>5, KeyEventShape DEF TrackedKeys

\* A poll that ends without an error publishes exactly the promised snapshot.
LEMMA PollReturnsPublishes ==
  ASSUME IInv, PollReturns, glfw.error = "no_error"
  PROVE  Promise!Publish
<1> USE DEF IInv
<1>1. phase = "polling" /\ phase' = "published" /\ UNCHANGED <<newest, input_buffer>>
  BY DEF PollReturns
<1>2. Collecting /\ Collecting' = FALSE
  BY <1>1 DEF Collecting
<1>3. Latest' = input_buffer /\ input_buffer \in GameInput
  BY DEF PollReturns, Latest, TypeOK
<1>4. Current = input_buffer /\ Current' = input_buffer
  BY <1>2, <1>3 DEF Current
<1>5. Snapshot = m_input[oldest] /\ Snapshot' = input_buffer
  BY <1>2, <1>3 DEF Snapshot
<1>6. \A b \in Buttons : /\ input_buffer.keyboard[b] \in Button
                         /\ input_buffer.keyboard[b].started_down = Snapshot.keyboard[b].ended_down
                         /\ input_buffer.keyboard[b].ended_down = Held[b]
                         /\ input_buffer.keyboard[b].half_transitions = Edges[b]
  <2>1. \A b \in Buttons :
          input_buffer.keyboard[b].started_down = Snapshot.keyboard[b].ended_down
    BY <1>2, <1>5 DEF Continuity
  <2>2. \A b \in Buttons : /\ input_buffer.keyboard[b].ended_down = Held[b]
                           /\ input_buffer.keyboard[b].half_transitions = Edges[b]
    BY <1>4 DEF Held, Edges
  <2> QED
    BY <1>3, <2>1, <2>2 DEF GameInput
<1>7. input_buffer.keyboard =
        [b \in Buttons |-> [started_down     |-> Snapshot.keyboard[b].ended_down,
                            ended_down       |-> Held[b],
                            half_transitions |-> Edges[b]]]
  BY <1>3, <1>6 DEF GameInput, Button
<1>8. Snapshot' = [request_quit |-> Current.request_quit,
                   wireframe    |-> Settings.wireframe,
                   fullscreen   |-> Settings.fullscreen,
                   keyboard     |-> [b \in Buttons |->
                                      [started_down     |-> Snapshot.keyboard[b].ended_down,
                                       ended_down       |-> Held[b],
                                       half_transitions |-> Edges[b]]]]
  BY <1>3, <1>4, <1>5, <1>7 DEF GameInput, Settings
<1>9. UNCHANGED <<Held, Edges, Settings, Current.request_quit>>
  BY <1>4 DEF Held, Edges, Settings
<1> QED
  BY <1>2, <1>8, <1>9 DEF Promise!Publish

\* Every step is a step of the promise or leaves what it sees unchanged.
LEMMA PromiseStep == IInv /\ [Next]_vars => [Promise!Next]_(Promise!vars)
<1> SUFFICES ASSUME IInv, [Next]_vars PROVE Promise!Next \/ UNCHANGED Promise!vars
  OBVIOUS
<1>1. CASE ProcessNewInput
  BY <1>1, ProcessNewInputBegins DEF Promise!Next
<1>2. ASSUME NEW key \in TrackedKeys, NEW down \in BOOLEAN, KeyEvent(key, down)
      PROVE  Promise!Next \/ UNCHANGED Promise!vars
  BY <1>2, KeyEventCollects
<1>3. CASE PollReturns /\ glfw.error = "no_error"
  BY <1>3, PollReturnsPublishes DEF Promise!Next
<1>4. CASE UNCHANGED <<m_input, newest, input_buffer, Collecting>>
  BY <1>4 DEF Promise!vars, Held, Edges, Settings, Snapshot, Current, Latest, oldest
<1>5. CASE PollReturns /\ glfw.error # "no_error"
  BY <1>4, <1>5 DEF PollReturns, Collecting
<1>6. CASE IgnoredEvent
  BY <1>4, <1>6, IgnoredEventShape DEF IInv, Collecting
<1>7. CASE PlatformError \/ PollCrashes \/ QuitLoop \/ FinishCycle \/ LeaveLoop \/ DestroyGlfw
  BY <1>4, <1>7 DEF PlatformError, PollCrashes, QuitLoop, FinishCycle, LeaveLoop, DestroyGlfw, Collecting
<1>8. CASE UNCHANGED vars
  BY <1>4, <1>8 DEF vars, Collecting
<1> QED
  BY <1>1, <1>2, <1>3, <1>5, <1>6, <1>7, <1>8 DEF Next, IgnoredEvent

\* The two swapped inputs, the static buffer and the callback together publish, cycle
\* after cycle, the snapshots InputSpec promises.
THEOREM InputManagerKeepsPromise == Spec => KeepsPromise
  BY PromiseInit, PromiseStep, Inductive, PTL DEF Spec, KeepsPromise, Promise!Spec

=============================================================================
