----------------------------- MODULE InputSpec -----------------------------
(***************************************************************************)
(* What the input manager promises the engine loop, with none of its       *)
(* buffers: a cycle collects the key events of one poll, and ends, if it   *)
(* ends well, by publishing one snapshot.  A snapshot says of every button *)
(* how it was in the previous snapshot, how it is now, and how many        *)
(* transitions lie between; it carries the settings as toggled so far; and *)
(* it asks to quit only if Escape was released in that very cycle.         *)
(***************************************************************************)
EXTENDS Input

VARIABLES
  collecting,  \* a cycle has begun and has not published
  held,        \* the buttons down, by the events accepted so far
  edges,       \* per button, the transitions accepted in this cycle
  settings,    \* the settings, by the toggles accepted so far
  quit,        \* Escape was released in this cycle
  snapshot     \* the input last published

vars == <<collecting, held, edges, settings, quit, snapshot>>

Init ==
  /\ collecting = FALSE
  /\ held = [b \in Buttons |-> FALSE]
  /\ edges = [b \in Buttons |-> 0]
  /\ settings = [wireframe |-> FALSE, fullscreen |-> FALSE]
  /\ quit = FALSE
  /\ snapshot = ZeroedInput

\* No cycle begins once a snapshot has asked to quit.
Begin ==
  /\ ~collecting
  /\ ~snapshot.request_quit
  /\ collecting' = TRUE
  /\ edges' = [b \in Buttons |-> 0]
  /\ quit' = FALSE
  /\ UNCHANGED <<held, settings, snapshot>>

Move(b, down) ==
  /\ collecting
  /\ held' = [held EXCEPT ![b] = down]
  /\ edges' = [edges EXCEPT ![b] = @ + 1]
  /\ UNCHANGED <<collecting, settings, quit, snapshot>>

Toggle(setting) ==
  /\ collecting
  /\ settings' = [settings EXCEPT ![setting] = ~@]
  /\ UNCHANGED <<collecting, held, edges, quit, snapshot>>

AskToQuit ==
  /\ collecting
  /\ quit' = TRUE
  /\ UNCHANGED <<collecting, held, edges, settings, snapshot>>

Publish ==
  /\ collecting
  /\ collecting' = FALSE
  /\ snapshot' = [request_quit |-> quit,
                  wireframe    |-> settings.wireframe,
                  fullscreen   |-> settings.fullscreen,
                  keyboard     |-> [b \in Buttons |->
                                     [started_down     |-> snapshot.keyboard[b].ended_down,
                                      ended_down       |-> held[b],
                                      half_transitions |-> edges[b]]]]
  /\ UNCHANGED <<held, edges, settings, quit>>

Next ==
  \/ Begin
  \/ \E b \in Buttons, down \in BOOLEAN : Move(b, down)
  \/ \E setting \in {"wireframe", "fullscreen"} : Toggle(setting)
  \/ AskToQuit
  \/ Publish

Spec == Init /\ [][Next]_vars

=============================================================================
