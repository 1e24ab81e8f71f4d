----------------------------- MODULE FrameSpec -----------------------------
(***************************************************************************)
(* What run and render_text promise of the frames, with none of OpenGL's   *)
(* state: some characters get a glyph; then each frame that is shown has   *)
(* the rectangle and, over it and in reading order, the characters of the  *)
(* texts that have a glyph, each of them once, with the text's program,    *)
(* blended, and as far along the line as the glyphs before it in its text  *)
(* take up.                                                                *)
(***************************************************************************)
EXTENDS Integers, Sequences, FiniteSetsExt

CONSTANTS Chars, Texts, Advance

VARIABLES
  stage,    \* "setup", "between" frames, "drawing" one, "over"
  cached,   \* the characters that have a glyph
  left,     \* the places of the frame at which nothing has been drawn yet
  last      \* what was drawn last

vars == <<stage, cached, left, last>>

\* The place of the rectangle comes before those of the texts' characters.
Rectangle == <<0, 1>>

Places ==
  {Rectangle} \union
  UNION {{<<l, j>> : j \in {k \in DOMAIN Texts[l] : Texts[l][k] \in cached}} : l \in DOMAIN Texts}

Before(p, q) == p[1] < q[1] \/ (p[1] = q[1] /\ p[2] < q[2])

\* How far the glyphs before place p move it along its line.
Offset(p) ==
  MapThenSumSet(LAMBDA j : Advance[Texts[p[1]][j]] \div 64,
                {j \in 1..(p[2] - 1) : Texts[p[1]][j] \in cached})

\* What is seen of a draw call: the programs it was made with, the vertices, the
\* characters whose glyph it shows and whether it is blended with what is below.
Seen(p) ==
  IF p = Rectangle
  THEN [by |-> {"simple_shader"}, from |-> <<"rectangle">>, shows |-> {}, blend |-> FALSE]
  ELSE LET c == Texts[p[1]][p[2]]
       IN [by |-> {"text_shader"}, from |-> <<c, Offset(p)>>, shows |-> {c}, blend |-> TRUE]

Init ==
  /\ stage = "setup"
  /\ cached = {}
  /\ left = {}
  /\ last.shows = {}

Load ==
  /\ stage = "setup"
  /\ \E c \in Chars \ cached : cached' = cached \union {c}
  /\ UNCHANGED <<stage, left, last>>

GetReady ==
  /\ stage = "setup"
  /\ stage' = "between"
  /\ UNCHANGED <<cached, left, last>>

BeginFrame ==
  /\ stage = "between"
  /\ stage' = "drawing"
  /\ left' = Places
  /\ UNCHANGED <<cached, last>>

Draw ==
  /\ stage = "drawing"
  /\ \E p \in left :
       /\ \A q \in left \ {p} : Before(p, q)
       /\ left' = left \ {p}
       /\ last' = Seen(p)
  /\ UNCHANGED <<stage, cached>>

\* A frame is shown once there is nothing left to draw.
Show ==
  /\ stage = "drawing"
  /\ left = {}
  /\ stage' = "between"
  /\ UNCHANGED <<cached, left, last>>

Stop ==
  /\ stage = "setup" \/ (stage = "drawing" /\ left = {})
  /\ stage' = "over"
  /\ UNCHANGED <<cached, left, last>>

Next ==
  \/ Load
  \/ GetReady
  \/ BeginFrame
  \/ Draw
  \/ Show
  \/ Stop

Spec == Init /\ [][Next]_vars

=============================================================================
