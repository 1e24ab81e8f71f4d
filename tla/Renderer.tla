------------------------------ MODULE Renderer ------------------------------
(***************************************************************************)
(* What Rtek_Engine::run and Renderer do with OpenGL: the glyphs are       *)
(* loaded as textures, the two shader programs are compiled, and each      *)
(* frame draws the rectangle and then the texts, glyph by glyph.  A draw   *)
(* call takes what it needs from OpenGL's current state (the program, the  *)
(* vertex array, the texture, blending), which every step before it may    *)
(* have changed; `drawn' records what the last one took.                   *)
(*                                                                         *)
(* The shader programs are the module ShaderProgram.  Input, the window    *)
(* and the failures of GLFW are in Engine.                                 *)
(***************************************************************************)
EXTENDS Integers, Sequences, FiniteSets, FiniteSetsExt

CONSTANTS
  Names, invalid_handle, NoObject,    \* ShaderProgram
  Chars,        \* the character codes that are cached
  Textures,     \* the names OpenGL gives to textures
  NoTexture,    \* texture 0
  Texts,        \* the texts of a frame, in the order they are rendered
  Advance       \* the advance of each glyph, in 64ths of a pixel

ASSUME TextsAssumption == Texts \in Seq(Seq(Chars)) /\ Advance \in [Chars -> Int]

ASSUME TexturesAssumption == NoTexture \notin Textures

ShaderPrograms == {"simple_shader", "text_shader"}

ASSUME HandlesAssumption == invalid_handle \notin Names /\ NoObject \notin ShaderPrograms

VARIABLES
  m_id, program, current, uniforms, client, active,    \* ShaderProgram
  pc,             \* the step run, load_font_glyphs or render_text is at
  freetype,       \* what is open of FreeType: "library", "face"
  todo,           \* the character codes load_font_glyphs has not come to
  m_characters,   \* the texture of each cached character
  textures,       \* the textures that exist
  vertex_array,   \* the vertex array that is bound, "none" for 0
  texture,        \* the texture that is bound
  blend,          \* GL_BLEND
  source,         \* the buffer each vertex array takes its vertices from
  contents,       \* what each vertex buffer holds
  line, next,     \* the text and the character in it that render_text is at
  pen,            \* how far render_text has moved screen_pos_x
  drawn           \* what the last draw call took, the kind "nothing" before the first

programVars == <<m_id, program, current, uniforms, client, active>>
fontVars == <<freetype, todo, m_characters, textures>>
arrayVars == <<vertex_array, source>>
textVars == <<line, next, pen>>
vars == <<programVars, pc, fontVars, arrayVars, texture, blend, contents, textVars, drawn>>

Shader == INSTANCE ShaderProgram

VertexArrays == {"rectangle", "text"}

Cached == {c \in Chars : m_characters[c] # NoTexture}

\* What a vertex buffer can hold: no vertices, the rectangle's, or those of a glyph's quad,
\* made with the pen at x.
Empty == <<>>
Rectangle == <<"rectangle">>
Quad(c, x) == <<c, x>>

\* What a draw call of this kind takes if it is made now.
Taken(kind) ==
  [kind    |-> kind,
   by      |-> {p \in ShaderPrograms : m_id[p] = current},
   from    |-> IF vertex_array = "none" THEN Empty ELSE contents[source[vertex_array]],
   texture |-> texture,
   blend   |-> blend]

TypeOK ==
  /\ Shader!TypeOK
  /\ freetype \subseteq {"library", "face"}
  /\ todo \subseteq Chars
  /\ m_characters \in [Chars -> Textures \union {NoTexture}]
  /\ textures \subseteq Textures
  /\ vertex_array \in VertexArrays \union {"none"}
  /\ texture \in Textures \union {NoTexture}
  /\ blend \in BOOLEAN
  /\ DOMAIN source = VertexArrays /\ DOMAIN contents = VertexArrays
  /\ line \in 1..Len(Texts) + 1 /\ next \in Nat /\ pen \in Int

Init ==
  /\ Shader!Init
  /\ pc = "library"
  /\ freetype = {}
  /\ todo = Chars
  /\ m_characters = [c \in Chars |-> NoTexture]
  /\ textures = {}
  /\ vertex_array = "none"
  /\ texture = NoTexture
  /\ blend = FALSE
  /\ source = [v \in VertexArrays |-> "none"]
  /\ contents = [v \in VertexArrays |-> Empty]
  /\ line = 1 /\ next = 1 /\ pen = 0
  /\ drawn = Taken("nothing")

-----------------------------------------------------------------------------
(***************************************************************************)
(* load_font_glyphs                                                        *)
(***************************************************************************)

\* FT_Init_FreeType and FT_New_Face, which leave behind what they open; then the charmap
\* and the pixel size.
OpenFont ==
  \/ /\ pc = "library"
     /\ freetype' = freetype \union {"library"}
     /\ pc' = "face"
  \/ /\ pc = "face"
     /\ freetype' = freetype \union {"face"}
     /\ pc' = "charmap"
  \/ /\ pc = "charmap"
     /\ pc' = "glyph"
     /\ UNCHANGED freetype

LoadFont ==
  /\ OpenFont
  /\ UNCHANGED <<programVars, todo, m_characters, textures, arrayVars, texture, blend,
                 contents, textVars, drawn>>

\* Any of them fails and returns from there.
LoadFontFails ==
  /\ pc \in {"library", "face", "charmap"}
  /\ pc' = "unwind"
  /\ UNCHANGED <<programVars, fontVars, arrayVars, texture, blend, contents, textVars,
                 drawn>>

\* Fault of the loop: the texture of a failed glyph is cached for the next.
GlyphLoadedTwice(c) ==
  /\ \E t \in Textures :
       /\ textures' = textures \union {t}
       /\ texture' = t
       /\ m_characters' = [m_characters EXCEPT ![c] = t]

\* A texture of its own, filled with the glyph.
GlyphLoaded(c) ==
  /\ \E t \in Textures \ textures :
       /\ textures' = textures \union {t}
       /\ texture' = t
       /\ m_characters' = [m_characters EXCEPT ![c] = t]

\* The body of the loop over the character codes, whose order does not matter; a glyph that
\* does not load is skipped.
LoadGlyph ==
  /\ pc = "glyph"
  /\ \E c \in todo :
       /\ todo' = todo \ {c}
       /\ \/ GlyphLoaded(c)
          \/ UNCHANGED <<textures, texture, m_characters>>
  /\ UNCHANGED <<programVars, pc, freetype, arrayVars, blend, contents, textVars, drawn>>

\* FreeType is closed, and the text's vertex array gets its buffer of one quad.
GlyphsLoaded ==
  /\ pc = "glyph"
  /\ todo = {}
  /\ freetype' = {}
  /\ texture' = NoTexture
  /\ source' = [source EXCEPT !["text"] = "text"]
  /\ vertex_array' = "none"
  /\ pc' = "simple_shader"
  /\ UNCHANGED <<programVars, todo, m_characters, textures, blend, contents, textVars,
                 drawn>>

-----------------------------------------------------------------------------
(***************************************************************************)
(* run                                                                     *)
(***************************************************************************)

\* Fault of run: the status of compile is not checked.
CompileProgramUnchecked(p, then) ==
  /\ pc = p
  /\ Shader!Compile(p)
  /\ pc' = then
  /\ UNCHANGED <<fontVars, arrayVars, texture, blend, contents, textVars, drawn>>

\* Compile a program and go on to the step `then', or return what compile has returned.
CompileProgram(p, then) ==
  /\ pc = p
  /\ Shader!Compile(p)
  /\ pc' = IF client'[p] = "ok" THEN then ELSE "unwind"
  /\ UNCHANGED <<fontVars, arrayVars, texture, blend, contents, textVars, drawn>>

UseForProjection ==
  /\ pc = "projection"
  /\ Shader!Use("text_shader")
  /\ pc' = "set_projection"
  /\ UNCHANGED <<fontVars, arrayVars, texture, blend, contents, textVars, drawn>>

SetProjection ==
  /\ pc = "set_projection"
  /\ Shader!Set("text_shader")
  /\ pc' = "rectangle"
  /\ UNCHANGED <<fontVars, arrayVars, texture, blend, contents, textVars, drawn>>

\* "Config rectangle vao"
ConfigureRectangle ==
  /\ pc = "rectangle"
  /\ source' = [source EXCEPT !["rectangle"] = "rectangle"]
  /\ contents' = [contents EXCEPT !["rectangle"] = Rectangle]
  /\ vertex_array' = "none"
  /\ pc' = "frame"
  /\ UNCHANGED <<programVars, fontVars, texture, blend, textVars, drawn>>

\* The loop goes on to "Rendering", and clears the frame.
UseForRectangle ==
  /\ pc = "frame"
  /\ Shader!Use("simple_shader")
  /\ vertex_array' = "rectangle"
  /\ pc' = "draw_rectangle"
  /\ UNCHANGED <<fontVars, source, texture, blend, contents, textVars, drawn>>

\* glDrawElements, and the texts come next.
DrawRectangle ==
  /\ pc = "draw_rectangle"
  /\ drawn' = Taken("rectangle")
  /\ vertex_array' = "none"
  /\ line' = 1
  /\ pc' = "text"
  /\ UNCHANGED <<programVars, fontVars, source, texture, blend, contents, next, pen>>

-----------------------------------------------------------------------------
(***************************************************************************)
(* render_text                                                             *)
(***************************************************************************)

\* render_text begins.  Its own assertion, that there is a glyph, fails of a font none of whose
\* glyphs has loaded (Cached = {}), since load_font_glyphs ends well however many it skips.  It
\* is left out of release builds like the shaders', and the text then runs through without one.
UseForText ==
  /\ pc = "text"
  /\ line <= Len(Texts)
  /\ blend' = TRUE
  /\ Shader!Use("text_shader")
  /\ pc' = "text_color"
  /\ UNCHANGED <<fontVars, arrayVars, texture, contents, textVars, drawn>>

SetTextColor ==
  /\ pc = "text_color"
  /\ Shader!Set("text_shader")
  /\ vertex_array' = "text"
  /\ next' = 1
  /\ pen' = 0
  /\ pc' = "characters"
  /\ UNCHANGED <<fontVars, source, texture, blend, contents, line, drawn>>

\* The texture is bound, the quad written to the buffer and drawn.
DrawCharacter(c) ==
  /\ c \in Cached
  /\ texture' = m_characters[c]
  /\ contents' = [contents EXCEPT !["text"] = Quad(c, pen)]
  /\ drawn' = [Taken("glyph") EXCEPT !.texture = texture',
                                     !.from = contents'[source[vertex_array]]]
  /\ pen' = pen + Advance[c] \div 64

\* Fault of render_text: a character without a glyph moves the pen.
SkipCharacterWithSpace(c) ==
  /\ c \notin Cached
  /\ pen' = pen + Advance[c] \div 64
  /\ UNCHANGED <<texture, contents, drawn>>

\* A character without a glyph leaves no space.
SkipCharacter(c) ==
  /\ c \notin Cached
  /\ UNCHANGED <<texture, contents, drawn, pen>>

RenderCharacter ==
  /\ pc = "characters"
  /\ next <= Len(Texts[line])
  /\ DrawCharacter(Texts[line][next]) \/ SkipCharacter(Texts[line][next])
  /\ next' = next + 1
  /\ UNCHANGED <<programVars, pc, fontVars, arrayVars, blend, line>>

\* Fault of render_text: blending is left on.
TextRenderedBlending ==
  /\ pc = "characters"
  /\ next > Len(Texts[line])
  /\ vertex_array' = "none"
  /\ texture' = NoTexture
  /\ line' = line + 1
  /\ pc' = "text"
  /\ UNCHANGED <<programVars, fontVars, source, blend, contents, next, pen, drawn>>

TextRendered ==
  /\ pc = "characters"
  /\ next > Len(Texts[line])
  /\ vertex_array' = "none"
  /\ texture' = NoTexture
  /\ blend' = FALSE
  /\ line' = line + 1
  /\ pc' = "text"
  /\ UNCHANGED <<programVars, fontVars, source, contents, next, pen, drawn>>

-----------------------------------------------------------------------------
(***************************************************************************)
(* The end of a frame, and the ways out                                    *)
(***************************************************************************)

\* Fault of the loop: the last text is rendered behind swap_buffers.
SwapBuffersEarly ==
  /\ pc = "text"
  /\ line >= Len(Texts)
  /\ pc' \in {"frame", "destroy_simple", "unwind"}
  /\ UNCHANGED <<programVars, fontVars, arrayVars, texture, blend, contents, textVars,
                 drawn>>

\* swap_buffers ends well or not, and the loop goes on or ends.
SwapBuffers ==
  /\ pc = "text"
  /\ line > Len(Texts)
  /\ pc' \in {"frame", "destroy_simple", "unwind"}
  /\ UNCHANGED <<programVars, fontVars, arrayVars, texture, blend, contents, textVars,
                 drawn>>

\* The end of run, or the destructors when a step has failed, the last object's first.
DestroyProgram ==
  /\ \/ /\ pc = "destroy_simple"
        /\ Shader!Destroy("simple_shader")
        /\ pc' = "destroy_text"
     \/ /\ pc = "destroy_text"
        /\ Shader!Destroy("text_shader")
        /\ pc' = "done"
     \/ /\ pc = "unwind"
        /\ Shader!Destroy("text_shader")
        /\ pc' = "unwind_simple"
     \/ /\ pc = "unwind_simple"
        /\ Shader!Destroy("simple_shader")
        /\ pc' = "done"
  /\ UNCHANGED <<fontVars, arrayVars, texture, blend, contents, textVars, drawn>>

Next ==
  \/ LoadFont
  \/ LoadFontFails
  \/ LoadGlyph
  \/ GlyphsLoaded
  \/ CompileProgram("simple_shader", "text_shader")
  \/ CompileProgram("text_shader", "projection")
  \/ UseForProjection
  \/ SetProjection
  \/ ConfigureRectangle
  \/ UseForRectangle
  \/ DrawRectangle
  \/ UseForText
  \/ SetTextColor
  \/ RenderCharacter
  \/ TextRendered
  \/ SwapBuffers
  \/ DestroyProgram

Spec == Init /\ [][Next]_vars

-----------------------------------------------------------------------------
(***************************************************************************)
(* Properties                                                              *)
(***************************************************************************)

\* Each draw call finds the state of OpenGL it is written for, whatever the glyph, the text
\* or the frame before it has left: the rectangle its own program, its own vertices and
\* no blending; a glyph the text's program, the quad just written, its texture, blended.
DrawsWithItsState ==
  /\ drawn.kind = "rectangle" =>
       /\ drawn.by = {"simple_shader"}
       /\ drawn.from = Rectangle
       /\ ~drawn.blend
  /\ drawn.kind = "glyph" =>
       /\ drawn.by = {"text_shader"}
       /\ drawn.from = contents["text"]
       /\ drawn.texture = m_characters[drawn.from[1]]
       /\ drawn.blend

\* The glyphs of a text stand one after the other: before each character the pen has moved
\* by the advances of the characters before it that have a glyph, and by no more.
PenIsPlaced ==
  pc = "characters" =>
    pen = MapThenSumSet(LAMBDA j : Advance[Texts[line][j]] \div 64,
                        {j \in 1..(next - 1) : Texts[line][j] \in Cached})

\* Each cached character has a texture that exists and is no other character's.
GlyphsHaveTextures ==
  /\ \A c \in Cached : m_characters[c] \in textures
  /\ \A c, d \in Cached : m_characters[c] = m_characters[d] => c = d

\* The assertions of use, is_active and the setters hold at each of their calls, which
\* only a build with RK_ASSERTIONS_ENABLED tests.
ShaderAssertionsHold ==
  /\ pc \in {"projection", "text"} => m_id["text_shader"] # invalid_handle
  /\ pc = "frame" => m_id["simple_shader"] # invalid_handle
  /\ pc \in {"set_projection", "text_color"} =>
       m_id["text_shader"] # invalid_handle /\ current = m_id["text_shader"]

\* run leaves no program behind, and glyphs that were loaded leave nothing of FreeType.
LeavesNothing ==
  /\ pc = "done" => \A n \in Names : program[n] \in {"none", "flagged"}
  /\ pc \notin {"library", "face", "charmap", "glyph", "unwind", "unwind_simple", "done"}
       => freetype = {}

-----------------------------------------------------------------------------
(***************************************************************************)
(* The frames of FrameSpec                                                 *)
(***************************************************************************)

Stage ==
  CASE pc \in {"draw_rectangle", "text", "text_color", "characters"} -> "drawing"
    [] pc = "frame" -> "between"
    [] pc \in {"destroy_simple", "destroy_text", "unwind", "unwind_simple", "done"} -> "over"
    [] OTHER -> "setup"

\* The places of a frame at which something is drawn: <<0, 1>> for the rectangle, and those of
\* the characters that have a glyph.
Places ==
  {<<0, 1>>} \union
  UNION {{<<l, j>> : j \in {k \in DOMAIN Texts[l] : Texts[l][k] \in Cached}} : l \in DOMAIN Texts}

\* The place that run or render_text is at, and what it has not come to yet.
Here ==
  CASE pc = "draw_rectangle"         -> <<0, 1>>
    [] pc \in {"text", "text_color"} -> <<line, 1>>
    [] OTHER                         -> <<line, next>>

Left ==
  IF Stage = "drawing"
  THEN {p \in Places : p[1] > Here[1] \/ (p[1] = Here[1] /\ p[2] >= Here[2])}
  ELSE {}

\* What is seen of the last draw call: a texture is told by the characters it belongs to.
Last ==
  [by    |-> drawn.by,
   from  |-> drawn.from,
   shows |-> IF drawn.kind = "glyph" THEN {c \in Chars : m_characters[c] = drawn.texture} ELSE {},
   blend |-> drawn.blend]

Frames == INSTANCE FrameSpec WITH stage <- Stage, cached <- Cached, left <- Left, last <- Last

\* The frames that are shown are those of FrameSpec: none lacks a glyph or has one twice, out
\* of its place, with another's texture or without its program, whatever glyphs are missing
\* and whatever the calls before have left in OpenGL's state.
DrawsFrames == Frames!Spec

=============================================================================
