--------------------------- MODULE Renderer_proofs ---------------------------
(***************************************************************************)
(* Proofs about Renderer, for every set of characters, textures and names, *)
(* and for all texts.  What it does with its shader programs rests on the  *)
(* proofs about ShaderProgram, which hold of its instance here.            *)
(***************************************************************************)
EXTENDS Renderer, FiniteSetTheorems, WellFoundedInduction, TLAPS

SP == INSTANCE ShaderProgram_proofs

\* The steps of run by what they need.
LoadSteps == {"library", "face", "charmap", "glyph"}
FrameSteps == {"frame", "draw_rectangle", "text", "text_color", "characters"}
ReadySteps == {"projection", "set_projection", "rectangle"} \union FrameSteps
LastSteps == {"destroy_simple", "destroy_text", "unwind", "unwind_simple", "done"}
Steps == LoadSteps \union {"simple_shader", "text_shader"} \union ReadySteps \union LastSteps

\* What each step may rely on of the shader programs, of FreeType and of the text.
Control ==
  /\ pc \in Steps
  /\ pc \in {"text_shader"} \union ReadySteps => client["simple_shader"] = "ok"
  /\ pc \in ReadySteps => client["text_shader"] = "ok"
  /\ pc = "draw_rectangle" => active = "simple_shader"
  /\ pc \in {"set_projection", "text_color", "characters"} => active = "text_shader"
  /\ pc \in {"destroy_text", "done"} => m_id["simple_shader"] = invalid_handle
  /\ pc \in {"unwind_simple", "done"} => m_id["text_shader"] = invalid_handle
  /\ pc \notin LoadSteps \union {"unwind", "unwind_simple", "done"} => freetype = {}
  /\ pc \in {"text_color", "characters"} => line <= Len(Texts)
  /\ pc = "characters" => next >= 1

\* And of the rest of OpenGL's state.
Canvas ==
  /\ pc \in {"simple_shader", "text_shader"} \union ReadySteps => source["text"] = "text"
  /\ pc \in FrameSteps =>
       source["rectangle"] = "rectangle" /\ contents["rectangle"] = Rectangle
  /\ pc = "draw_rectangle" => vertex_array = "rectangle"
  /\ pc = "characters" => vertex_array = "text"
  /\ blend <=> pc \in {"text_color", "characters"}
  /\ pc \in LoadSteps => drawn.kind = "nothing"

IInv ==
  /\ TypeOK
  /\ SP!ShaderInv
  /\ Control
  /\ Canvas
  /\ GlyphsHaveTextures
  /\ DrawsWithItsState

-----------------------------------------------------------------------------
(***************************************************************************)
(* The shader programs                                                     *)
(***************************************************************************)

\* Each action of the module Shader is the one the proofs are about.
LEMMA SameActions ==
  ASSUME NEW p \in ShaderPrograms
  PROVE  /\ Shader!Compile(p) => SP!Compile(p)
         /\ Shader!Use(p) => SP!Use(p)
         /\ Shader!Set(p) => SP!Set(p)
         /\ Shader!Destroy(p) => SP!Destroy(p)
<1>1. Shader!Compile(p) => SP!Compile(p)
  BY DEF Shader!Compile, SP!Compile, Shader!Compiles, SP!Compiles, Shader!CompileFails,
         SP!CompileFails, Shader!CompileWithoutProgram, SP!CompileWithoutProgram
<1>2. Shader!Use(p) => SP!Use(p)
  BY DEF Shader!Use, SP!Use, Shader!Used, SP!Used
<1>3. Shader!Set(p) => SP!Set(p)
  BY DEF Shader!Set, SP!Set
<1>4. Shader!Destroy(p) => SP!Destroy(p)
  BY DEF Shader!Destroy, SP!Destroy, Shader!Deleted, SP!Deleted
<1>5. QED
  BY <1>1, <1>2, <1>3, <1>4

\* What they leave behind, as far as run relies on it.
LEMMA CompileFacts ==
  ASSUME SP!ShaderInv, NEW p \in ShaderPrograms, Shader!Compile(p)
  PROVE  /\ SP!ShaderInv'
         /\ \A q \in ShaderPrograms \ {p} : client'[q] = client[q] /\ m_id'[q] = m_id[q]
<1>1. SP!Compile(p)
  BY SameActions
<1>2. SP!ShaderInv'
  BY <1>1, HandlesAssumption, SP!ShaderStep DEF SP!Next
<1>3. \A q \in ShaderPrograms \ {p} : client'[q] = client[q] /\ m_id'[q] = m_id[q]
  BY <1>1 DEF SP!Compile, SP!Compiles, SP!CompileFails, SP!CompileWithoutProgram,
              SP!ShaderInv, SP!TypeOK
<1>4. QED
  BY <1>2, <1>3

LEMMA UseFacts ==
  ASSUME SP!ShaderInv, NEW p \in ShaderPrograms, Shader!Use(p)
  PROVE  SP!ShaderInv' /\ active' = p /\ UNCHANGED <<m_id, client>>
<1>1. SP!Use(p)
  BY SameActions
<1>2. SP!ShaderInv'
  BY <1>1, HandlesAssumption, SP!ShaderStep DEF SP!Next
<1>3. QED
  BY <1>1, <1>2 DEF SP!Use

LEMMA SetFacts ==
  ASSUME SP!ShaderInv, NEW p \in ShaderPrograms, Shader!Set(p)
  PROVE  SP!ShaderInv' /\ UNCHANGED <<m_id, client, active>>
<1>1. SP!Set(p)
  BY SameActions
<1>2. SP!ShaderInv'
  BY <1>1, HandlesAssumption, SP!ShaderStep DEF SP!Next
<1>3. QED
  BY <1>1, <1>2 DEF SP!Set

LEMMA DestroyFacts ==
  ASSUME SP!ShaderInv, NEW p \in ShaderPrograms, Shader!Destroy(p)
  PROVE  /\ SP!ShaderInv'
         /\ m_id'[p] = invalid_handle
         /\ \A q \in ShaderPrograms \ {p} : m_id'[q] = m_id[q]
<1>1. SP!Destroy(p)
  BY SameActions
<1>2. SP!ShaderInv'
  BY <1>1, HandlesAssumption, SP!ShaderStep DEF SP!Next
<1>3. QED
  BY <1>1, <1>2 DEF SP!Destroy, SP!ShaderInv, SP!TypeOK

\* The program in use is the one of the object used last if its compile has linked it, and
\* of no other.
LEMMA OwnProgram ==
  ASSUME SP!ShaderInv, NEW p \in ShaderPrograms, active = p, client[p] = "ok"
  PROVE  {q \in ShaderPrograms : m_id[q] = current} = {p}
<1>1. p # NoObject
  BY HandlesAssumption
<1>2. m_id[p] = current /\ m_id[p] # invalid_handle
  BY <1>1 DEF SP!ShaderInv, SP!SetterAsserted, SP!ActiveCompiled, SP!OkMeansLinked
<1>3. \A q \in ShaderPrograms \ {p} : m_id[q] # m_id[p]
  BY <1>2 DEF SP!ShaderInv, SP!HandlesOwned
<1>4. QED
  BY <1>2, <1>3

LEMMA SameTypes ==
  Shader!TypeOK <=> SP!TypeOK
BY DEF Shader!TypeOK, SP!TypeOK

-----------------------------------------------------------------------------

LEMMA InitIInv == Init => IInv
<1> SUFFICES ASSUME Init
             PROVE  IInv
  OBVIOUS
<1>1. SP!Init
  BY DEF Init, Shader!Init, SP!Init
<1>2. SP!ShaderInv
  BY <1>1, HandlesAssumption, SP!ShaderInit
<1>3. TypeOK
  <2>1. Shader!TypeOK
    BY <1>2, SameTypes DEF SP!ShaderInv
  <2>2. Len(Texts) \in Nat
    BY TextsAssumption
  <2>3. line \in 1..Len(Texts) + 1 /\ next \in Nat /\ pen \in Int
    BY <2>2 DEF Init
  <2>4. m_characters \in [Chars -> Textures \union {NoTexture}]
    BY DEF Init
  <2>5. QED
    BY <2>1, <2>3, <2>4 DEF Init, TypeOK
<1>4. Control
  BY DEF Init, Control, Steps, LoadSteps, ReadySteps, FrameSteps
<1>5. drawn.kind = "nothing"
  BY DEF Init, Taken
<1>6. Canvas /\ DrawsWithItsState
  BY <1>5 DEF Init, Canvas, DrawsWithItsState, ReadySteps, FrameSteps
<1>7. GlyphsHaveTextures
  BY DEF Init, GlyphsHaveTextures, Cached
<1>8. QED
  BY <1>2, <1>3, <1>4, <1>6, <1>7 DEF IInv

-----------------------------------------------------------------------------
(***************************************************************************)
(* The steps                                                               *)
(***************************************************************************)

LEMMA ProgramsKept ==
  ASSUME SP!ShaderInv, UNCHANGED programVars
  PROVE  SP!ShaderInv'
<1>1. UNCHANGED SP!vars
  BY DEF programVars, SP!vars
<1>2. QED
  BY <1>1, HandlesAssumption, SP!ShaderStep

\* A draw call that has been made keeps what it took until the quad or the glyphs change.
LEMMA DrawnKept ==
  ASSUME DrawsWithItsState, UNCHANGED <<drawn, m_characters>>,
         contents'["text"] = contents["text"]
  PROVE  DrawsWithItsState'
BY DEF DrawsWithItsState

LEMMA GlyphsKept ==
  ASSUME GlyphsHaveTextures, UNCHANGED <<m_characters, textures>>
  PROVE  GlyphsHaveTextures'
BY DEF GlyphsHaveTextures, Cached

\* What changes none of the types but that of the programs.
LEMMA TypesKept ==
  ASSUME TypeOK, SP!ShaderInv', UNCHANGED <<fontVars, arrayVars, texture, blend, contents, textVars>>
  PROVE  TypeOK'
<1>1. Shader!TypeOK'
  BY SameTypes DEF SP!ShaderInv, Shader!TypeOK, SP!TypeOK
<1>2. QED
  BY <1>1 DEF TypeOK, fontVars, arrayVars, textVars

LEMMA LoadFontStep ==
  ASSUME IInv, LoadFont
  PROVE  IInv'
<1> USE DEF IInv
<1>1. SP!ShaderInv'
  BY ProgramsKept DEF LoadFont, OpenFont
<1>2. TypeOK'
  <2>1. Shader!TypeOK'
    BY <1>1, SameTypes DEF SP!ShaderInv, Shader!TypeOK, SP!TypeOK
  <2>2. QED
    BY <2>1 DEF LoadFont, OpenFont, TypeOK, VertexArrays, programVars, fontVars, arrayVars, textVars
<1>3. Control'
  BY <1>2 DEF LoadFont, OpenFont, Control, Steps, LoadSteps, ReadySteps, FrameSteps, LastSteps, programVars, fontVars, arrayVars, textVars
<1>4. Canvas'
  BY <1>2 DEF LoadFont, OpenFont, Canvas, Steps, LoadSteps, ReadySteps, FrameSteps, LastSteps, programVars, fontVars, arrayVars, textVars
<1>5. GlyphsHaveTextures'
  BY GlyphsKept DEF LoadFont, OpenFont, fontVars
<1>6. DrawsWithItsState'
  BY DrawnKept DEF LoadFont, OpenFont, fontVars
<1>7. QED
  BY <1>1, <1>2, <1>3, <1>4, <1>5, <1>6

LEMMA LoadFontFailsStep ==
  ASSUME IInv, LoadFontFails
  PROVE  IInv'
<1> USE DEF IInv
<1>1. SP!ShaderInv'
  BY ProgramsKept DEF LoadFontFails
<1>2. TypeOK'
  BY <1>1, TypesKept DEF LoadFontFails
<1>3. Control'
  BY <1>2 DEF LoadFontFails, Control, Steps, LoadSteps, ReadySteps, FrameSteps, LastSteps, programVars, fontVars, arrayVars, textVars
<1>4. Canvas'
  BY <1>2 DEF LoadFontFails, Canvas, Steps, LoadSteps, ReadySteps, FrameSteps, LastSteps, programVars, fontVars, arrayVars, textVars
<1>5. GlyphsHaveTextures'
  BY GlyphsKept DEF LoadFontFails, fontVars
<1>6. DrawsWithItsState'
  BY DrawnKept DEF LoadFontFails, fontVars
<1>7. QED
  BY <1>1, <1>2, <1>3, <1>4, <1>5, <1>6

\* A glyph that is loaded gets a texture that no other has.
LEMMA LoadGlyphStep ==
  ASSUME IInv, LoadGlyph
  PROVE  IInv'
<1> USE DEF IInv
<1>1. SP!ShaderInv'
  BY ProgramsKept DEF LoadGlyph, GlyphLoaded
<1>2. TypeOK'
  <2>1. Shader!TypeOK'
    BY <1>1, SameTypes DEF SP!ShaderInv, Shader!TypeOK, SP!TypeOK
  <2>2. m_characters' \in [Chars -> Textures \union {NoTexture}] /\ textures' \subseteq Textures
        /\ texture' \in Textures \union {NoTexture} /\ todo' \subseteq Chars
    BY DEF LoadGlyph, GlyphLoaded, TypeOK
  <2>3. QED
    BY <2>1, <2>2 DEF LoadGlyph, TypeOK, arrayVars, textVars
<1>3. Control'
  BY <1>2 DEF LoadGlyph, GlyphLoaded, Control, Steps, LoadSteps, ReadySteps, FrameSteps, LastSteps, programVars, fontVars, arrayVars, textVars
<1>4. Canvas'
  BY <1>2 DEF LoadGlyph, GlyphLoaded, Canvas, Steps, LoadSteps, ReadySteps, FrameSteps, LastSteps, programVars, fontVars, arrayVars, textVars
<1>5. GlyphsHaveTextures'
  <2>1. CASE UNCHANGED <<textures, m_characters>>
    BY <2>1, GlyphsKept
  <2>2. ASSUME NEW c \in Chars, GlyphLoaded(c)
        PROVE  GlyphsHaveTextures'
    <3>1. PICK t \in Textures \ textures :
            textures' = textures \union {t} /\ m_characters' = [m_characters EXCEPT ![c] = t]
      BY <2>2 DEF GlyphLoaded
    <3>2. \A d \in Cached : m_characters[d] \in textures
      BY DEF GlyphsHaveTextures
    <3>3. \A d \in Cached' : d # c => d \in Cached /\ m_characters'[d] = m_characters[d]
      BY <3>1 DEF Cached, TypeOK
    <3>4. m_characters'[c] = t
      BY <3>1 DEF TypeOK
    <3>5. QED
      BY <3>1, <3>2, <3>3, <3>4 DEF GlyphsHaveTextures
  <2>3. QED
    BY <2>1, <2>2 DEF LoadGlyph, TypeOK
<1>6. DrawsWithItsState'
  BY DEF LoadGlyph, Canvas, LoadSteps, DrawsWithItsState
<1>7. QED
  BY <1>1, <1>2, <1>3, <1>4, <1>5, <1>6

LEMMA GlyphsLoadedStep ==
  ASSUME IInv, GlyphsLoaded
  PROVE  IInv'
<1> USE DEF IInv
<1>1. SP!ShaderInv'
  BY ProgramsKept DEF GlyphsLoaded
<1>2. TypeOK'
  <2>1. Shader!TypeOK'
    BY <1>1, SameTypes DEF SP!ShaderInv, Shader!TypeOK, SP!TypeOK
  <2>2. QED
    BY <2>1 DEF GlyphsLoaded, TypeOK, VertexArrays, programVars, fontVars, arrayVars, textVars
<1>3. Control'
  BY <1>2 DEF GlyphsLoaded, Control, Steps, LoadSteps, ReadySteps, FrameSteps, LastSteps, programVars, fontVars, arrayVars, textVars
<1>4. Canvas'
  <2>1. source'["text"] = "text"
    BY DEF GlyphsLoaded, TypeOK, VertexArrays
  <2>2. pc = "glyph" /\ pc' = "simple_shader" /\ UNCHANGED blend
    BY DEF GlyphsLoaded
  <2>3. QED
    BY <2>1, <2>2 DEF Canvas, Steps, LoadSteps, ReadySteps, FrameSteps, LastSteps
<1>5. GlyphsHaveTextures'
  BY GlyphsKept DEF GlyphsLoaded, fontVars
<1>6. DrawsWithItsState'
  BY DrawnKept DEF GlyphsLoaded, fontVars
<1>7. QED
  BY <1>1, <1>2, <1>3, <1>4, <1>5, <1>6

LEMMA CompileSimpleStep ==
  ASSUME IInv, CompileProgram("simple_shader", "text_shader")
  PROVE  IInv'
<1> USE DEF IInv
<1>0. /\ pc = "simple_shader" /\ pc' \in {"text_shader", "unwind"}
      /\ pc' = "text_shader" => client'["simple_shader"] = "ok"
      /\ SP!ShaderInv' /\ client'["text_shader"] = client["text_shader"]
      /\ UNCHANGED <<fontVars, arrayVars, texture, blend, contents, textVars, drawn>>
  BY CompileFacts DEF CompileProgram, ShaderPrograms
<1>1. SP!ShaderInv'
  BY <1>0
<1>2. TypeOK'
  BY <1>0, TypesKept
<1>3. Control'
  BY <1>0 DEF Control, Steps, LoadSteps, ReadySteps, FrameSteps, LastSteps, fontVars, textVars
<1>4. Canvas'
  BY <1>0 DEF Canvas, Steps, LoadSteps, ReadySteps, FrameSteps, LastSteps, arrayVars
<1>5. GlyphsHaveTextures'
  BY <1>0, GlyphsKept DEF fontVars
<1>6. DrawsWithItsState'
  BY <1>0, DrawnKept DEF fontVars
<1>7. QED
  BY <1>1, <1>2, <1>3, <1>4, <1>5, <1>6

LEMMA CompileTextStep ==
  ASSUME IInv, CompileProgram("text_shader", "projection")
  PROVE  IInv'
<1> USE DEF IInv
<1>0. /\ pc = "text_shader" /\ pc' \in {"projection", "unwind"}
      /\ pc' = "projection" => client'["text_shader"] = "ok"
      /\ SP!ShaderInv' /\ client'["simple_shader"] = client["simple_shader"]
      /\ UNCHANGED <<fontVars, arrayVars, texture, blend, contents, textVars, drawn>>
  BY CompileFacts DEF CompileProgram, ShaderPrograms
<1>1. SP!ShaderInv'
  BY <1>0
<1>2. TypeOK'
  BY <1>0, TypesKept
<1>3. Control'
  BY <1>0 DEF Control, Steps, LoadSteps, ReadySteps, FrameSteps, LastSteps, fontVars, textVars
<1>4. Canvas'
  BY <1>0 DEF Canvas, Steps, LoadSteps, ReadySteps, FrameSteps, LastSteps, arrayVars
<1>5. GlyphsHaveTextures'
  BY <1>0, GlyphsKept DEF fontVars
<1>6. DrawsWithItsState'
  BY <1>0, DrawnKept DEF fontVars
<1>7. QED
  BY <1>1, <1>2, <1>3, <1>4, <1>5, <1>6

LEMMA UseForProjectionStep ==
  ASSUME IInv, UseForProjection
  PROVE  IInv'
<1> USE DEF IInv
<1>0. /\ pc = "projection" /\ pc' = "set_projection"
      /\ SP!ShaderInv' /\ active' = "text_shader" /\ UNCHANGED <<m_id, client>>
      /\ UNCHANGED <<fontVars, arrayVars, texture, blend, contents, textVars, drawn>>
  BY UseFacts DEF UseForProjection, ShaderPrograms
<1>1. SP!ShaderInv'
  BY <1>0
<1>2. TypeOK'
  BY <1>0, TypesKept
<1>3. Control'
  BY <1>0 DEF Control, Steps, LoadSteps, ReadySteps, FrameSteps, LastSteps, fontVars, textVars
<1>4. Canvas'
  BY <1>0 DEF Canvas, Steps, LoadSteps, ReadySteps, FrameSteps, LastSteps, arrayVars
<1>5. GlyphsHaveTextures'
  BY <1>0, GlyphsKept DEF fontVars
<1>6. DrawsWithItsState'
  BY <1>0, DrawnKept DEF fontVars
<1>7. QED
  BY <1>1, <1>2, <1>3, <1>4, <1>5, <1>6

LEMMA SetProjectionStep ==
  ASSUME IInv, SetProjection
  PROVE  IInv'
<1> USE DEF IInv
<1>0. /\ pc = "set_projection" /\ pc' = "rectangle"
      /\ SP!ShaderInv' /\ UNCHANGED <<m_id, client, active>>
      /\ UNCHANGED <<fontVars, arrayVars, texture, blend, contents, textVars, drawn>>
  BY SetFacts DEF SetProjection, ShaderPrograms
<1>1. SP!ShaderInv'
  BY <1>0
<1>2. TypeOK'
  BY <1>0, TypesKept
<1>3. Control'
  BY <1>0 DEF Control, Steps, LoadSteps, ReadySteps, FrameSteps, LastSteps, fontVars, textVars
<1>4. Canvas'
  BY <1>0 DEF Canvas, Steps, LoadSteps, ReadySteps, FrameSteps, LastSteps, arrayVars
<1>5. GlyphsHaveTextures'
  BY <1>0, GlyphsKept DEF fontVars
<1>6. DrawsWithItsState'
  BY <1>0, DrawnKept DEF fontVars
<1>7. QED
  BY <1>1, <1>2, <1>3, <1>4, <1>5, <1>6

LEMMA ConfigureRectangleStep ==
  ASSUME IInv, ConfigureRectangle
  PROVE  IInv'
<1> USE DEF IInv
<1>1. SP!ShaderInv'
  BY ProgramsKept DEF ConfigureRectangle
<1>2. TypeOK'
  <2>1. Shader!TypeOK'
    BY <1>1, SameTypes DEF SP!ShaderInv, Shader!TypeOK, SP!TypeOK
  <2>2. QED
    BY <2>1 DEF ConfigureRectangle, TypeOK, VertexArrays, programVars, fontVars, arrayVars, textVars
<1>3. Control'
  BY <1>2 DEF ConfigureRectangle, Control, Steps, LoadSteps, ReadySteps, FrameSteps, LastSteps, programVars, fontVars, arrayVars, textVars
<1>4. Canvas'
  <2>1. source'["rectangle"] = "rectangle" /\ source'["text"] = source["text"]
        /\ contents'["rectangle"] = Rectangle
    BY DEF ConfigureRectangle, TypeOK, VertexArrays
  <2>2. pc = "rectangle" /\ pc' = "frame" /\ UNCHANGED blend
    BY DEF ConfigureRectangle
  <2>3. QED
    BY <2>1, <2>2 DEF Canvas, Steps, LoadSteps, ReadySteps, FrameSteps, LastSteps
<1>5. GlyphsHaveTextures'
  BY GlyphsKept DEF ConfigureRectangle, fontVars
<1>6. DrawsWithItsState'
  <2>1. contents'["text"] = contents["text"]
    BY DEF ConfigureRectangle, TypeOK, VertexArrays
  <2>2. QED
    BY <2>1, DrawnKept DEF ConfigureRectangle, fontVars
<1>7. QED
  BY <1>1, <1>2, <1>3, <1>4, <1>5, <1>6

LEMMA UseForRectangleStep ==
  ASSUME IInv, UseForRectangle
  PROVE  IInv'
<1> USE DEF IInv
<1>0. /\ pc = "frame" /\ pc' = "draw_rectangle"
      /\ SP!ShaderInv' /\ active' = "simple_shader" /\ UNCHANGED <<m_id, client>>
      /\ vertex_array' = "rectangle"
      /\ UNCHANGED <<fontVars, source, texture, blend, contents, textVars, drawn>>
  BY UseFacts DEF UseForRectangle, ShaderPrograms
<1>1. SP!ShaderInv'
  BY <1>0
<1>2. TypeOK'
  <2>1. Shader!TypeOK'
    BY <1>1, SameTypes DEF SP!ShaderInv, Shader!TypeOK, SP!TypeOK
  <2>2. QED
    BY <1>0, <2>1 DEF TypeOK, VertexArrays, programVars, fontVars, arrayVars, textVars
<1>3. Control'
  BY <1>0 DEF Control, Steps, LoadSteps, ReadySteps, FrameSteps, LastSteps, fontVars, textVars
<1>4. Canvas'
  BY <1>0 DEF Canvas, Steps, LoadSteps, ReadySteps, FrameSteps, LastSteps
<1>5. GlyphsHaveTextures'
  BY <1>0, GlyphsKept DEF fontVars
<1>6. DrawsWithItsState'
  BY <1>0, DrawnKept DEF fontVars
<1>7. QED
  BY <1>1, <1>2, <1>3, <1>4, <1>5, <1>6

\* The rectangle is drawn right after its program and its vertex array are taken.
LEMMA DrawRectangleStep ==
  ASSUME IInv, DrawRectangle
  PROVE  IInv'
<1> USE DEF IInv
<1>1. SP!ShaderInv'
  BY ProgramsKept DEF DrawRectangle
<1>2. TypeOK'
  <2>1. Shader!TypeOK'
    BY <1>1, SameTypes DEF SP!ShaderInv, Shader!TypeOK, SP!TypeOK
  <2>2. line' \in 1..Len(Texts) + 1
    BY TextsAssumption DEF DrawRectangle
  <2>3. QED
    BY <2>1, <2>2 DEF DrawRectangle, TypeOK, fontVars
<1>3. Control'
  BY <1>2 DEF DrawRectangle, Control, Steps, LoadSteps, ReadySteps, FrameSteps, LastSteps, programVars, fontVars, arrayVars, textVars
<1>4. Canvas'
  <2>1. drawn'.kind = "rectangle" /\ pc = "draw_rectangle" /\ pc' = "text"
        /\ UNCHANGED <<source, blend, contents>>
    BY DEF DrawRectangle, Taken
  <2>2. QED
    BY <2>1 DEF Canvas, Steps, LoadSteps, ReadySteps, FrameSteps, LastSteps
<1>5. GlyphsHaveTextures'
  BY GlyphsKept DEF DrawRectangle, fontVars
<1>6. DrawsWithItsState'
  <2>1. pc = "draw_rectangle" /\ drawn' = Taken("rectangle")
    BY DEF DrawRectangle
  <2>2. /\ active = "simple_shader" /\ "simple_shader" \in ShaderPrograms
        /\ client["simple_shader"] = "ok"
    BY <2>1 DEF Control, ReadySteps, FrameSteps, ShaderPrograms
  <2>3. drawn'.by = {"simple_shader"}
    BY <2>1, <2>2, OwnProgram DEF Taken
  <2>4. drawn'.from = Rectangle /\ ~drawn'.blend /\ drawn'.kind = "rectangle"
    BY <2>1 DEF Taken, Canvas, FrameSteps
  <2>5. QED
    BY <2>3, <2>4 DEF DrawsWithItsState
<1>7. QED
  BY <1>1, <1>2, <1>3, <1>4, <1>5, <1>6

LEMMA UseForTextStep ==
  ASSUME IInv, UseForText
  PROVE  IInv'
<1> USE DEF IInv
<1>0. /\ pc = "text" /\ pc' = "text_color" /\ line <= Len(Texts) /\ blend' = TRUE
      /\ SP!ShaderInv' /\ active' = "text_shader" /\ UNCHANGED <<m_id, client>>
      /\ UNCHANGED <<fontVars, arrayVars, texture, contents, textVars, drawn>>
  BY UseFacts DEF UseForText, ShaderPrograms
<1>1. SP!ShaderInv'
  BY <1>0
<1>2. TypeOK'
  <2>1. Shader!TypeOK'
    BY <1>1, SameTypes DEF SP!ShaderInv, Shader!TypeOK, SP!TypeOK
  <2>2. QED
    BY <1>0, <2>1 DEF TypeOK, VertexArrays, programVars, fontVars, arrayVars, textVars
<1>3. Control'
  BY <1>0 DEF Control, Steps, LoadSteps, ReadySteps, FrameSteps, LastSteps, fontVars, textVars
<1>4. Canvas'
  BY <1>0 DEF Canvas, Steps, LoadSteps, ReadySteps, FrameSteps, LastSteps, arrayVars
<1>5. GlyphsHaveTextures'
  BY <1>0, GlyphsKept DEF fontVars
<1>6. DrawsWithItsState'
  BY <1>0, DrawnKept DEF fontVars
<1>7. QED
  BY <1>1, <1>2, <1>3, <1>4, <1>5, <1>6

LEMMA SetTextColorStep ==
  ASSUME IInv, SetTextColor
  PROVE  IInv'
<1> USE DEF IInv
<1>0. /\ pc = "text_color" /\ pc' = "characters"
      /\ vertex_array' = "text" /\ next' = 1 /\ pen' = 0
      /\ SP!ShaderInv' /\ UNCHANGED <<m_id, client, active>>
      /\ UNCHANGED <<fontVars, source, texture, blend, contents, line, drawn>>
  BY SetFacts DEF SetTextColor, ShaderPrograms
<1>1. SP!ShaderInv'
  BY <1>0
<1>2. TypeOK'
  <2>1. Shader!TypeOK'
    BY <1>1, SameTypes DEF SP!ShaderInv, Shader!TypeOK, SP!TypeOK
  <2>2. QED
    BY <1>0, <2>1 DEF TypeOK, VertexArrays, programVars, fontVars, arrayVars, textVars
<1>3. Control'
  BY <1>0 DEF Control, Steps, LoadSteps, ReadySteps, FrameSteps, LastSteps, fontVars
<1>4. Canvas'
  BY <1>0 DEF Canvas, Steps, LoadSteps, ReadySteps, FrameSteps, LastSteps
<1>5. GlyphsHaveTextures'
  BY <1>0, GlyphsKept DEF fontVars
<1>6. DrawsWithItsState'
  BY <1>0, DrawnKept DEF fontVars
<1>7. QED
  BY <1>1, <1>2, <1>3, <1>4, <1>5, <1>6

\* A glyph is drawn with its own texture and the quad just written; the text's program and
\* vertex array are still in place from before the first.
LEMMA RenderCharacterStep ==
  ASSUME IInv, RenderCharacter
  PROVE  IInv'
<1> USE DEF IInv
<1> DEFINE c == Texts[line][next]
<1>0. /\ pc = "characters" /\ next <= Len(Texts[line]) /\ next' = next + 1
      /\ UNCHANGED <<programVars, pc, fontVars, arrayVars, blend, line>>
      /\ DrawCharacter(c) \/ SkipCharacter(c)
  BY DEF RenderCharacter
<1>8. /\ c \in Chars /\ Advance[c] \div 64 \in Int /\ next \in Nat /\ next >= 1 /\ pen \in Int
      /\ DOMAIN contents = VertexArrays
  <2>1. line \in 1..Len(Texts) /\ next \in Nat /\ next >= 1 /\ pen \in Int
    BY <1>0, TextsAssumption DEF TypeOK, Control
  <2>2. Texts[line] \in Seq(Chars)
    BY <2>1, TextsAssumption
  <2>3. c \in Chars
    BY <1>0, <2>1, <2>2
  <2>4. Advance[c] \in Int
    BY <2>3, TextsAssumption
  <2>5. Advance[c] \div 64 \in Int
    BY <2>4
  <2>6. QED
    BY <2>1, <2>3, <2>5 DEF TypeOK
<1>9. vertex_array = "text" /\ source["text"] = "text" /\ blend = TRUE /\ active = "text_shader"
  BY <1>0 DEF Canvas, Control, ReadySteps, FrameSteps, TypeOK
<1> HIDE DEF c
<1>1. SP!ShaderInv'
  BY <1>0, ProgramsKept
<1>2. TypeOK'
  <2>1. Shader!TypeOK'
    BY <1>1, SameTypes DEF SP!ShaderInv, Shader!TypeOK, SP!TypeOK
  <2>2. next' \in Nat
    BY <1>0, <1>8
  <2>3. pen' \in Int /\ texture' \in Textures \union {NoTexture} /\ DOMAIN contents' = VertexArrays
    BY <1>0, <1>8 DEF DrawCharacter, SkipCharacter, TypeOK
  <2>4. QED
    BY <1>0, <2>1, <2>2, <2>3 DEF TypeOK, fontVars, arrayVars
<1>3. Control'
  <2>1. next' >= 1
    BY <1>0, <1>8
  <2>2. QED
    BY <1>0, <2>1 DEF Control, Steps, LoadSteps, ReadySteps, FrameSteps, LastSteps, programVars, fontVars
<1>4. Canvas'
  <2>1. contents'["rectangle"] = contents["rectangle"]
    BY <1>0, <1>8 DEF DrawCharacter, SkipCharacter, VertexArrays
  <2>2. QED
    BY <1>0, <2>1 DEF Canvas, Steps, LoadSteps, ReadySteps, FrameSteps, LastSteps, arrayVars
<1>5. GlyphsHaveTextures'
  BY <1>0, GlyphsKept DEF fontVars
<1>6. DrawsWithItsState'
  <2>1. CASE SkipCharacter(c)
    BY <1>0, <2>1, DrawnKept DEF SkipCharacter, fontVars
  <2>2. CASE DrawCharacter(c)
    <3>1. contents'["text"] = Quad(c, pen) /\ texture' = m_characters[c]
      BY <1>8, <2>2 DEF DrawCharacter, VertexArrays
    <3>2. drawn' = [Taken("glyph") EXCEPT !.texture = texture', !.from = contents'["text"]]
      BY <1>9, <2>2 DEF DrawCharacter
    <3>3. drawn' = [kind |-> "glyph", by |-> {p \in ShaderPrograms : m_id[p] = current},
                    from |-> contents'["text"], texture |-> texture', blend |-> TRUE]
      BY <1>9, <3>2 DEF Taken
    <3>4. {p \in ShaderPrograms : m_id[p] = current} = {"text_shader"}
      <4>1. client["text_shader"] = "ok"
        BY <1>0 DEF Control, ReadySteps, FrameSteps
      <4>2. QED
        BY <1>9, <4>1, OwnProgram DEF ShaderPrograms
    <3>5. m_characters'[contents'["text"][1]] = texture'
      BY <1>0, <3>1 DEF Quad, fontVars
    <3>6. QED
      BY <3>3, <3>4, <3>5 DEF DrawsWithItsState
  <2>3. QED
    BY <1>0, <2>1, <2>2
<1>7. QED
  BY <1>1, <1>2, <1>3, <1>4, <1>5, <1>6

LEMMA TextRenderedStep ==
  ASSUME IInv, TextRendered
  PROVE  IInv'
<1> USE DEF IInv
<1>1. SP!ShaderInv'
  BY ProgramsKept DEF TextRendered
<1>2. TypeOK'
  <2>1. Shader!TypeOK'
    BY <1>1, SameTypes DEF SP!ShaderInv, Shader!TypeOK, SP!TypeOK
  <2>2. line' \in 1..Len(Texts) + 1
    BY TextsAssumption DEF TextRendered, TypeOK, Control
  <2>3. QED
    BY <2>1, <2>2 DEF TextRendered, TypeOK, fontVars
<1>3. Control'
  BY <1>2 DEF TextRendered, Control, Steps, LoadSteps, ReadySteps, FrameSteps, LastSteps, programVars, fontVars, arrayVars, textVars
<1>4. Canvas'
  BY <1>2 DEF TextRendered, Canvas, Steps, LoadSteps, ReadySteps, FrameSteps, LastSteps, programVars, fontVars, arrayVars, textVars
<1>5. GlyphsHaveTextures'
  BY GlyphsKept DEF TextRendered, fontVars
<1>6. DrawsWithItsState'
  BY DrawnKept DEF TextRendered, fontVars
<1>7. QED
  BY <1>1, <1>2, <1>3, <1>4, <1>5, <1>6

LEMMA SwapBuffersStep ==
  ASSUME IInv, SwapBuffers
  PROVE  IInv'
<1> USE DEF IInv
<1>1. SP!ShaderInv'
  BY ProgramsKept DEF SwapBuffers
<1>2. TypeOK'
  BY <1>1, TypesKept DEF SwapBuffers
<1>3. Control'
  BY <1>2 DEF SwapBuffers, Control, Steps, LoadSteps, ReadySteps, FrameSteps, LastSteps, programVars, fontVars, arrayVars, textVars
<1>4. Canvas'
  BY <1>2 DEF SwapBuffers, Canvas, Steps, LoadSteps, ReadySteps, FrameSteps, LastSteps, programVars, fontVars, arrayVars, textVars
<1>5. GlyphsHaveTextures'
  BY GlyphsKept DEF SwapBuffers, fontVars
<1>6. DrawsWithItsState'
  BY DrawnKept DEF SwapBuffers, fontVars
<1>7. QED
  BY <1>1, <1>2, <1>3, <1>4, <1>5, <1>6

\* Each program is destroyed once, in either order.
LEMMA DestroyProgramStep ==
  ASSUME IInv, DestroyProgram
  PROVE  IInv'
<1> USE DEF IInv
<1>0. /\ SP!ShaderInv'
      /\ \/ pc = "destroy_simple" /\ pc' = "destroy_text" /\ m_id'["simple_shader"] = invalid_handle
         \/ pc = "destroy_text" /\ pc' = "done" /\ m_id'["text_shader"] = invalid_handle
            /\ m_id'["simple_shader"] = m_id["simple_shader"]
         \/ pc = "unwind" /\ pc' = "unwind_simple" /\ m_id'["text_shader"] = invalid_handle
         \/ pc = "unwind_simple" /\ pc' = "done" /\ m_id'["simple_shader"] = invalid_handle
            /\ m_id'["text_shader"] = m_id["text_shader"]
      /\ UNCHANGED <<fontVars, arrayVars, texture, blend, contents, textVars, drawn>>
  BY DestroyFacts DEF DestroyProgram, ShaderPrograms
<1>1. SP!ShaderInv'
  BY <1>0
<1>2. TypeOK'
  BY <1>0, TypesKept
<1>3. Control'
  BY <1>0 DEF Control, Steps, LoadSteps, ReadySteps, FrameSteps, LastSteps, fontVars, textVars
<1>4. Canvas'
  BY <1>0 DEF Canvas, Steps, LoadSteps, ReadySteps, FrameSteps, LastSteps, arrayVars
<1>5. GlyphsHaveTextures'
  BY <1>0, GlyphsKept DEF fontVars
<1>6. DrawsWithItsState'
  BY <1>0, DrawnKept DEF fontVars
<1>7. QED
  BY <1>1, <1>2, <1>3, <1>4, <1>5, <1>6

LEMMA NextIInv == IInv /\ [Next]_vars => IInv'
<1> SUFFICES ASSUME IInv, [Next]_vars
             PROVE  IInv'
  OBVIOUS
<1>1. CASE Next
  BY <1>1, LoadFontStep, LoadFontFailsStep, LoadGlyphStep, GlyphsLoadedStep,
     CompileSimpleStep, CompileTextStep, UseForProjectionStep, SetProjectionStep,
     ConfigureRectangleStep, UseForRectangleStep, DrawRectangleStep, UseForTextStep,
     SetTextColorStep, RenderCharacterStep, TextRenderedStep, SwapBuffersStep,
     DestroyProgramStep DEF Next
<1>2. CASE UNCHANGED vars
  <2>1. UNCHANGED <<programVars, pc, fontVars, arrayVars, texture, blend, contents, textVars,
                    drawn>>
    BY <1>2 DEF vars
  <2>2. SP!ShaderInv'
    BY <2>1, ProgramsKept DEF IInv
  <2>3. TypeOK'
    BY <2>1, <2>2, TypesKept DEF IInv
  <2>4. Control' /\ Canvas'
    BY <2>1 DEF IInv, Control, Canvas, programVars, fontVars, arrayVars, textVars
  <2>5. GlyphsHaveTextures' /\ DrawsWithItsState'
    BY <2>1, GlyphsKept, DrawnKept DEF IInv, fontVars
  <2>6. QED
    BY <2>2, <2>3, <2>4, <2>5 DEF IInv
<1>3. QED
  BY <1>1, <1>2

LEMMA SpecIInv == Spec => []IInv
BY InitIInv, NextIInv, PTL DEF Spec

\* What run keeps has its type, for all texts and glyphs.
THEOREM RendererTypeCorrect == Spec => []TypeOK
BY SpecIInv, PTL DEF IInv

\* Whatever texts and glyphs a frame has, and whatever the frames before it were, each draw
\* call is made with the program, the vertices, the texture and the blending it is for.
THEOREM DrawsAreRight == Spec => []DrawsWithItsState
BY SpecIInv, PTL DEF IInv

\* No two characters share a texture, and none has one that does not exist.
THEOREM GlyphsAreTheirOwn == Spec => []GlyphsHaveTextures
BY SpecIInv, PTL DEF IInv

\* The assertions that guard the shader programs hold at each of run's and render_text's
\* calls, so leaving them out of a build changes nothing.
THEOREM ShaderAssertionsAlwaysHold == Spec => []ShaderAssertionsHold
<1>1. IInv => ShaderAssertionsHold
  <2> SUFFICES ASSUME IInv
               PROVE  ShaderAssertionsHold
    OBVIOUS
  <2>1. \A p \in ShaderPrograms : client[p] = "ok" => m_id[p] # invalid_handle
    BY DEF IInv, SP!ShaderInv, SP!OkMeansLinked
  <2>2. active \in ShaderPrograms /\ client[active] = "ok" => m_id[active] = current
    BY HandlesAssumption DEF IInv, SP!ShaderInv, SP!SetterAsserted
  <2>3. QED
    BY <2>1, <2>2 DEF IInv, Control, ReadySteps, FrameSteps, ShaderPrograms, ShaderAssertionsHold
<1>2. QED
  BY <1>1, SpecIInv, PTL

\* However run ends, it has deleted both programs, and FreeType is closed once the glyphs
\* are loaded.
THEOREM RunLeavesNothing == Spec => []LeavesNothing
<1>1. IInv => LeavesNothing
  <2> SUFFICES ASSUME IInv
               PROVE  LeavesNothing
    OBVIOUS
  <2>1. ASSUME pc = "done", NEW n \in Names
        PROVE  program[n] \in {"none", "flagged"}
    <3>1. \A p \in ShaderPrograms : m_id[p] # n
      BY <2>1, HandlesAssumption DEF IInv, Control, ShaderPrograms
    <3>2. ~SP!Live(n)
      BY <3>1 DEF IInv, SP!ShaderInv, SP!NoOrphans
    <3>3. QED
      BY <3>2 DEF IInv, SP!ShaderInv, SP!TypeOK, SP!Live
  <2>2. QED
    BY <2>1 DEF IInv, Control, LoadSteps, LeavesNothing
<1>2. QED
  BY <1>1, SpecIInv, PTL

-----------------------------------------------------------------------------
(***************************************************************************)
(* The pen                                                                 *)
(***************************************************************************)

\* A set of natural numbers has a smallest one.
LEMMA SmallestNumber ==
  ASSUME NEW T \in SUBSET Nat, T # {}
  PROVE  \E x \in T : \A y \in T : x <= y
<1> DEFINE R == {pair \in Nat \X Nat : pair[1] < pair[2]}
<1>1. IsWellFoundedOn(R, Nat)
  BY NatLessThanWellFounded DEF OpToRel
<1>2. \A x, y \in Nat : <<x, y>> \notin R => y <= x
  OBVIOUS
<1> HIDE DEF R
<1>3. PICK x \in T : \A y \in T : <<y, x>> \notin R
  BY <1>1, WFMin
<1>4. \A y \in T : x <= y
  BY <1>2, <1>3
<1>5. QED
  BY <1>4

\* Induction upwards.
LEMMA NumberInduction ==
  ASSUME NEW S \in SUBSET Nat, 0 \in S, \A n \in S : n + 1 \in S
  PROVE  S = Nat
<1> SUFFICES ASSUME S # Nat PROVE FALSE
  OBVIOUS
<1>1. PICK x \in Nat \ S : \A y \in Nat \ S : x <= y
  BY SmallestNumber
<1>2. x - 1 \in S
  BY <1>1
<1>3. QED
  BY <1>1, <1>2

\* `total' has the sum of the weights of every set of places up to n: an element more counts
\* its own weight more, whichever it is.
Additive(total, weight, n) ==
  /\ total \in [SUBSET (1..n) -> Int]
  /\ total[{}] = 0
  /\ \A s \in SUBSET (1..n) : \A x \in s : total[s] = weight[x] + total[s \ {x}]

\* There are such sums for all weights.
LEMMA SumsExist ==
  ASSUME NEW n \in Nat, NEW weight \in [1..n -> Int]
  PROVE  \E total : Additive(total, weight, n)
<1> DEFINE S == {k \in Nat : k <= n => \E total : Additive(total, weight, k)}
<1>1. 0 \in S
  <2>1. Additive([s \in SUBSET (1..0) |-> 0], weight, 0)
    <3>1. SUBSET (1..0) = {{}}
      OBVIOUS
    <3>2. QED
      BY <3>1 DEF Additive
  <2>2. QED
    BY <2>1
<1>2. ASSUME NEW k \in S PROVE k + 1 \in S
  <2> SUFFICES ASSUME k + 1 <= n PROVE \E total : Additive(total, weight, k + 1)
    OBVIOUS
  <2>1. k \in Nat /\ k <= n
    OBVIOUS
  <2>2. PICK total : Additive(total, weight, k)
    BY <2>1
  <2> HIDE DEF S
  <2>3. total \in [SUBSET (1..k) -> Int] /\ total[{}] = 0
        /\ \A s \in SUBSET (1..k) : \A x \in s : total[s] = weight[x] + total[s \ {x}]
    BY <2>2 DEF Additive
  <2>4. k + 1 \in 1..n /\ \A x \in 1..k + 1 : weight[x] \in Int
    BY <2>1
  <2>5. \A s \in SUBSET (1..k + 1) : s \ {k + 1} \in SUBSET (1..k)
    BY <2>1
  <2> DEFINE more == [s \in SUBSET (1..k + 1) |->
                        IF k + 1 \in s THEN weight[k + 1] + total[s \ {k + 1}] ELSE total[s]]
  <2>6. \A s \in SUBSET (1..k + 1) : k + 1 \notin s => s \in SUBSET (1..k)
    BY <2>1
  <2>7. more \in [SUBSET (1..k + 1) -> Int]
    BY <2>3, <2>4, <2>5, <2>6
  <2>8. more[{}] = 0
    BY <2>3
  <2>9. ASSUME NEW s \in SUBSET (1..k + 1), NEW x \in s
        PROVE  more[s] = weight[x] + more[s \ {x}]
    <3>1. s \ {x} \in SUBSET (1..k + 1) /\ x \in 1..k + 1
      OBVIOUS
    <3>2. CASE k + 1 \notin s
      <4>1. s \in SUBSET (1..k) /\ k + 1 \notin s \ {x}
        BY <2>6, <3>2
      <4>2. more[s] = total[s] /\ more[s \ {x}] = total[s \ {x}]
        BY <3>1, <3>2, <4>1
      <4> HIDE DEF more
      <4>3. QED
        BY <2>3, <4>1, <4>2
    <3>3. CASE k + 1 \in s /\ x = k + 1
      <4>1. more[s] = weight[k + 1] + total[s \ {k + 1}] /\ more[s \ {x}] = total[s \ {k + 1}]
        BY <3>1, <3>3
      <4> HIDE DEF more
      <4>2. QED
        BY <3>3, <4>1
    <3>4. CASE k + 1 \in s /\ x # k + 1
      <4> DEFINE r == s \ {k + 1}
      <4>1. r \in SUBSET (1..k) /\ x \in r /\ r \ {x} = (s \ {x}) \ {k + 1}
        BY <2>5, <3>4
      <4>2. more[s] = weight[k + 1] + total[r] /\ more[s \ {x}] = weight[k + 1] + total[r \ {x}]
        BY <3>1, <3>4, <4>1
      <4>3. total[r] = weight[x] + total[r \ {x}] /\ total[r \ {x}] \in Int
        BY <2>3, <4>1
      <4>4. weight[x] \in Int /\ weight[k + 1] \in Int
        BY <2>1, <2>4, <3>1
      <4> HIDE DEF more, r
      <4>5. QED
        BY <4>2, <4>3, <4>4
    <3>5. QED
      BY <3>2, <3>3, <3>4
  <2>10. Additive(more, weight, k + 1)
    <3> HIDE DEF more
    <3>1. QED
      BY <2>7, <2>8, <2>9 DEF Additive
  <2>11. QED
    BY <2>10
<1>3. S = Nat
  <2>1. S \in SUBSET Nat
    OBVIOUS
  <2> HIDE DEF S
  <2>2. QED
    BY <1>1, <1>2, <2>1, NumberInduction
<1>4. n \in S
  <2> HIDE DEF S
  <2>1. QED
    BY <1>3
<1>5. QED
  BY <1>4

\* A sum that takes the elements of a set in some order, as the fold of a set does.
Folded(g, weight, S) ==
  g = [s \in SUBSET S |->
         IF s = {} THEN 0
         ELSE weight[CHOOSE x \in s : TRUE] + g[s \ {CHOOSE x \in s : TRUE}]]

\* It is the sum, whatever the order.
LEMMA FoldedIsTotal ==
  ASSUME NEW n \in Nat, NEW weight \in [1..n -> Int], NEW total, Additive(total, weight, n),
         NEW S \in SUBSET (1..n), NEW g, Folded(g, weight, S)
  PROVE  g[S] = total[S]
<1> DEFINE Bad == {s \in SUBSET S : g[s] # total[s]}
           K == {Cardinality(s) : s \in Bad}
<1>1. \A s \in SUBSET S : IsFiniteSet(s) /\ Cardinality(s) \in Nat
  <2>1. IsFiniteSet(1..n)
    BY FS_Interval
  <2>2. \A s \in SUBSET S : IsFiniteSet(s)
    BY <2>1, FS_Subset
  <2>3. QED
    BY <2>2, FS_CardinalityType
<1> SUFFICES ASSUME g[S] # total[S] PROVE FALSE
  OBVIOUS
<1>2. K \in SUBSET Nat /\ K # {}
  BY <1>1
<1>3. PICK m \in K : \A l \in K : m <= l
  <2> HIDE DEF K
  <2>1. QED
    BY <1>2, SmallestNumber
<1>4. PICK s \in Bad : Cardinality(s) = m
  OBVIOUS
<1>5. s \in SUBSET S /\ g[s] # total[s] /\ IsFiniteSet(s) /\ Cardinality(s) \in Nat
  BY <1>1
<1>6. s # {}
  BY <1>5 DEF Folded, Additive
<1> DEFINE x == CHOOSE x \in s : TRUE
<1>7. x \in s
  BY <1>6
<1>8. g[s] = weight[x] + g[s \ {x}]
  BY <1>5, <1>6 DEF Folded
<1> HIDE DEF x
<1>9. total[s] = weight[x] + total[s \ {x}]
  BY <1>5, <1>7 DEF Additive
<1>10. Cardinality(s \ {x}) < m
  <2>1. Cardinality(s \ {x}) = Cardinality(s) - 1
    BY <1>5, <1>7, FS_RemoveElement
  <2> HIDE DEF Bad, K
  <2>2. QED
    BY <1>4, <1>5, <2>1
<1>11. s \ {x} \in Bad
  BY <1>5, <1>8, <1>9
<1>12. Cardinality(s \ {x}) \in K
  BY <1>11
<1>13. m \in Nat /\ Cardinality(s \ {x}) \in Nat
  BY <1>2, <1>12
<1> HIDE DEF K, Bad
<1>14. QED
  BY <1>3, <1>10, <1>12, <1>13

\* And there is one.
LEMMA FoldedExists ==
  ASSUME NEW n \in Nat, NEW weight \in [1..n -> Int], NEW S \in SUBSET (1..n)
  PROVE  \E g : Folded(g, weight, S)
<1>1. PICK total : Additive(total, weight, n)
  BY SumsExist
<1> DEFINE g == [s \in SUBSET S |-> total[s]]
<1>2. ASSUME NEW s \in SUBSET S, s # {}
      PROVE  g[s] = weight[CHOOSE x \in s : TRUE] + g[s \ {CHOOSE x \in s : TRUE}]
  <2> DEFINE x == CHOOSE x \in s : TRUE
  <2>1. x \in s
    BY <1>2
  <2> HIDE DEF x
  <2>2. total[s] = weight[x] + total[s \ {x}]
    BY <1>1, <2>1 DEF Additive
  <2>3. s \ {x} \in SUBSET S
    OBVIOUS
  <2>4. g[s] = total[s] /\ g[s \ {x}] = total[s \ {x}]
    BY <2>3
  <2> HIDE DEF g
  <2>5. g[s] = weight[x] + g[s \ {x}]
    BY <2>2, <2>4
  <2>6. QED
    BY <2>5 DEF x
<1>3. g[{}] = 0
  BY <1>1 DEF Additive
<1>4. Folded(g, weight, S)
  BY <1>2, <1>3 DEF Folded
<1>5. QED
  BY <1>4

\* How far the glyphs at the places S of text l move the pen.
Moved(l, S) == MapThenSumSet(LAMBDA j : Advance[Texts[l][j]] \div 64, S)

Moves(l) == [j \in 1..Len(Texts[l]) |-> Advance[Texts[l][j]] \div 64]

LEMMA MovesAreNumbers ==
  ASSUME NEW l \in 1..Len(Texts)
  PROVE  Len(Texts[l]) \in Nat /\ Moves(l) \in [1..Len(Texts[l]) -> Int]
<1>1. Texts[l] \in Seq(Chars)
  BY TextsAssumption
<1>2. \A j \in 1..Len(Texts[l]) : Advance[Texts[l][j]] \in Int
  BY <1>1, TextsAssumption
<1>3. \A j \in 1..Len(Texts[l]) : Advance[Texts[l][j]] \div 64 \in Int
  BY <1>2
<1>4. QED
  BY <1>1, <1>3 DEF Moves

\* The fold that PenIsPlaced takes is the sum of the places' moves.
LEMMA MovedIsTotal ==
  ASSUME NEW l \in 1..Len(Texts), NEW S \in SUBSET (1..Len(Texts[l])),
         NEW total, Additive(total, Moves(l), Len(Texts[l]))
  PROVE  Moved(l, S) = total[S]
<1> DEFINE F(g) == [s \in SUBSET S |->
                      IF s = {} THEN 0
                      ELSE Advance[Texts[l][CHOOSE x \in s : TRUE]] \div 64
                             + g[s \ {CHOOSE x \in s : TRUE}]]
           iter == CHOOSE g : g = F(g)
<1>1. Moved(l, S) = iter[S]
  BY DEF Moved, MapThenSumSet, MapThenFoldSet
<1>2. ASSUME NEW s \in SUBSET S, s # {}
      PROVE  Moves(l)[CHOOSE x \in s : TRUE]
               = Advance[Texts[l][CHOOSE x \in s : TRUE]] \div 64
  <2> DEFINE x == CHOOSE x \in s : TRUE
  <2>1. x \in s
    BY <1>2
  <2> HIDE DEF x
  <2>2. Moves(l)[x] = Advance[Texts[l][x]] \div 64
    BY <2>1 DEF Moves
  <2>3. QED
    BY <2>2 DEF x
<1>3. ASSUME NEW g
      PROVE  Folded(g, Moves(l), S) <=> g = F(g)
  BY <1>2 DEF Folded
<1>4. \E g : Folded(g, Moves(l), S)
  BY MovesAreNumbers, FoldedExists
<1>5. \E g : g = F(g)
  <2> HIDE DEF F
  <2>1. QED
    BY <1>3, <1>4
<1>6. iter = F(iter)
  <2> HIDE DEF F
  <2>1. QED
    BY <1>5
<1>7. Folded(iter, Moves(l), S)
  <2> HIDE DEF F, iter
  <2>1. QED
    BY <1>3, <1>6
<1> HIDE DEF iter
<1>8. iter[S] = total[S]
  <2> HIDE DEF F
  <2> DEFINE n == Len(Texts[l])
             weight == Moves(l)
  <2>1. n \in Nat /\ weight \in [1..n -> Int]
    BY MovesAreNumbers
  <2>2. S \in SUBSET (1..n) /\ Additive(total, weight, n) /\ Folded(iter, weight, S)
    BY <1>7
  <2> HIDE DEF n, weight
  <2>3. QED
    BY <2>1, <2>2, FoldedIsTotal
<1>9. QED
  BY <1>1, <1>8

\* The places before the next whose characters have a glyph.
Drawn == {j \in 1..(next - 1) : Texts[line][j] \in Cached}

\* The next place is one of the text's, or just behind them, and the pen is where the glyphs
\* drawn have moved it, however their moves are added up.
PenPlaced ==
  pc = "characters" =>
    /\ next <= Len(Texts[line]) + 1
    /\ \A total : Additive(total, Moves(line), Len(Texts[line])) => pen = total[Drawn]

LEMMA PenIs ==
  ASSUME IInv, PenPlaced
  PROVE  PenIsPlaced
<1> SUFFICES ASSUME pc = "characters" PROVE pen = Moved(line, Drawn)
  BY DEF PenIsPlaced, Moved, Drawn
<1>1. line \in 1..Len(Texts) /\ next \in Nat /\ next >= 1 /\ next <= Len(Texts[line]) + 1
  BY TextsAssumption DEF IInv, TypeOK, Control, PenPlaced
<1>2. Len(Texts[line]) \in Nat
  BY <1>1, MovesAreNumbers
<1>3. Drawn \in SUBSET (1..Len(Texts[line]))
  BY <1>1, <1>2 DEF Drawn
<1>4. PICK total : Additive(total, Moves(line), Len(Texts[line]))
  BY <1>1, MovesAreNumbers, SumsExist
<1>5. Moved(line, Drawn) = total[Drawn]
  BY <1>1, <1>3, <1>4, MovedIsTotal
<1>6. QED
  BY <1>4, <1>5 DEF PenPlaced

\* A character of a text moves the pen exactly if it has a glyph.
LEMMA RenderCharacterPlaces ==
  ASSUME IInv, PenPlaced, RenderCharacter
  PROVE  PenPlaced'
<1> DEFINE c == Texts[line][next]
<1>1. /\ pc = "characters" /\ next <= Len(Texts[line]) /\ next' = next + 1 /\ line' = line
      /\ UNCHANGED m_characters
      /\ \/ c \in Cached /\ pen' = pen + Advance[c] \div 64
         \/ c \notin Cached /\ pen' = pen
  BY DEF RenderCharacter, DrawCharacter, SkipCharacter, fontVars
<1>2. line \in 1..Len(Texts) /\ next \in Nat /\ next >= 1
  BY <1>1, TextsAssumption DEF IInv, TypeOK, Control
<1>3. Len(Texts[line]) \in Nat
  BY <1>2, MovesAreNumbers
<1>4. next \in 1..Len(Texts[line]) /\ next' - 1 = next /\ next \notin 1..(next - 1)
  BY <1>1, <1>2, <1>3
<1>5. 1..next = (1..(next - 1)) \union {next} /\ 1..(next - 1) \subseteq 1..Len(Texts[line])
  BY <1>2, <1>3, <1>4
<1>6. Drawn \in SUBSET (1..Len(Texts[line])) /\ next \notin Drawn
  BY <1>4, <1>5 DEF Drawn
<1>7. Cached' = Cached
  BY <1>1 DEF Cached
<1>8. Drawn' = {j \in 1..next : Texts[line][j] \in Cached}
  BY <1>1, <1>4, <1>7 DEF Drawn
<1>9. next' <= Len(Texts[line]) + 1
  BY <1>1, <1>2, <1>3
<1> SUFFICES ASSUME NEW total, Additive(total, Moves(line), Len(Texts[line]))
             PROVE  pen' = total[Drawn']
  BY <1>1, <1>9 DEF PenPlaced, Additive, Moves
<1>10. pen = total[Drawn] /\ total[Drawn] \in Int
  BY <1>1, <1>6 DEF PenPlaced, Additive
<1>11. CASE c \in Cached
  <2>1. Drawn' = Drawn \union {next}
    BY <1>5, <1>8, <1>11 DEF Drawn
  <2>2. Drawn' \in SUBSET (1..Len(Texts[line])) /\ next \in Drawn' /\ Drawn' \ {next} = Drawn
    BY <1>4, <1>6, <2>1
  <2>3. total[Drawn'] = Moves(line)[next] + total[Drawn]
    BY <2>2 DEF Additive
  <2>4. Moves(line)[next] = Advance[c] \div 64 /\ Moves(line)[next] \in Int
    BY <1>2, <1>4, MovesAreNumbers DEF Moves
  <2>5. pen' = pen + Moves(line)[next]
    BY <1>1, <1>11, <2>4
  <2>6. QED
    BY <1>10, <2>3, <2>4, <2>5
<1>12. CASE c \notin Cached
  <2>1. Drawn' = Drawn
    BY <1>5, <1>8, <1>12 DEF Drawn
  <2>2. QED
    BY <1>1, <1>10, <1>12, <2>1
<1>13. QED
  BY <1>11, <1>12

\* Before the first character the pen has not moved.
LEMMA SetTextColorPlaces ==
  ASSUME IInv, SetTextColor
  PROVE  PenPlaced'
<1>1. line' = line /\ next' = 1 /\ pen' = 0
  BY DEF SetTextColor
<1>2. Drawn' = {}
  BY <1>1 DEF Drawn
<1>3. line \in 1..Len(Texts)
  BY TextsAssumption DEF IInv, TypeOK, Control, SetTextColor
<1>4. next' <= Len(Texts[line]) + 1
  BY <1>1, <1>3, MovesAreNumbers
<1>5. QED
  BY <1>1, <1>2, <1>4 DEF PenPlaced, Additive

\* Nothing else gets to the characters of a text, or moves the pen between two of them.
LEMMA OthersPlace ==
  ASSUME PenPlaced, [Next]_vars, ~RenderCharacter, ~SetTextColor
  PROVE  PenPlaced'
<1>1. \/ pc' # "characters"
      \/ UNCHANGED <<pc, line, next, pen, m_characters>>
  BY DEF Next, LoadFont, OpenFont, LoadFontFails, LoadGlyph, GlyphsLoaded, CompileProgram,
         UseForProjection, SetProjection, ConfigureRectangle, UseForRectangle, DrawRectangle,
         UseForText, TextRendered, SwapBuffers, DestroyProgram, vars, textVars, fontVars
<1>2. CASE pc' # "characters"
  BY <1>2 DEF PenPlaced
<1>3. CASE UNCHANGED <<pc, line, next, pen, m_characters>>
  <2>1. Cached' = Cached
    BY <1>3 DEF Cached
  <2>2. Drawn' = Drawn
    BY <1>3, <2>1 DEF Drawn
  <2>3. QED
    BY <1>3, <2>2 DEF PenPlaced, Additive, Moves
<1>4. QED
  BY <1>1, <1>2, <1>3

LEMMA SpecPenPlaced == Spec => []PenPlaced
<1>1. Init => PenPlaced
  BY DEF Init, PenPlaced
<1>2. IInv /\ PenPlaced /\ [Next]_vars => PenPlaced'
  BY RenderCharacterPlaces, SetTextColorPlaces, OthersPlace
<1>3. QED
  BY <1>1, <1>2, SpecIInv, PTL DEF Spec

\* The glyphs of a text stand one after the other, whatever the text, the advances of the
\* glyphs and the characters that have none.
THEOREM GlyphsStandInLine == Spec => []PenIsPlaced
  BY SpecPenPlaced, SpecIInv, PenIs, PTL

-----------------------------------------------------------------------------
(***************************************************************************)
(* The frames: every step of run and render_text is a step of FrameSpec or *)
(* changes nothing it tells apart.                                         *)
(***************************************************************************)

FrameStep == Frames!Next \/ UNCHANGED Frames!vars

LEMMA SamePlaces == Places = Frames!Places
  BY DEF Places, Frames!Places, Frames!Rectangle

\* The places of a frame, one by one.
LEMMA PlacesAre ==
  ASSUME NEW p
  PROVE  p \in Places <=>
           \/ p = <<0, 1>>
           \/ \E l \in 1..Len(Texts) : \E j \in 1..Len(Texts[l]) :
                p = <<l, j>> /\ Texts[l][j] \in Cached
<1>1. DOMAIN Texts = 1..Len(Texts)
  BY TextsAssumption
<1>2. \A l \in 1..Len(Texts) : DOMAIN Texts[l] = 1..Len(Texts[l])
  BY TextsAssumption
<1>3. QED
  BY <1>1, <1>2 DEF Places

LEMMA PlacesAreNumbers ==
  ASSUME NEW p \in Places
  PROVE  /\ p[1] \in Nat /\ p[2] \in Nat /\ p = <<p[1], p[2]>> /\ p[2] >= 1
         /\ p[1] = 0 => p = <<0, 1>>
         /\ p[1] # 0 => /\ p[1] \in 1..Len(Texts) /\ p[2] \in 1..Len(Texts[p[1]])
                        /\ Texts[p[1]][p[2]] \in Cached
<1>1. Len(Texts) \in Nat /\ \A l \in 1..Len(Texts) : Len(Texts[l]) \in Nat
  BY TextsAssumption
<1>2. CASE p = <<0, 1>>
  BY <1>2
<1>3. ASSUME NEW l \in 1..Len(Texts), NEW j \in 1..Len(Texts[l]), p = <<l, j>>,
             Texts[l][j] \in Cached
      PROVE  /\ p[1] \in Nat /\ p[2] \in Nat /\ p = <<p[1], p[2]>> /\ p[2] >= 1 /\ p[1] # 0
             /\ p[1] \in 1..Len(Texts) /\ p[2] \in 1..Len(Texts[p[1]])
             /\ Texts[p[1]][p[2]] \in Cached
  <2>1. p[1] = l /\ p[2] = j
    BY <1>3
  <2>2. l \in Nat /\ l # 0 /\ j \in Nat /\ j >= 1
    BY <1>1
  <2>3. QED
    BY <1>3, <2>1, <2>2
<1>4. QED
  BY <1>2, <1>3, PlacesAre

\* What is to come of a frame at place h.
Ahead(h) == {p \in Places : p[1] > h[1] \/ (p[1] = h[1] /\ p[2] >= h[2])}

LeftAhead ==
  /\ pc = "draw_rectangle" => Stage = "drawing" /\ Left = Ahead(<<0, 1>>)
  /\ pc \in {"text", "text_color"} => Stage = "drawing" /\ Left = Ahead(<<line, 1>>)
  /\ pc = "characters" => Stage = "drawing" /\ Left = Ahead(<<line, next>>)
  /\ pc \notin {"draw_rectangle", "text", "text_color", "characters"} =>
       Stage # "drawing" /\ Left = {}

LEMMA LeftIs == LeftAhead
<1>1. /\ pc = "draw_rectangle" => Stage = "drawing" /\ Here = <<0, 1>>
      /\ pc \in {"text", "text_color"} => Stage = "drawing" /\ Here = <<line, 1>>
      /\ pc = "characters" => Stage = "drawing" /\ Here = <<line, next>>
      /\ pc \notin {"draw_rectangle", "text", "text_color", "characters"} => Stage # "drawing"
  BY DEF Stage, Here
<1>2. QED
  BY <1>1 DEF LeftAhead, Left, Ahead

LEMMA LeftIsNext == LeftAhead'
  BY LeftIs, PTL

\* As long as the cache of glyphs stays, so do the places.
LEMMA PlacesStay ==
  ASSUME UNCHANGED m_characters
  PROVE  Cached' = Cached /\ Places' = Places
<1>1. Cached' = Cached
  BY DEF Cached
<1>2. QED
  BY <1>1 DEF Places

LEMMA AheadStays ==
  ASSUME UNCHANGED m_characters, NEW l, NEW j
  PROVE  Ahead(<<l, j>>)' = Ahead(<<l, j>>)
  BY PlacesStay DEF Ahead

\* A step that neither draws nor moves on.
LEMMA Quiet ==
  ASSUME UNCHANGED <<Stage, Left, m_characters, drawn>>
  PROVE  UNCHANGED Frames!vars
<1>1. UNCHANGED <<Cached, Last>>
  BY PlacesStay DEF Last
<1>2. QED
  BY <1>1 DEF Frames!vars

\* Before the first frame.
LEMMA SetUpFrames ==
  ASSUME \/ LoadFont \/ LoadFontFails \/ GlyphsLoaded
         \/ CompileProgram("simple_shader", "text_shader")
         \/ CompileProgram("text_shader", "projection")
         \/ UseForProjection \/ SetProjection \/ ConfigureRectangle
  PROVE  FrameStep
<1>1. /\ Stage = "setup" /\ Stage' \in {"setup", "between", "over"}
      /\ pc' \notin {"draw_rectangle", "text", "text_color", "characters"}
      /\ pc \notin {"draw_rectangle", "text", "text_color", "characters"}
      /\ UNCHANGED <<m_characters, drawn>>
  BY DEF LoadFont, OpenFont, LoadFontFails, GlyphsLoaded, CompileProgram, UseForProjection,
         SetProjection, ConfigureRectangle, Stage, fontVars
<1>2. Left = {} /\ Left' = {}
  BY <1>1, LeftIs, LeftIsNext DEF LeftAhead
<1>3. UNCHANGED <<Cached, Last>>
  BY <1>1, PlacesStay DEF Last
<1>4. QED
  BY <1>1, <1>2, <1>3 DEF FrameStep, Frames!Next, Frames!GetReady, Frames!Stop, Frames!vars

LEMMA LoadGlyphFrames ==
  ASSUME IInv, LoadGlyph
  PROVE  FrameStep
<1>1. /\ Stage = "setup" /\ Stage' = "setup" /\ pc = "glyph" /\ pc' = "glyph"
      /\ drawn' = drawn /\ drawn.kind = "nothing"
  BY DEF LoadGlyph, Stage, IInv, Canvas, LoadSteps
<1>2. Left = {} /\ Left' = {}
  BY <1>1, LeftIs, LeftIsNext DEF LeftAhead
<1>3. Last' = Last
  BY <1>1 DEF Last
<1>4. CASE UNCHANGED m_characters
  BY <1>1, <1>2, <1>4, Quiet DEF FrameStep
<1>5. ASSUME NEW c \in Chars, GlyphLoaded(c)
      PROVE  FrameStep
  <2>1. PICK t \in Textures : m_characters' = [m_characters EXCEPT ![c] = t]
    BY <1>5 DEF GlyphLoaded
  <2>2. t # NoTexture
    BY TexturesAssumption
  <2>3. Cached' = Cached \union {c}
    BY <2>1, <2>2 DEF Cached, IInv, TypeOK
  <2>4. c \notin Cached => Frames!Load
    BY <1>1, <1>2, <1>3, <2>3 DEF Frames!Load
  <2>5. c \in Cached => UNCHANGED Frames!vars
    BY <1>1, <1>2, <1>3, <2>3 DEF Frames!vars
  <2>6. QED
    BY <2>4, <2>5 DEF FrameStep, Frames!Next
<1>6. todo \subseteq Chars
  BY DEF IInv, TypeOK
<1>7. QED
  BY <1>4, <1>5, <1>6 DEF LoadGlyph

\* A frame begins with all its places ahead.
LEMMA UseForRectangleFrames ==
  ASSUME UseForRectangle
  PROVE  FrameStep
<1>1. /\ pc = "frame" /\ pc' = "draw_rectangle" /\ UNCHANGED <<m_characters, drawn>>
      /\ Stage = "between" /\ Stage' = "drawing"
  BY DEF UseForRectangle, Stage, fontVars
<1>2. Left' = Ahead(<<0, 1>>)
  BY <1>1, LeftIsNext, AheadStays DEF LeftAhead
<1>3. Ahead(<<0, 1>>) = Places
  BY PlacesAreNumbers DEF Ahead
<1>4. UNCHANGED <<Cached, Last>>
  BY <1>1, PlacesStay DEF Last
<1>5. QED
  BY <1>1, <1>2, <1>3, <1>4, SamePlaces DEF FrameStep, Frames!Next, Frames!BeginFrame

\* The rectangle comes first, and is drawn with its own program over nothing.
LEMMA DrawRectangleFrames ==
  ASSUME IInv, IInv', DrawRectangle
  PROVE  FrameStep
<1>1. /\ pc = "draw_rectangle" /\ pc' = "text" /\ UNCHANGED m_characters /\ line' = 1
      /\ drawn' = Taken("rectangle") /\ Stage = "drawing" /\ Stage' = "drawing"
  BY DEF DrawRectangle, Stage, fontVars
<1>2. Left = Ahead(<<0, 1>>) /\ Left' = Ahead(<<1, 1>>)
  BY <1>1, LeftIs, LeftIsNext, AheadStays DEF LeftAhead
<1>3. <<0, 1>> \in Left
  BY <1>2, PlacesAre DEF Ahead
<1>4. Left' = Left \ {<<0, 1>>}
  BY <1>2, PlacesAreNumbers DEF Ahead
<1>5. \A q \in Left \ {<<0, 1>>} : Frames!Before(<<0, 1>>, q)
  BY <1>2, PlacesAreNumbers DEF Ahead, Frames!Before
<1>6. drawn'.kind = "rectangle"
  BY <1>1 DEF Taken
<1>7. drawn'.by = {"simple_shader"} /\ drawn'.from = <<"rectangle">> /\ ~drawn'.blend
  BY <1>6 DEF IInv, DrawsWithItsState, Rectangle
<1>8. drawn'.blend = FALSE
  <2>1. drawn'.blend = blend /\ blend \in BOOLEAN
    BY <1>1 DEF Taken, IInv, TypeOK
  <2>2. QED
    BY <1>7, <2>1
<1>9. Last' = [by |-> {"simple_shader"}, from |-> <<"rectangle">>, shows |-> {}, blend |-> FALSE]
  BY <1>6, <1>7, <1>8 DEF Last
<1>10. Last' = Frames!Seen(<<0, 1>>)
  BY <1>9 DEF Frames!Seen, Frames!Rectangle
<1>11. Frames!Draw
  BY <1>1, <1>3, <1>4, <1>5, <1>10, PlacesStay DEF Frames!Draw
<1>12. QED
  BY <1>11 DEF FrameStep, Frames!Next

LEMMA TextBegins ==
  ASSUME UseForText \/ SetTextColor
  PROVE  FrameStep
<1>1. /\ \/ pc = "text" /\ pc' = "text_color"
         \/ pc = "text_color" /\ pc' = "characters" /\ next' = 1
      /\ UNCHANGED <<line, m_characters, drawn>>
      /\ Stage = "drawing" /\ Stage' = "drawing"
  BY DEF UseForText, SetTextColor, Stage, fontVars, textVars
<1>2. Left = Ahead(<<line, 1>>) /\ Left' = Ahead(<<line, 1>>)
  BY <1>1, LeftIs, LeftIsNext, AheadStays DEF LeftAhead
<1>3. QED
  BY <1>1, <1>2, Quiet DEF FrameStep

\* At the end of a text the next one's start is what comes next.
LEMMA TextRenderedFrames ==
  ASSUME IInv, TextRendered
  PROVE  FrameStep
<1>1. /\ pc = "characters" /\ pc' = "text" /\ next > Len(Texts[line]) /\ line' = line + 1
      /\ UNCHANGED <<m_characters, drawn>> /\ Stage = "drawing" /\ Stage' = "drawing"
  BY DEF TextRendered, Stage, fontVars
<1>2. Left = Ahead(<<line, next>>) /\ Left' = Ahead(<<line + 1, 1>>)
  BY <1>1, LeftIs, LeftIsNext, AheadStays DEF LeftAhead
<1>3. line \in 1..Len(Texts) /\ next \in Nat
  BY <1>1, TextsAssumption DEF IInv, TypeOK, Control
<1>4. Len(Texts[line]) \in Nat /\ line \in Nat /\ line >= 1
  BY <1>3, MovesAreNumbers, TextsAssumption
<1>5. ASSUME NEW p \in Places
      PROVE  p \in Ahead(<<line, next>>) <=> p \in Ahead(<<line + 1, 1>>)
  <2>1. p[1] \in Nat /\ p[2] \in Nat /\ p[2] >= 1
    BY PlacesAreNumbers
  <2>2. p[1] = line => p[2] < next
    BY <1>1, <1>3, <1>4, <2>1, PlacesAreNumbers
  <2>3. QED
    BY <1>3, <1>4, <2>1, <2>2 DEF Ahead
<1>6. Left' = Left
  BY <1>2, <1>5 DEF Ahead
<1>7. QED
  BY <1>1, <1>6, Quiet DEF FrameStep

\* A frame is shown with nothing left of it.
LEMMA SwapBuffersFrames ==
  ASSUME IInv, SwapBuffers
  PROVE  FrameStep
<1>1. /\ pc = "text" /\ line > Len(Texts) /\ pc' \in {"frame", "destroy_simple", "unwind"}
      /\ UNCHANGED <<m_characters, drawn>> /\ Stage = "drawing"
      /\ Stage' = IF pc' = "frame" THEN "between" ELSE "over"
  BY DEF SwapBuffers, Stage, fontVars
<1>2. Left = Ahead(<<line, 1>>) /\ Left' = {}
  BY <1>1, LeftIs, LeftIsNext DEF LeftAhead
<1>3. line \in Nat /\ Len(Texts) \in Nat
  BY TextsAssumption DEF IInv, TypeOK
<1>4. Left = {}
  <2> SUFFICES ASSUME NEW p \in Places, p \in Ahead(<<line, 1>>) PROVE FALSE
    BY <1>2 DEF Ahead
  <2>1. p[1] \in Nat /\ (p[1] = 0 \/ p[1] <= Len(Texts))
    BY PlacesAreNumbers
  <2>2. QED
    BY <1>1, <1>3, <2>1 DEF Ahead
<1>5. UNCHANGED <<Cached, Last>>
  BY <1>1, PlacesStay DEF Last
<1>6. CASE pc' = "frame"
  BY <1>1, <1>2, <1>4, <1>5, <1>6 DEF FrameStep, Frames!Next, Frames!Show
<1>7. CASE pc' # "frame"
  BY <1>1, <1>2, <1>4, <1>5, <1>7 DEF FrameStep, Frames!Next, Frames!Stop
<1>8. QED
  BY <1>6, <1>7

LEMMA DestroyProgramFrames ==
  ASSUME DestroyProgram
  PROVE  FrameStep
<1>1. /\ Stage = "over" /\ Stage' = "over" /\ UNCHANGED <<m_characters, drawn>>
      /\ pc \notin {"draw_rectangle", "text", "text_color", "characters"}
      /\ pc' \notin {"draw_rectangle", "text", "text_color", "characters"}
  BY DEF DestroyProgram, Stage, fontVars
<1>2. Left = {} /\ Left' = {}
  BY <1>1, LeftIs, LeftIsNext DEF LeftAhead
<1>3. QED
  BY <1>1, <1>2, Quiet DEF FrameStep

\* FrameSpec adds up the glyphs' moves as PenIsPlaced does.
LEMMA OffsetIs ==
  ASSUME NEW l, NEW j
  PROVE  Frames!Offset(<<l, j>>) = Moved(l, {k \in 1..(j - 1) : Texts[l][k] \in Cached})
  BY DEF Frames!Offset, Frames!MapThenSumSet, Frames!MapThenFoldSet, Moved, MapThenSumSet,
         MapThenFoldSet

\* A character with a glyph is what comes next, and is drawn as FrameSpec says; one without is
\* no place of the frame.
LEMMA RenderCharacterFrames ==
  ASSUME IInv, IInv', PenPlaced, RenderCharacter
  PROVE  FrameStep
<1> DEFINE c == Texts[line][next]
           p == <<line, next>>
<1>1. /\ pc = "characters" /\ pc' = "characters" /\ next <= Len(Texts[line])
      /\ next' = next + 1 /\ line' = line /\ UNCHANGED <<m_characters, source, vertex_array>>
      /\ Stage = "drawing" /\ Stage' = "drawing"
      /\ DrawCharacter(c) \/ SkipCharacter(c)
  BY DEF RenderCharacter, Stage, fontVars, arrayVars
<1>2. Left = Ahead(p) /\ Left' = Ahead(<<line, next + 1>>)
  BY <1>1, LeftIs, LeftIsNext, AheadStays DEF LeftAhead
<1>3. line \in 1..Len(Texts) /\ next \in Nat /\ next >= 1
  BY <1>1, TextsAssumption DEF IInv, TypeOK, Control
<1>4. line \in Nat /\ line # 0 /\ next \in 1..Len(Texts[line])
  BY <1>1, <1>3, MovesAreNumbers, TextsAssumption
<1>5. p \in Places <=> c \in Cached
  BY <1>3, <1>4, PlacesAre
<1>6. Left' = Left \ {p}
  <2>1. ASSUME NEW q \in Places
        PROVE  q \in Ahead(<<line, next + 1>>) <=> q \in Ahead(p) /\ q # p
    BY <1>3, <1>4, PlacesAreNumbers DEF Ahead
  <2>2. QED
    BY <1>2, <2>1 DEF Ahead
<1>7. CASE SkipCharacter(c)
  <2>1. Left' = Left
    BY <1>2, <1>5, <1>6, <1>7 DEF SkipCharacter, Ahead
  <2>2. QED
    BY <1>1, <1>7, <2>1, Quiet DEF SkipCharacter, FrameStep
<1>8. CASE DrawCharacter(c)
  <2>1. p \in Left
    BY <1>2, <1>3, <1>5, <1>8 DEF DrawCharacter, Ahead
  <2>2. \A q \in Left \ {p} : Frames!Before(p, q)
    BY <1>2, <1>3, PlacesAreNumbers DEF Ahead, Frames!Before
  <2>3. /\ drawn'.kind = "glyph" /\ drawn'.texture = m_characters[c]
        /\ drawn'.blend = blend /\ blend = TRUE
        /\ contents' = [contents EXCEPT !["text"] = Quad(c, pen)]
    BY <1>1, <1>8 DEF DrawCharacter, Taken, IInv, TypeOK, Canvas
  <2>4. contents'["text"] = <<c, pen>>
    BY <2>3 DEF IInv, TypeOK, VertexArrays, Quad
  <2>5. drawn'.by = {"text_shader"} /\ drawn'.from = <<c, pen>>
    BY <2>3, <2>4 DEF IInv, DrawsWithItsState
  <2>6. {d \in Chars : m_characters[d] = m_characters[c]} = {c}
    <3>1. c \in Cached /\ c \in Chars
      BY <1>8 DEF DrawCharacter, Cached
    <3>2. \A d \in Chars : m_characters[d] = m_characters[c] => d \in Cached
      BY <3>1 DEF Cached
    <3>3. QED
      BY <3>1, <3>2 DEF IInv, GlyphsHaveTextures
  <2>7. Last' = [by |-> {"text_shader"}, from |-> <<c, pen>>, shows |-> {c}, blend |-> TRUE]
    BY <1>1, <2>3, <2>5, <2>6 DEF Last
  <2>8. pen = Frames!Offset(p)
    <3>1. pen = Moved(line, Drawn)
      <4>1. PenIsPlaced
        BY PenIs
      <4>2. pc = "characters"
        BY <1>1
      <4>3. QED
        BY <4>1, <4>2, Zenon DEF PenIsPlaced, Moved, Drawn
    <3>2. QED
      BY <3>1, OffsetIs DEF Drawn
  <2>9. Last' = Frames!Seen(p)
    <3>1. p # Frames!Rectangle /\ p[1] = line /\ p[2] = next
      BY <1>4 DEF Frames!Rectangle
    <3> HIDE DEF p
    <3>2. QED
      BY <2>7, <2>8, <3>1 DEF Frames!Seen
  <2>10. Frames!Draw
    BY <1>1, <1>6, <2>1, <2>2, <2>9, PlacesStay DEF Frames!Draw
  <2>11. QED
    BY <2>10 DEF FrameStep, Frames!Next
<1>9. QED
  BY <1>1, <1>7, <1>8

LEMMA FramesBegin == Init => Frames!Init
<1> SUFFICES ASSUME Init PROVE Frames!Init
  OBVIOUS
<1>1. pc = "library" /\ drawn.kind = "nothing"
  BY DEF Init, Taken
<1>2. Stage = "setup" /\ Left = {}
  BY <1>1 DEF Stage, Left
<1>3. Cached = {}
  BY DEF Init, Cached
<1>4. Last.shows = {}
  BY <1>1 DEF Last
<1>5. QED
  BY <1>2, <1>3, <1>4 DEF Frames!Init

LEMMA StepsAreFrames == IInv /\ IInv' /\ PenPlaced /\ [Next]_vars => FrameStep
<1> SUFFICES ASSUME IInv, IInv', PenPlaced, [Next]_vars PROVE FrameStep
  OBVIOUS
<1>1. CASE Next
  BY <1>1, SetUpFrames, LoadGlyphFrames, UseForRectangleFrames, DrawRectangleFrames,
     TextBegins, RenderCharacterFrames, TextRenderedFrames, SwapBuffersFrames,
     DestroyProgramFrames DEF Next
<1>2. CASE UNCHANGED vars
  <2>1. UNCHANGED <<pc, line, next, m_characters, drawn>>
    BY <1>2 DEF vars, fontVars, textVars
  <2>2. UNCHANGED <<Stage, Here>>
    BY <2>1 DEF Stage, Here
  <2>3. Left' = Left
    BY <2>1, <2>2, PlacesStay DEF Left
  <2>4. QED
    BY <2>1, <2>2, <2>3, Quiet DEF FrameStep
<1>3. QED
  BY <1>1, <1>2

\* The frames that run and render_text show are FrameSpec's, for all texts, whatever glyphs are
\* missing and whichever steps fail.
THEOREM RendererDrawsFrames == Spec => DrawsFrames
  BY SpecPenPlaced, FramesBegin, StepsAreFrames, SpecIInv, PTL
     DEF Spec, DrawsFrames, Frames!Spec, FrameStep

=============================================================================
