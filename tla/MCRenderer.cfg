SPECIFICATION Spec
CONSTANTS
  H = H
  e = e
  star = star
  n1 = n1
  n2 = n2
  t1 = t1
  t2 = t2
  t3 = t3
  Names <- MCNames
  invalid_handle = invalid_handle
  NoObject = NoObject
  Chars <- MCChars
  Textures <- MCTextures
  NoTexture = NoTexture
  Texts <- MCTexts
  Advance <- MCAdvance
INVARIANTS
  DrawsWithItsState
  GlyphsHaveTextures
  ShaderAssertionsHold
PROPERTIES
  DrawsFrames
CHECK_DEADLOCK FALSE
